----------------------------- MODULE ListRings ------------------------------
(***************************************************************************)
(* List implements RingLists.  The refinement mapping reads each linked    *)
(* node's ring by following next pointers, as list_for_each does.          *)
(***************************************************************************)
EXTENDS List, Sequences

\* The walks below end only among finitely many nodes.
ASSUME NodesFinite == IsFiniteSet(Nodes)

\* The nodes met from n on, following next: as many as there are, and one more.
Met(next, n) ==
  LET at[i \in 1..Cardinality(Nodes) + 1] ==
        IF i = 1 THEN n ELSE IF at[i - 1] = NULL THEN NULL ELSE next[at[i - 1]]
  IN at

\* The walk from n until n is met again; one that does not come back is cut short.
WalkIn(next, n) ==
  LET at      == Met(next, n)
      returns == {i \in 1..Cardinality(Nodes) : at[i + 1] = n}
      length  == IF returns = {} THEN Cardinality(Nodes)
                 ELSE CHOOSE i \in returns : \A j \in returns : i <= j
  IN [i \in 1..length |-> at[i]]

\* The rings of the nodes of L.
RingsOf(next, L) == [n \in Nodes |-> IF n \in L THEN WalkIn(next, n) ELSE <<>>]

Walk(n) == WalkIn(ptr.next, n)
RingOf  == RingsOf(ptr.next, linked)

Rings == INSTANCE RingLists WITH ring <- RingOf

\* The pointer manipulations of list.h implement rings of nodes.
RefinesRings == Rings!RingSpec

\* Each inline function does to the rings what its name says: list_add puts
\* behind the node and list_add_tail before it, list_move and list_move_tail
\* likewise, list_replace and list_swap exchange places and disturb no one else.
CallsKeepPromises ==
  [][\A x, y \in Nodes :
       /\ AddItem(x, y)      => Rings!PutBehind(x, y)
       /\ AddItemTail(x, y)  => Rings!PutBefore(x, y)
       /\ MoveItem(x, y)     => Rings!MoveBehind(x, y)
       /\ MoveItemTail(x, y) => Rings!MoveBefore(x, y)
       /\ ReplaceItem(x, y)  => Rings!Substitute(x, y)
       /\ SwapItems(x, y)    => Rings!Trade(x, y)]_vars
=============================================================================
