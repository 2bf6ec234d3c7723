------------------------------- MODULE HList --------------------------------
(***************************************************************************)
(* The hlist of include/hlibc/list.h: chains that start at a one-pointer   *)
(* head, whose nodes point back at the pointer that leads to them.  Such a *)
(* pointer is the field of a head (head->first) or of a node (node->next),  *)
(* so it is named by that head or node, and one function holds them all.   *)
(***************************************************************************)
EXTENDS Naturals, FiniteSets, Sequences, SequencesExt

CONSTANTS Heads, Nodes, NULL

ASSUME PlacesAssumption == Heads \cap Nodes = {} /\ NULL \notin Heads \cup Nodes
\* The walks below end only among finitely many nodes.
ASSUME NodesFinite == IsFiniteSet(Nodes)

VARIABLES
  next,        \* head->first and node->next
  pprev,       \* node->pprev
  on,          \* ghost: the nodes the caller has put on a chain
  prevUsed     \* ghost: whether hlist_add_prev has been called
vars == <<next, pprev, on, prevUsed>>

Places == Heads \cup Nodes

\* HLIST_HEAD_INIT and HLIST_NODE_INIT, or hlist_head_init and hlist_node_init.
Init ==
  /\ next = [p \in Places |-> NULL] /\ pprev = [x \in Nodes |-> NULL]
  /\ on = {} /\ prevUsed = FALSE

AddHead(item, head) ==
  /\ item \notin on
  /\ pprev' = [x \in Nodes |-> IF x = item THEN head
                               ELSE IF x = next[head] THEN item ELSE pprev[x]]
  /\ next' = [next EXCEPT ![item] = next[head], ![head] = item]
  /\ on' = on \cup {item} /\ UNCHANGED prevUsed

\* item->next becomes node->next where node itself would have to be: the chain
\* goes on behind node, and node is no longer on it.
AddPrev(item, node) ==
  /\ item \notin on /\ node \in on
  /\ pprev' = [pprev EXCEPT ![item] = pprev[node], ![node] = item]
  /\ next' = [next EXCEPT ![item] = next[node], ![pprev[node]] = item]
  /\ on' = on \cup {item} /\ prevUsed' = TRUE

\* Mutant of AddNext: the node behind keeps pointing back at `node'.
AddNextOneWay(item, node) ==
  /\ item \notin on /\ node \in on
  /\ pprev' = [pprev EXCEPT ![item] = node]
  /\ next' = [next EXCEPT ![item] = next[node], ![node] = item]
  /\ on' = on \cup {item} /\ UNCHANGED prevUsed

AddNext(item, node) ==
  /\ item \notin on /\ node \in on
  /\ pprev' = [x \in Nodes |-> IF x = item THEN node
                               ELSE IF x = next[node] THEN item ELSE pprev[x]]
  /\ next' = [next EXCEPT ![item] = next[node], ![node] = item]
  /\ on' = on \cup {item} /\ UNCHANGED prevUsed

\* Mutant of Del: node->pprev is taken for the node before, not its field.
DelSkips(node) ==
  /\ node \in on
  /\ next' = [next EXCEPT ![pprev[node]] = NULL]
  /\ pprev' = [x \in Nodes |-> IF x = next[node] THEN pprev[node] ELSE pprev[x]]
  /\ on' = on \ {node} /\ UNCHANGED prevUsed

\* The removed node keeps its pointers.
Del(node) ==
  /\ node \in on
  /\ next' = [next EXCEPT ![pprev[node]] = next[node]]
  /\ pprev' = [x \in Nodes |-> IF x = next[node] THEN pprev[node] ELSE pprev[x]]
  /\ on' = on \ {node} /\ UNCHANGED prevUsed

\* Called on an empty head: what another head led to would be lost.
Rehead(old, head) ==
  /\ old # head /\ next[head] = NULL
  /\ next' = [next EXCEPT ![head] = next[old], ![old] = NULL]
  /\ pprev' = [x \in Nodes |-> IF x = next[old] THEN head ELSE pprev[x]]
  /\ UNCHANGED <<on, prevUsed>>

\* No caller goes on after hlist_add_prev, whose chain is already broken.
Next ==
  /\ ~prevUsed
  /\ \/ \E x \in Nodes, h \in Heads : AddHead(x, h)
     \/ \E x, y \in Nodes : AddPrev(x, y) \/ AddNext(x, y)
     \/ \E x \in Nodes : Del(x)
     \/ \E g, h \in Heads : Rehead(g, h)

Spec == Init /\ [][Next]_vars

-----------------------------------------------------------------------------
TypeOK ==
  /\ next \in [Places -> Nodes \cup {NULL}]
  /\ pprev \in [Nodes -> Places \cup {NULL}]
  /\ on \subseteq Nodes /\ prevUsed \in BOOLEAN

\* A node on a chain is what the place its pprev names leads to, and every place
\* that leads somewhere leads to a node that points back at it.
WellLinked ==
  ~prevUsed =>
    /\ \A x \in on : pprev[x] \in Heads \cup on /\ next[pprev[x]] = x
    /\ \A p \in Heads \cup on : next[p] # NULL => next[p] \in on /\ pprev[next[p]] = p

\* The places met from head h on, following `to': as many as there are nodes, and
\* one more, for a chain that does not end.
Met(to, h) ==
  LET at[i \in 0..Cardinality(Nodes) + 1] ==
        IF i = 0 THEN h ELSE IF at[i - 1] = NULL THEN NULL ELSE to[at[i - 1]]
  IN at

\* The nodes among them.
ChainIn(to, h) ==
  LET at     == Met(to, h)
      length == Cardinality({i \in 1..Cardinality(Nodes) + 1 : at[i] # NULL})
  IN [i \in 1..length |-> at[i]]

Chain(h) == ChainIn(next, h)

PlaceOf(s, x) == CHOOSE i \in DOMAIN s : s[i] = x
Behind(s, y, x) == IF Contains(s, y) THEN InsertAt(s, PlaceOf(s, y) + 1, x) ELSE s
Without(s, x) == IF Contains(s, x) THEN RemoveAt(s, PlaceOf(s, x)) ELSE s

\* Each call does to the chains what its name says, and nothing to those it is not
\* called on; hlist_add_prev alone puts the item in the place of the node, which
\* falls off its chain.
CallsChangeChains ==
  [][\A h \in Heads :
       /\ \A x \in Nodes, g \in Heads :
            AddHead(x, g) => Chain(h)' = IF h = g THEN <<x>> \o Chain(h) ELSE Chain(h)
       /\ \A x, y \in Nodes :
            /\ AddNext(x, y) => Chain(h)' = Behind(Chain(h), y, x)
            /\ AddPrev(x, y) => Chain(h)' = ReplaceAll(Chain(h), y, x)
       /\ \A x \in Nodes : Del(x) => Chain(h)' = Without(Chain(h), x)
       /\ \A f, g \in Heads :
            Rehead(f, g) => Chain(h)' = IF h = g THEN Chain(f)
                                        ELSE IF h = f THEN <<>> ELSE Chain(h)]_vars
=============================================================================
