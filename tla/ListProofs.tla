----------------------------- MODULE ListProofs -----------------------------
(***************************************************************************)
(* Theorems about List, ListRings and ListIteration, for every set of      *)
(* nodes.                                                                  *)
(*                                                                         *)
(* RingsIn(m, L) says of a memory m and a set L of nodes that next and prev *)
(* are inverse to each other on L.  Arranged(next, L, r) says that the next *)
(* pointers lead the nodes of L around the rings r; there is one such r,   *)
(* and it is what the walks of ListRings find.  Both are predicates of      *)
(* memories, not of states, so that a function built from others           *)
(* (list_move, list_swap) is proved from theirs.                           *)
(***************************************************************************)
EXTENDS ListIteration, FiniteSetTheorems, WellFoundedInduction, TLAPS

RingsIn(m, L) ==
  \A n \in L : /\ m.next[n] \in L /\ m.prev[m.next[n]] = n
               /\ m.prev[n] \in L /\ m.next[m.prev[n]] = n

\* list_node_init makes a node that is on no list, or alone on its list, a list
\* of one, and leaves the other lists as they are.
LEMMA NodeInitMakesRing ==
  ASSUME NEW m \in Pointers, NEW L \in SUBSET Nodes, RingsIn(m, L),
         NEW x \in Nodes, x \in L => m.next[x] = x
  PROVE  NodeInit(m, x) \in Pointers /\ RingsIn(NodeInit(m, x), L \cup {x})
<1>1. NodeInit(m, x) \in Pointers
  BY DEF NodeInit, Pointers
<1>2. \A n \in Nodes :
         /\ NodeInit(m, x).next[n] = IF n = x THEN x ELSE m.next[n]
         /\ NodeInit(m, x).prev[n] = IF n = x THEN x ELSE m.prev[n]
  BY DEF NodeInit, Pointers
<1>3. RingsIn(NodeInit(m, x), L \cup {x})
  BY <1>2 DEF RingsIn
<1> QED
  BY <1>1, <1>3

\* __list_add puts a node that is on no list between two neighbours.
LEMMA LinkInserts ==
  ASSUME NEW m \in Pointers, NEW L \in SUBSET Nodes, RingsIn(m, L),
         NEW x \in Nodes \ L, NEW p \in L
  PROVE  /\ Link(m, x, p, m.next[p]) \in Pointers
         /\ RingsIn(Link(m, x, p, m.next[p]), L \cup {x})
<1> DEFINE r == Link(m, x, p, m.next[p])
<1>1. m.next[p] \in L
  BY DEF RingsIn
<1>2. r \in Pointers
  BY <1>1 DEF Link, Pointers
<1>3. \A n \in Nodes :
         /\ r.next[n] = IF n = x THEN m.next[p] ELSE IF n = p THEN x ELSE m.next[n]
         /\ r.prev[n] = IF n = x THEN p ELSE IF n = m.next[p] THEN x ELSE m.prev[n]
  BY <1>1 DEF Link, Pointers
<1>4. RingsIn(r, L \cup {x})
  BY <1>1, <1>3 DEF RingsIn
<1> QED
  BY <1>2, <1>4

\* list_add and list_add_tail are __list_add on the two sides of a node.
LEMMA AddInserts ==
  ASSUME NEW m \in Pointers, NEW L \in SUBSET Nodes, RingsIn(m, L),
         NEW x \in Nodes \ L, NEW node \in L
  PROVE  /\ Add(m, x, node) \in Pointers
         /\ RingsIn(Add(m, x, node), L \cup {x})
         /\ AddTail(m, x, node) \in Pointers
         /\ RingsIn(AddTail(m, x, node), L \cup {x})
<1>1. m.prev[node] \in L /\ m.next[m.prev[node]] = node
  BY DEF RingsIn
<1>2. Add(m, x, node) \in Pointers /\ RingsIn(Add(m, x, node), L \cup {x})
  BY LinkInserts DEF Add
<1>3. Link(m, x, m.prev[node], m.next[m.prev[node]]) = AddTail(m, x, node)
  BY <1>1 DEF AddTail
<1>4. AddTail(m, x, node) \in Pointers /\ RingsIn(AddTail(m, x, node), L \cup {x})
  BY <1>1, <1>3, LinkInserts
<1> QED
  BY <1>2, <1>4

\* list_rm takes a node off its list and joins its neighbours.
LEMMA RmTakesOut ==
  ASSUME NEW m \in Pointers, NEW L \in SUBSET Nodes, RingsIn(m, L), NEW x \in L
  PROVE  Rm(m, x) \in Pointers /\ RingsIn(Rm(m, x), L \ {x})
<1>1. m.next[x] \in L /\ m.prev[x] \in L
  BY DEF RingsIn
<1>2. Rm(m, x) \in Pointers
  BY <1>1 DEF Rm, Unlink, Pointers
<1>3. \A n \in Nodes :
         /\ Rm(m, x).next[n] = IF n = m.prev[x] THEN m.next[x] ELSE m.next[n]
         /\ Rm(m, x).prev[n] = IF n = m.next[x] THEN m.prev[x] ELSE m.prev[n]
  BY <1>1 DEF Rm, Unlink, Pointers
<1>4. RingsIn(Rm(m, x), L \ {x})
  BY <1>1, <1>3 DEF RingsIn
<1> QED
  BY <1>2, <1>4

\* list_move and list_move_tail put a node elsewhere and lose none.
LEMMA MoveKeepsRings ==
  ASSUME NEW m \in Pointers, NEW L \in SUBSET Nodes, RingsIn(m, L),
         NEW x \in L, NEW node \in L, x # node
  PROVE  /\ Move(m, x, node) \in Pointers /\ RingsIn(Move(m, x, node), L)
         /\ MoveTail(m, x, node) \in Pointers /\ RingsIn(MoveTail(m, x, node), L)
<1>1. Rm(m, x) \in Pointers /\ RingsIn(Rm(m, x), L \ {x})
  BY RmTakesOut
<1>2. L \ {x} \in SUBSET Nodes /\ x \in Nodes \ (L \ {x}) /\ node \in L \ {x}
  OBVIOUS
<1>3. (L \ {x}) \cup {x} = L
  OBVIOUS
<1> QED
  BY <1>1, <1>2, <1>3, AddInserts DEF Move, MoveTail

\* list_replace puts a node in the place of another; a node alone on its list
\* stays on it, with the new one.
LEMMA ReplaceTakesPlace ==
  ASSUME NEW m \in Pointers, NEW L \in SUBSET Nodes, RingsIn(m, L),
         NEW old \in L, NEW x \in Nodes \ L
  PROVE  /\ Replace(m, old, x) \in Pointers
         /\ RingsIn(Replace(m, old, x),
                    (IF m.next[old] = old THEN L ELSE L \ {old}) \cup {x})
<1> DEFINE r == Replace(m, old, x)
<1>1. m.next[old] \in L /\ m.prev[old] \in L
  BY DEF RingsIn
<1>2. r.next = [m.next EXCEPT ![x] = m.next[old], ![m.prev[old]] = x]
  BY DEF Replace
<1>3. \A n \in Nodes : r.next[n] = IF n = m.prev[old] THEN x
                                   ELSE IF n = x THEN m.next[old] ELSE m.next[n]
  BY <1>1, <1>2 DEF Pointers
<1>4. r.next[x] = m.next[old]
  BY <1>1, <1>3
<1>5. r.prev = [m.prev EXCEPT ![x] = m.prev[old], ![m.next[old]] = x]
  BY <1>2, <1>4 DEF Replace
<1>6. \A n \in Nodes : r.prev[n] = IF n = m.next[old] THEN x
                                   ELSE IF n = x THEN m.prev[old] ELSE m.prev[n]
  BY <1>1, <1>5 DEF Pointers
<1>7. r \in Pointers
  <2>1. r = [next |-> r.next, prev |-> r.prev]
    BY DEF Replace
  <2>2. r.next \in [Nodes -> Nodes \cup {NULL}]
    BY <1>1, <1>2 DEF Pointers
  <2>3. r.prev \in [Nodes -> Nodes \cup {NULL}]
    BY <1>1, <1>5 DEF Pointers
  <2> QED
    BY <2>1, <2>2, <2>3 DEF Pointers
<1>8. CASE m.next[old] = old
  <2>1. m.prev[old] = old
    BY <1>8 DEF RingsIn
  <2> QED
    BY <1>3, <1>6, <1>7, <1>8, <2>1 DEF RingsIn
<1>9. CASE m.next[old] # old
  <2>1. m.prev[old] # old
    BY <1>9 DEF RingsIn
  <2> QED
    BY <1>1, <1>3, <1>6, <1>7, <1>9, <2>1 DEF RingsIn
<1> QED
  BY <1>8, <1>9

\* list_swap keeps every node on a list when the second node is not the one
\* just before the first.
LEMMA SwapKeepsRings ==
  ASSUME NEW m \in Pointers, NEW L \in SUBSET Nodes, RingsIn(m, L),
         NEW a \in L, NEW b \in L, m.next[a] # a, m.next[b] # b, m.prev[a] # b
  PROVE  Swap(m, a, b) \in Pointers /\ RingsIn(Swap(m, a, b), L)
<1>1. CASE a = b
  BY <1>1 DEF Swap
<1>2. CASE a # b
  <2> DEFINE off == Rm(m, a)
             in  == Replace(off, b, a)
  <2>1. off \in Pointers /\ RingsIn(off, L \ {a})
    BY RmTakesOut
  <2>2. L \ {a} \in SUBSET Nodes /\ b \in L \ {a} /\ a \in Nodes \ (L \ {a})
    BY <1>2
  <2>3. off.next[b] # b
    BY DEF Rm, Unlink, Pointers
  <2>4. in \in Pointers /\ RingsIn(in, ((L \ {a}) \ {b}) \cup {a})
    BY <2>1, <2>2, <2>3, ReplaceTakesPlace
  <2>5. ((L \ {a}) \ {b}) \cup {a} = L \ {b}
    BY <1>2
  <2>6. m.prev[a] \in L \ {b}
    BY DEF RingsIn
  <2>7. Add(in, b, m.prev[a]) \in Pointers
        /\ RingsIn(Add(in, b, m.prev[a]), (L \ {b}) \cup {b})
    BY <2>4, <2>5, <2>6, AddInserts
  <2>8. (L \ {b}) \cup {b} = L
    OBVIOUS
  <2> QED
    BY <1>2, <2>7, <2>8 DEF Swap
<1> QED
  BY <1>1, <1>2

-----------------------------------------------------------------------------
IInv == TypeOK /\ DoublyLinked

LEMMA IInvIsRingsIn ==
  IInv <=> ptr \in Pointers /\ linked \in SUBSET Nodes /\ RingsIn(ptr, linked)
BY DEF IInv, TypeOK, DoublyLinked, RingsIn

LEMMA InitIInv == Init => IInv
BY DEF Init, IInv, TypeOK, DoublyLinked, Pointers

\* Every call keeps the lists whole when no caller swaps a node with the one
\* just before it.
LEMMA NextIInv == ~SwapPredecessor /\ IInv /\ [Next]_vars => IInv'
<1> SUFFICES ASSUME ~SwapPredecessor, IInv, [Next]_vars
             PROVE  ptr' \in Pointers /\ linked' \in SUBSET Nodes
                    /\ RingsIn(ptr', linked')
  BY DEF IInv, TypeOK, DoublyLinked, RingsIn
<1>1. ptr \in Pointers /\ linked \in SUBSET Nodes /\ RingsIn(ptr, linked)
  BY IInvIsRingsIn
<1>2. ASSUME NEW x \in Nodes, InitNode(x)
      PROVE  ptr' \in Pointers /\ linked' \in SUBSET Nodes /\ RingsIn(ptr', linked')
  BY <1>1, <1>2, NodeInitMakesRing DEF InitNode, IsEmpty
<1>3. ASSUME NEW x \in Nodes, RmItem(x)
      PROVE  ptr' \in Pointers /\ linked' \in SUBSET Nodes /\ RingsIn(ptr', linked')
  BY <1>1, <1>3, RmTakesOut DEF RmItem
<1>4. ASSUME NEW x \in Nodes, NEW y \in Nodes, AddItem(x, y) \/ AddItemTail(x, y)
      PROVE  ptr' \in Pointers /\ linked' \in SUBSET Nodes /\ RingsIn(ptr', linked')
  BY <1>1, <1>4, AddInserts DEF AddItem, AddItemTail
<1>5. ASSUME NEW x \in Nodes, NEW y \in Nodes, MoveItem(x, y) \/ MoveItemTail(x, y)
      PROVE  ptr' \in Pointers /\ linked' \in SUBSET Nodes /\ RingsIn(ptr', linked')
  BY <1>1, <1>5, MoveKeepsRings DEF MoveItem, MoveItemTail
<1>6. ASSUME NEW x \in Nodes, NEW y \in Nodes, ReplaceItem(x, y)
      PROVE  ptr' \in Pointers /\ linked' \in SUBSET Nodes /\ RingsIn(ptr', linked')
  BY <1>1, <1>6, ReplaceTakesPlace DEF ReplaceItem, IsEmpty
<1>7. ASSUME NEW x \in Nodes, NEW y \in Nodes, SwapItems(x, y)
      PROVE  ptr' \in Pointers /\ linked' \in SUBSET Nodes /\ RingsIn(ptr', linked')
  <2>1. x \in linked /\ y \in linked /\ ptr.next[x] # x /\ ptr.next[y] # y
        /\ ptr.prev[x] # y
    BY <1>7 DEF SwapItems, IsEmpty
  <2>2. Swap(ptr, x, y) \in Pointers /\ RingsIn(Swap(ptr, x, y), linked)
    BY <1>1, <2>1, SwapKeepsRings
  <2> QED
    BY <1>1, <1>7, <2>2 DEF SwapItems
<1>8. CASE UNCHANGED vars
  BY <1>1, <1>8 DEF vars
<1> QED
  BY <1>2, <1>3, <1>4, <1>5, <1>6, <1>7, <1>8 DEF Next

\* However list.h is called, short of swapping a node with its predecessor, the
\* next and prev pointers of the nodes on lists stay inverse to each other.
THEOREM ListsStayWhole == ~SwapPredecessor /\ Spec => [](TypeOK /\ DoublyLinked)
<1>1. IInv => TypeOK /\ DoublyLinked
  BY DEF IInv
<1>2. CASE ~SwapPredecessor
  <2>1. IInv /\ [Next]_vars => IInv'
    BY <1>2, NextIInv
  <2> QED
    BY <1>1, <2>1, InitIInv, PTL DEF Spec
<1> QED
  BY <1>2

-----------------------------------------------------------------------------
(* Sequences and rings.                                                    *)

\* The place behind place i of a ring of k nodes.
Succ(i, k) == IF i < k THEN i + 1 ELSE 1

Members(s) == {s[i] : i \in 1..Len(s)}

\* The nodes of s form a ring of the pointers `next', in that order.
IsRing(next, s) ==
  /\ s \in Seq(Nodes) /\ Len(s) >= 1
  /\ \A i, j \in 1..Len(s) : s[i] = s[j] => i = j
  /\ \A i \in 1..Len(s) : next[s[i]] = s[Succ(i, Len(s))]

\* The pointers lead the nodes of L, and only to them, around the rings r.
Arranged(next, L, r) ==
  /\ r \in [Nodes -> Seq(Nodes)]
  /\ \A n \in Nodes \ L : r[n] = <<>>
  /\ \A n \in L : IsRing(next, r[n]) /\ r[n][1] = n /\ Members(r[n]) \subseteq L

LEMMA SameSeq ==
  ASSUME NEW S, NEW a \in Seq(S), NEW b \in Seq(S), Len(a) = Len(b),
         \A i \in 1..Len(a) : a[i] = b[i]
  PROVE  a = b
OBVIOUS

LEMMA ConcatIs ==
  ASSUME NEW S, NEW a \in Seq(S), NEW b \in Seq(S)
  PROVE  /\ a \o b \in Seq(S) /\ Len(a \o b) = Len(a) + Len(b)
         /\ \A i \in 1..Len(a) + Len(b) :
              (a \o b)[i] = IF i <= Len(a) THEN a[i] ELSE b[i - Len(a)]
OBVIOUS

LEMMA SubSeqIs ==
  ASSUME NEW S, NEW s \in Seq(S), NEW i \in 1..Len(s) + 1, NEW j \in i - 1..Len(s)
  PROVE  /\ SubSeq(s, i, j) \in Seq(S) /\ Len(SubSeq(s, i, j)) = j - i + 1
         /\ \A k \in 1..j - i + 1 : SubSeq(s, i, j)[k] = s[i + k - 1]
OBVIOUS

\* A sequence read from its member at place k on.
LEMMA FromIs ==
  ASSUME NEW s \in Seq(Nodes), \A i, j \in 1..Len(s) : s[i] = s[j] => i = j,
         NEW k \in 1..Len(s)
  PROVE  /\ Rings!From(s, s[k]) \in Seq(Nodes) /\ Len(Rings!From(s, s[k])) = Len(s)
         /\ \A i \in 1..Len(s) :
              Rings!From(s, s[k])[i] = s[IF i + k - 1 <= Len(s) THEN i + k - 1
                                         ELSE i + k - 1 - Len(s)]
<1> DEFINE a == SubSeq(s, k, Len(s))
           b == SubSeq(s, 1, k - 1)
<1>1. (CHOOSE i \in DOMAIN s : s[i] = s[k]) = k
  OBVIOUS
<1>2. Rings!From(s, s[k]) = a \o b
  BY <1>1 DEF Rings!From
<1>3. /\ a \in Seq(Nodes) /\ Len(a) = Len(s) - k + 1
      /\ \A i \in 1..Len(s) - k + 1 : a[i] = s[k + i - 1]
  BY SubSeqIs, k \in 1..Len(s) + 1, Len(s) \in k - 1..Len(s)
<1>4. /\ b \in Seq(Nodes) /\ Len(b) = k - 1
      /\ \A i \in 1..k - 1 : b[i] = s[i]
  BY SubSeqIs, 1 \in 1..Len(s) + 1, k - 1 \in 0..Len(s)
<1> HIDE DEF a, b
<1>5. /\ a \o b \in Seq(Nodes) /\ Len(a \o b) = Len(a) + Len(b)
      /\ \A i \in 1..Len(a) + Len(b) :
           (a \o b)[i] = IF i <= Len(a) THEN a[i] ELSE b[i - Len(a)]
  BY <1>3, <1>4, ConcatIs
<1>6. Len(a) + Len(b) = Len(s)
  BY <1>3, <1>4
<1>7. ASSUME NEW i \in 1..Len(s)
      PROVE  (a \o b)[i] = s[IF i + k - 1 <= Len(s) THEN i + k - 1
                             ELSE i + k - 1 - Len(s)]
  <2>0. i \in 1..Len(a) + Len(b)
    BY <1>6
  <2>1. CASE i <= Len(a)
    <3>1. i \in 1..Len(s) - k + 1 /\ k + i - 1 = i + k - 1 /\ i + k - 1 <= Len(s)
      BY <2>1, <1>3
    <3>2. (a \o b)[i] = a[i]
      BY <2>0, <2>1, <1>5
    <3>3. a[i] = s[i + k - 1]
      BY <3>1, <1>3
    <3> QED
      BY <3>1, <3>2, <3>3
  <2>2. CASE i > Len(a)
    <3>1. /\ i - Len(a) \in 1..k - 1 /\ i - Len(a) = i + k - 1 - Len(s)
          /\ ~(i + k - 1 <= Len(s)) /\ ~(i <= Len(a))
      BY <2>2, <1>3, <1>4
    <3>2. (a \o b)[i] = b[i - Len(a)]
      BY <2>0, <3>1, <1>5
    <3>3. b[i - Len(a)] = s[i - Len(a)]
      BY <3>1, <1>4
    <3> QED
      BY <3>1, <3>2, <3>3
  <2>3. i <= Len(a) \/ i > Len(a)
    BY <1>3
  <2> QED
    BY <2>1, <2>2, <2>3
<1> QED
  BY <1>2, <1>5, <1>6, <1>7

\* A ring may be read from any of its nodes.
LEMMA RingTurns ==
  ASSUME NEW next, NEW s, IsRing(next, s), NEW n \in Members(s)
  PROVE  /\ IsRing(next, Rings!From(s, n)) /\ Rings!From(s, n)[1] = n
         /\ Members(Rings!From(s, n)) = Members(s)
         /\ Len(Rings!From(s, n)) = Len(s)
<1> DEFINE u == Rings!From(s, n)
<1>1. s \in Seq(Nodes) /\ (\A i, j \in 1..Len(s) : s[i] = s[j] => i = j)
      /\ Len(s) \in Nat
  BY DEF IsRing
<1>2. PICK k \in 1..Len(s) : s[k] = n
  BY DEF Members
<1> DEFINE Turn(i) == IF i + k - 1 <= Len(s) THEN i + k - 1 ELSE i + k - 1 - Len(s)
<1>3. /\ u \in Seq(Nodes) /\ Len(u) = Len(s)
      /\ \A i \in 1..Len(s) : u[i] = s[Turn(i)]
  BY <1>1, <1>2, FromIs
<1>4. \A i \in 1..Len(s) : Turn(i) \in 1..Len(s)
  BY <1>1
<1>5. \A i, j \in 1..Len(s) : Turn(i) = Turn(j) => i = j
  BY <1>1
<1>6. \A i \in 1..Len(s) : Turn(Succ(i, Len(s))) = Succ(Turn(i), Len(s))
                           /\ Succ(i, Len(s)) \in 1..Len(s)
  BY <1>1 DEF Succ
<1>7. \A j \in 1..Len(s) : \E i \in 1..Len(s) : Turn(i) = j
  <2> TAKE j \in 1..Len(s)
  <2> DEFINE i == IF j >= k THEN j - k + 1 ELSE j - k + 1 + Len(s)
  <2>1. i \in 1..Len(s) /\ Turn(i) = j
    BY <1>1
  <2> QED
    BY <2>1
<1>8. Turn(1) = k
  BY <1>1
<1> HIDE DEF Turn, u
<1>9. \A i, j \in 1..Len(u) : u[i] = u[j] => i = j
  BY <1>1, <1>3, <1>4, <1>5
<1>10. \A i \in 1..Len(u) : next[u[i]] = u[Succ(i, Len(u))]
  <2> TAKE i \in 1..Len(u)
  <2>1. i \in 1..Len(s) /\ Succ(i, Len(s)) \in 1..Len(s) /\ Turn(i) \in 1..Len(s)
    BY <1>3, <1>4, <1>6
  <2>2. next[s[Turn(i)]] = s[Succ(Turn(i), Len(s))]
    BY <2>1 DEF IsRing
  <2>3. u[Succ(i, Len(s))] = s[Turn(Succ(i, Len(s)))]
    BY <2>1, <1>3
  <2> QED
    BY <2>1, <2>2, <2>3, <1>3, <1>6
<1>11. Members(u) = Members(s)
  <2>1. ASSUME NEW i \in 1..Len(s) PROVE u[i] \in Members(s)
    BY <1>3, <1>4 DEF Members
  <2>2. ASSUME NEW j \in 1..Len(s) PROVE s[j] \in Members(u)
    BY <1>3, <1>7 DEF Members
  <2> QED
    BY <2>1, <2>2, <1>3 DEF Members
<1>12. u[1] = n
  BY <1>2, <1>3, <1>8
<1>13. IsRing(next, u)
  BY <1>3, <1>9, <1>10 DEF IsRing
<1> QED
  BY <1>3, <1>11, <1>12, <1>13 DEF u

-----------------------------------------------------------------------------
(* A walk from a node of a ring finds the ring.                            *)

\* A set of natural numbers that is not empty has a least member.
LEMMA LeastNatural ==
  ASSUME NEW T \in SUBSET Nat, T # {}
  PROVE  \E x \in T : \A y \in T : x <= y
<1> DEFINE R == {ss \in Nat \X Nat : ss[1] < ss[2]}
<1>1. OpToRel(<, Nat) = R
  BY DEF OpToRel
<1>2. IsWellFoundedOn(R, Nat)
  BY <1>1, NatLessThanWellFounded
<1>3. \A x, y \in Nat : y < x => <<y, x>> \in R
  OBVIOUS
<1>4. PICK x \in T : \A y \in T : <<y, x>> \notin R
  <2> HIDE DEF R
  <2> QED
    BY <1>2, WFMin
<1> HIDE DEF R
<1>5. \A y \in T : ~(y < x)
  BY <1>3, <1>4
<1> QED
  BY <1>5

\* What the recursion of a walk comes down to.
IsMet(at, next, n) ==
  at = [i \in 1..Cardinality(Nodes) + 1 |->
          IF i = 1 THEN n ELSE IF at[i - 1] = NULL THEN NULL ELSE next[at[i - 1]]]

LEMMA MetIs ==
  ASSUME NEW next, NEW n, NEW w, IsMet(w, next, n)
  PROVE  IsMet(Met(next, n), next, n)
BY DEF Met, IsMet

\* How division goes on from one number to the next.
LEMMA ModNext ==
  ASSUME NEW k \in Nat, k >= 1, NEW j \in Nat
  PROVE  /\ (j % k) \in 0..k - 1
         /\ ((j + 1) % k) = IF (j % k) = k - 1 THEN 0 ELSE (j % k) + 1
<1>1. (j % k) \in 0..k - 1 /\ j = k * (j \div k) + (j % k)
  OBVIOUS
<1>2. ((j + 1) % k) \in 0..k - 1 /\ j + 1 = k * ((j + 1) \div k) + ((j + 1) % k)
  OBVIOUS
<1> DEFINE r == (j % k)
           q == j \div k
           t == ((j + 1) % k)
           p == (j + 1) \div k
<1>3. r \in 0..k-1 /\ t \in 0..k-1 /\ p \in Int /\ q \in Int
  BY <1>1, <1>2
<1>4. j = k * q + r /\ j + 1 = k * p + t
  BY <1>1, <1>2
<1> HIDE DEF r, q, t, p
<1>5. k * (p - q) = r + 1 - t
  BY <1>3, <1>4
<1>6. CASE p - q >= 2
  <2>1. k * (p - q) >= k * 2
    BY <1>6, <1>3
  <2> QED
    BY <2>1, <1>3, <1>5
<1>7. CASE p - q <= -1
  <2>1. k * (p - q) <= k * (-1)
    BY <1>7, <1>3
  <2> QED
    BY <2>1, <1>3, <1>5
<1>8. CASE p - q = 0
  BY <1>8, <1>3, <1>5 DEF r, t
<1>9. CASE p - q = 1
  BY <1>9, <1>3, <1>5 DEF r, t
<1> QED
  BY <1>6, <1>7, <1>8, <1>9, <1>3

\* A ring has no more nodes than there are.
LEMMA RingFits ==
  ASSUME NEW next, NEW s, IsRing(next, s)
  PROVE  Len(s) \in 1..Cardinality(Nodes) /\ Cardinality(Nodes) \in Nat
<1>1. s \in Seq(Nodes) /\ Len(s) \in Nat /\ Len(s) >= 1
      /\ \A i, j \in 1..Len(s) : s[i] = s[j] => i = j
  BY DEF IsRing
<1>2. Cardinality(Nodes) \in Nat
  BY NodesFinite, FS_CardinalityType
<1>3. s \in Injection(1..Len(s), Nodes)
  BY <1>1 DEF Injection, IsInjective
<1>4. IsFiniteSet(1..Len(s)) /\ Cardinality(1..Len(s)) = Len(s)
  BY <1>1, FS_Interval
<1>5. Cardinality(1..Len(s)) <= Cardinality(Nodes)
  BY <1>3, NodesFinite, FS_Injection
<1> QED
  BY <1>1, <1>2, <1>4, <1>5

\* The walk from the first node of a ring is that ring.
LEMMA WalkFindsRing ==
  ASSUME NEW next, NEW s, IsRing(next, s)
  PROVE  WalkIn(next, s[1]) = s
<1> DEFINE N == Cardinality(Nodes)
           len == Len(s)
           n == s[1]
           at == Met(next, n)
           w == [i \in 1..N + 1 |-> s[((i - 1) % len) + 1]]
<1>1. s \in Seq(Nodes) /\ len \in 1..N /\ N \in Nat /\ len \in Nat
  <2>1. s \in Seq(Nodes)
    BY DEF IsRing
  <2>2. len \in 1..N /\ N \in Nat
    BY RingFits
  <2> QED
    BY <2>1, <2>2
<1>2. (\A i \in 1..len : s[i] \in Nodes /\ s[i] # NULL)
      /\ (\A i, j \in 1..len : s[i] = s[j] => i = j)
  BY <1>1, NullIsNoNode DEF IsRing
<1>3. \A i \in 1..len : next[s[i]] = s[IF i = len THEN 1 ELSE i + 1]
  BY DEF IsRing, Succ
<1>4. IsMet(w, next, n)
  <2> SUFFICES ASSUME NEW i \in 1..N + 1
               PROVE  s[((i - 1) % len) + 1]
                        = IF i = 1 THEN n
                          ELSE IF w[i - 1] = NULL THEN NULL ELSE next[w[i - 1]]
    BY DEF IsMet
  <2>1. CASE i = 1
    <3>1. ((i - 1) % len) + 1 = 1
      BY <2>1, <1>1
    <3> QED
      BY <2>1, <3>1
  <2>2. CASE i # 1
    <3> DEFINE r == ((i - 2) % len)
    <3>1. i - 2 \in Nat /\ i - 1 \in 1..N + 1 /\ (i - 2) + 1 = i - 1
      BY <2>2, <1>1
    <3>2. r \in 0..len - 1 /\ ((i - 1) % len) = IF r = len - 1 THEN 0 ELSE r + 1
      <4>1. len \in Nat /\ len >= 1 /\ i - 2 \in Nat
        BY <3>1, <1>1
      <4> HIDE DEF len
      <4>2. ((i - 2) % len) \in 0..len - 1
            /\ (((i - 2) + 1) % len) = IF ((i - 2) % len) = len - 1 THEN 0
                                        ELSE ((i - 2) % len) + 1
        BY <4>1, ModNext
      <4> QED
        BY <4>2, <3>1
    <3>3. w[i - 1] = s[r + 1]
      BY <3>1
    <3> HIDE DEF r, w
    <3>4. r + 1 \in 1..len
      BY <3>2, <1>1
    <3>5. next[w[i - 1]] = s[IF r + 1 = len THEN 1 ELSE (r + 1) + 1] /\ w[i - 1] # NULL
      BY <3>3, <3>4, <1>2, <1>3
    <3>6. ((i - 1) % len) + 1 = IF r + 1 = len THEN 1 ELSE (r + 1) + 1
      BY <3>2, <1>1
    <3> QED
      BY <2>2, <3>5, <3>6
  <2> QED
    BY <2>1, <2>2
<1>5. IsMet(at, next, n)
  BY <1>4, MetIs
<1>6. \A i \in 1..N + 1 :
        at[i] = IF i = 1 THEN n ELSE IF at[i - 1] = NULL THEN NULL ELSE next[at[i - 1]]
  BY <1>5 DEF IsMet
<1> HIDE DEF at, n
<1>7. \A i \in 1..len : at[i] = s[i]
  <2> DEFINE Bad == {i \in 1..len : at[i] # s[i]}
  <2>1. SUFFICES ASSUME Bad # {} PROVE FALSE
    OBVIOUS
  <2>2. PICK i \in Bad : \A j \in Bad : i <= j
    <3>1. Bad \in SUBSET Nat
      BY <1>1
    <3> QED
      BY <2>1, <3>1, LeastNatural
  <2>3. i \in 1..len /\ at[i] # s[i] /\ i \in 1..N + 1
    BY <2>2, <1>1
  <2>4. i # 1
    BY <2>3, <1>6, <1>1 DEF n
  <2>5. i - 1 \in 1..len /\ i - 1 \notin Bad /\ i - 1 # len /\ (i - 1) + 1 = i
    BY <2>2, <2>3, <2>4, <1>1
  <2>6. at[i - 1] = s[i - 1]
    BY <2>5
  <2>7. at[i] = next[s[i - 1]]
    BY <2>3, <2>4, <2>5, <2>6, <1>2, <1>6
  <2>8. next[s[i - 1]] = s[(i - 1) + 1]
    BY <2>5, <1>3
  <2> QED
    BY <2>3, <2>5, <2>7, <2>8
<1>8. at[len + 1] = n
  <2>1. len + 1 \in 1..N + 1 /\ len + 1 # 1 /\ (len + 1) - 1 = len /\ len \in 1..len
    BY <1>1
  <2>2. at[len + 1] = next[s[len]]
    BY <2>1, <1>2, <1>6, <1>7
  <2> QED
    BY <2>1, <2>2, <1>3 DEF n
<1> DEFINE returns == {i \in 1..N : at[i + 1] = n}
<1>9. len \in returns
  BY <1>1, <1>8
<1>10. \A j \in returns : len <= j
  <2> SUFFICES ASSUME NEW j \in 1..N, at[j + 1] = n, j < len
               PROVE  FALSE
    BY <1>1
  <2>1. j + 1 \in 1..len /\ 1 \in 1..len /\ j + 1 # 1
    BY <1>1
  <2> QED
    BY <2>1, <1>2, <1>7 DEF n
<1>11. (CHOOSE i \in returns : \A j \in returns : i <= j) = len
  <2>1. \A i \in returns : i \in Nat
    BY <1>1
  <2> HIDE DEF returns
  <2>2. \A i \in returns : (\A j \in returns : i <= j) => i = len
    BY <2>1, <1>1, <1>9, <1>10
  <2> QED
    BY <2>2, <1>9, <1>10
<1>12. WalkIn(next, n) = [i \in 1..len |-> at[i]]
  BY <1>9, <1>11 DEF WalkIn, at
<1>13. WalkIn(next, n) = [i \in 1..len |-> s[i]]
  BY <1>7, <1>12
<1> QED
  BY <1>1, <1>13 DEF n

-----------------------------------------------------------------------------
(* Arrangements of nodes in rings.                                         *)

LEMMA MembersAre ==
  ASSUME NEW s \in Seq(Nodes)
  PROVE  Rings!ToSet(s) = Members(s)
BY DEF Rings!ToSet, Members

\* A ring is not empty, and its first node is a member.
LEMMA RingFacts ==
  ASSUME NEW next, NEW s, IsRing(next, s)
  PROVE  /\ s \in Seq(Nodes) /\ Len(s) \in Nat /\ Len(s) >= 1
         /\ Members(s) \subseteq Nodes /\ s[1] \in Members(s)
         /\ \A i, j \in 1..Len(s) : s[i] = s[j] => i = j
         /\ \A i \in 1..Len(s) : /\ Succ(i, Len(s)) \in 1..Len(s)
                                 /\ next[s[i]] = s[Succ(i, Len(s))]
BY DEF IsRing, Members, Succ

\* Two rings of the same pointers have all their nodes in common or none.
LEMMA RingsMeet ==
  ASSUME NEW next, NEW s, IsRing(next, s), NEW u, IsRing(next, u),
         NEW e \in Members(s) \cap Members(u)
  PROVE  Members(s) = Members(u)
<1>1. WalkIn(next, Rings!From(s, e)[1]) = Rings!From(s, e)
  BY RingTurns, WalkFindsRing
<1>2. WalkIn(next, Rings!From(u, e)[1]) = Rings!From(u, e)
  BY RingTurns, WalkFindsRing
<1>3. Rings!From(s, e)[1] = e /\ Rings!From(u, e)[1] = e
  BY RingTurns
<1>4. Rings!From(s, e) = Rings!From(u, e)
  BY <1>1, <1>2, <1>3
<1>5. Members(Rings!From(s, e)) = Members(s) /\ Members(Rings!From(u, e)) = Members(u)
  BY RingTurns
<1> QED
  BY <1>4, <1>5

\* What a node's ring is, in an arrangement.
LEMMA ArrangedFacts ==
  ASSUME NEW next, NEW L \in SUBSET Nodes, NEW r, Arranged(next, L, r), NEW n \in L
  PROVE  /\ IsRing(next, r[n]) /\ r[n][1] = n /\ n \in Members(r[n])
         /\ Members(r[n]) \subseteq L
<1>1. IsRing(next, r[n]) /\ r[n][1] = n /\ Members(r[n]) \subseteq L
  BY DEF Arranged
<1>2. r[n][1] \in Members(r[n])
  BY <1>1, RingFacts
<1> QED
  BY <1>1, <1>2

\* There is one arrangement, and the walks find it.
LEMMA WalksFindArrangement ==
  ASSUME NEW next, NEW L \in SUBSET Nodes, NEW r, Arranged(next, L, r)
  PROVE  RingsOf(next, L) = r
<1>1. \A n \in L : WalkIn(next, n) = r[n]
  <2> TAKE n \in L
  <2>1. IsRing(next, r[n]) /\ r[n][1] = n
    BY ArrangedFacts
  <2>2. WalkIn(next, r[n][1]) = r[n]
    BY <2>1, WalkFindsRing
  <2> QED
    BY <2>1, <2>2
<1>2. r \in [Nodes -> Seq(Nodes)] /\ \A n \in Nodes \ L : r[n] = <<>>
  BY DEF Arranged
<1>3. RingsOf(next, L) = [n \in Nodes |-> r[n]]
  BY <1>1, <1>2 DEF RingsOf
<1> QED
  BY <1>2, <1>3

\* The rings apart from that of y share no node with it.
LEMMA RingsApart ==
  ASSUME NEW next, NEW L \in SUBSET Nodes, NEW r, Arranged(next, L, r),
         NEW y \in L, NEW n \in L \ Members(r[y])
  PROVE  Members(r[n]) \subseteq L \ Members(r[y])
<1>1. IsRing(next, r[n]) /\ n \in Members(r[n]) /\ Members(r[n]) \subseteq L
      /\ IsRing(next, r[y])
  BY ArrangedFacts
<1>2. ASSUME NEW e \in Members(r[n]), e \in Members(r[y]) PROVE FALSE
  <2>1. e \in Members(r[n]) \cap Members(r[y])
    BY <1>2
  <2>2. Members(r[n]) = Members(r[y])
    BY <1>1, <2>1, RingsMeet
  <2> QED
    BY <1>1, <2>2
<1> QED
  BY <1>1, <1>2

LEMMA MoreThanOne ==
  ASSUME NEW s \in Seq(Nodes), Len(s) >= 1, Len(s) # 1
  PROVE  Len(s) >= 2
<1> DEFINE k == Len(s)
<1>1. k \in Nat /\ k >= 1 /\ k # 1
  OBVIOUS
<1> HIDE DEF k
<1>2. k >= 2
  BY <1>1
<1> QED
  BY <1>2 DEF k

\* A node is alone exactly when its next pointer leads to itself.
LEMMA AloneIs ==
  ASSUME NEW next, NEW L \in SUBSET Nodes, NEW r, Arranged(next, L, r), NEW n \in L
  PROVE  /\ r[n] = <<n>> <=> next[n] = n
         /\ Len(r[n]) = 1 <=> next[n] = n
<1>1. IsRing(next, r[n]) /\ r[n][1] = n
  BY ArrangedFacts
<1> DEFINE s == r[n]
<1>2. s \in Seq(Nodes) /\ Len(s) \in Nat /\ Len(s) >= 1 /\ s[1] = n
      /\ (\A i, j \in 1..Len(s) : s[i] = s[j] => i = j)
      /\ \A i \in 1..Len(s) : next[s[i]] = s[Succ(i, Len(s))]
  BY <1>1, RingFacts
<1> HIDE DEF s
<1>3. Len(s) = 1 => next[n] = n
  BY <1>2 DEF Succ
<1>4. ASSUME Len(s) # 1 PROVE next[n] # n
  <2>0. s \in Seq(Nodes) /\ Len(s) >= 2
    BY <1>2, <1>4, MoreThanOne
  <2>1. 1 \in 1..Len(s) /\ 2 \in 1..Len(s)
    BY <2>0
  <2>2. Succ(1, Len(s)) = 2
    BY <2>0 DEF Succ
  <2>3. next[s[1]] = s[2]
    BY <2>1, <2>2, <1>2
  <2> QED
    BY <2>1, <2>3, <1>2
<1>5. Len(s) = 1 <=> s = <<n>>
  <2>1. ASSUME Len(s) = 1 PROVE s = <<n>>
    BY <1>2, <2>1
  <2>2. s = <<n>> => Len(s) = 1
    OBVIOUS
  <2> QED
    BY <2>1, <2>2
<1> QED
  BY <1>3, <1>4, <1>5 DEF s

\* The rings of the nodes of K, which share no node with others, stay as they are.
Untouched(next, other, r, K) ==
  \A n \in K : Members(r[n]) \subseteq K /\ other[n] = next[n]

\* The rings of K with a new ring t.
WithRing(r, K, t) ==
  [n \in Nodes |-> IF n \in Members(t) THEN Rings!From(t, n)
                   ELSE IF n \in K THEN r[n] ELSE <<>>]

\* One ring is rebuilt, from its nodes and nodes that were on no list, and the
\* others are left as they are.
LEMMA OneRingChanges ==
  ASSUME NEW next, NEW L \in SUBSET Nodes, NEW r, Arranged(next, L, r),
         NEW other, NEW K \in SUBSET L,
         Untouched(next, other, r, K),
         NEW t, IsRing(other, t), Members(t) \cap K = {}
  PROVE  Arranged(other, K \cup Members(t), WithRing(r, K, t))
<1> DEFINE R == WithRing(r, K, t)
           M == K \cup Members(t)
<1>1. Members(t) \subseteq Nodes
  BY RingFacts
<1>2. \A n \in Members(t) : /\ IsRing(other, Rings!From(t, n)) /\ Rings!From(t, n)[1] = n
                            /\ Members(Rings!From(t, n)) = Members(t)
  BY RingTurns
<1>3. ASSUME NEW n \in K
      PROVE  IsRing(other, r[n]) /\ r[n][1] = n /\ Members(r[n]) \subseteq K
  <2>1. IsRing(next, r[n]) /\ r[n][1] = n /\ Members(r[n]) \subseteq K
    BY ArrangedFacts DEF Untouched
  <2>2. \A i \in 1..Len(r[n]) : other[r[n][i]] = next[r[n][i]]
    BY <2>1 DEF Members, Untouched
  <2>3. IsRing(other, r[n])
    BY <2>1, <2>2 DEF IsRing
  <2> QED
    BY <2>1, <2>3
<1>4. ASSUME NEW n \in M
      PROVE  IsRing(other, R[n]) /\ R[n][1] = n /\ Members(R[n]) \subseteq M
  <2>1. CASE n \in Members(t)
    <3>1. R[n] = Rings!From(t, n)
      BY <2>1, <1>1 DEF WithRing
    <3> QED
      BY <2>1, <3>1, <1>2
  <2>2. CASE n \in K /\ n \notin Members(t)
    <3>1. R[n] = r[n]
      BY <2>2 DEF WithRing
    <3> QED
      BY <2>2, <3>1, <1>3
  <2> QED
    BY <2>1, <2>2
<1>5. ASSUME NEW n \in Nodes \ M PROVE R[n] = <<>>
  BY <1>5 DEF WithRing
<1>6. ASSUME NEW n \in Nodes PROVE R[n] \in Seq(Nodes)
  <2>1. CASE n \in M
    <3>1. IsRing(other, R[n])
      BY <2>1, <1>4
    <3> HIDE DEF R
    <3> QED
      BY <3>1 DEF IsRing
  <2>2. CASE n \notin M
    <3>1. R[n] = <<>>
      BY <2>2, <1>5
    <3> QED
      BY <3>1
  <2> QED
    BY <2>1, <2>2
<1>7. R \in [Nodes -> Seq(Nodes)]
  BY <1>6 DEF WithRing
<1> HIDE DEF R, M
<1>8. Arranged(other, M, R)
  BY <1>4, <1>5, <1>7 DEF Arranged
<1> QED
  BY <1>8 DEF R, M

\* A node is put into the ring of y.
LEMMA RingGrows ==
  ASSUME NEW next, NEW L \in SUBSET Nodes, NEW r, Arranged(next, L, r),
         NEW y \in L, NEW x \in Nodes \ L,
         NEW other, \A n \in L \ Members(r[y]) : other[n] = next[n],
         NEW t, IsRing(other, t), Members(t) = Members(r[y]) \cup {x}
  PROVE  Arranged(other, L \cup {x}, Rings!Arrange(r, t))
<1> DEFINE K == L \ Members(r[y])
<1>1. Members(r[y]) \subseteq L
  BY ArrangedFacts
<1>2. Untouched(next, other, r, K)
  BY RingsApart DEF Untouched
<1>3. K \in SUBSET L /\ Members(t) \cap K = {}
  OBVIOUS
<1>4. Arranged(other, K \cup Members(t), WithRing(r, K, t))
  BY <1>2, <1>3, OneRingChanges
<1>5. K \cup Members(t) = L \cup {x}
  BY <1>1
<1>6. Rings!Arrange(r, t) = WithRing(r, K, t)
  <2>1. t \in Seq(Nodes)
    BY RingFacts
  <2>2. Rings!ToSet(t) = Members(t)
    BY <2>1, MembersAre
  <2>3. Rings!Arrange(r, t)
          = [n \in Nodes |-> IF n \in Members(t) THEN Rings!From(t, n) ELSE r[n]]
    BY <2>2 DEF Rings!Arrange
  <2>4. \A n \in Nodes : n \notin Members(t) => r[n] = IF n \in K THEN r[n] ELSE <<>>
    BY DEF Arranged
  <2> QED
    BY <2>3, <2>4 DEF WithRing
<1> QED
  BY <1>4, <1>5, <1>6

-----------------------------------------------------------------------------
(* What the assignments to next pointers do to an arrangement.             *)

\* list_node_init: x, on no list or alone, becomes a ring of one.
LEMMA StartsRing ==
  ASSUME NEW next, NEW L \in SUBSET Nodes, NEW r, Arranged(next, L, r),
         NEW x \in Nodes, x \in L => next[x] = x,
         NEW other, other[x] = x, \A n \in L \ {x} : other[n] = next[n]
  PROVE  Arranged(other, L \cup {x}, Rings!Arrange(r, <<x>>))
<1> DEFINE t == <<x>>
           K == L \ {x}
<1>1. t \in Seq(Nodes) /\ Len(t) = 1 /\ t[1] = x /\ Members(t) = {x}
  BY DEF Members
<1>2. IsRing(other, t)
  BY <1>1 DEF IsRing, Succ
<1>3. ASSUME NEW n \in K PROVE Members(r[n]) \subseteq K
  <2>1. CASE x \in L
    <3>1. r[x] = <<x>>
      BY <2>1, AloneIs
    <3>2. Members(r[x]) = {x}
      BY <3>1, <1>1
    <3> QED
      BY <2>1, <3>2, RingsApart
  <2>2. CASE x \notin L
    BY <2>2, ArrangedFacts
  <2> QED
    BY <2>1, <2>2
<1>4. Untouched(next, other, r, K)
  BY <1>3 DEF Untouched
<1>5. K \in SUBSET L /\ Members(t) \cap K = {}
  BY <1>1
<1> HIDE DEF t
<1>6. Arranged(other, K \cup Members(t), WithRing(r, K, t))
  BY <1>2, <1>4, <1>5, OneRingChanges
<1>7. K \cup Members(t) = L \cup {x}
  BY <1>1
<1>8. Rings!Arrange(r, t) = WithRing(r, K, t)
  <2>1. Rings!ToSet(t) = Members(t)
    BY <1>1, MembersAre
  <2>2. \A n \in Nodes : n \notin Members(t) => r[n] = IF n \in K THEN r[n] ELSE <<>>
    BY <1>1 DEF Arranged
  <2> QED
    BY <2>1, <2>2 DEF WithRing, Rings!Arrange
<1> QED
  BY <1>6, <1>7, <1>8 DEF t

\* list_add: x comes behind y in the ring of y.
LEMMA PutsBehind ==
  ASSUME NEW next, NEW L \in SUBSET Nodes, NEW r, Arranged(next, L, r),
         NEW y \in L, NEW x \in Nodes \ L,
         NEW other, other[y] = x, other[x] = next[y],
         \A n \in L \ {y} : other[n] = next[n]
  PROVE  Arranged(other, L \cup {x}, Rings!Behind(r, x, y))
<1> DEFINE s == r[y]
           t == <<y, x>> \o Tail(s)
<1>1. /\ IsRing(next, s) /\ s[1] = y /\ y \in Members(s) /\ Members(s) \subseteq L
  BY ArrangedFacts
<1>2. /\ s \in Seq(Nodes) /\ Len(s) \in Nat /\ Len(s) >= 1
      /\ \A i, j \in 1..Len(s) : s[i] = s[j] => i = j
      /\ \A i \in 1..Len(s) : /\ Succ(i, Len(s)) \in 1..Len(s)
                              /\ next[s[i]] = s[Succ(i, Len(s))]
  BY <1>1, RingFacts
<1>3. \A i \in 1..Len(s) : s[i] \in Members(s) /\ s[i] \in L /\ s[i] # x
  BY <1>1 DEF Members
<1> HIDE DEF s
<1>4. /\ t \in Seq(Nodes) /\ Len(t) = Len(s) + 1 /\ t[1] = y /\ t[2] = x
      /\ \A i \in 3..Len(s) + 1 : t[i] = s[i - 1]
  <2>1. Tail(s) \in Seq(Nodes) /\ Len(Tail(s)) = Len(s) - 1
        /\ \A i \in 1..Len(s) - 1 : Tail(s)[i] = s[i + 1]
    BY <1>2
  <2>2. <<y, x>> \in Seq(Nodes) /\ Len(<<y, x>>) = 2
        /\ <<y, x>>[1] = y /\ <<y, x>>[2] = x
    OBVIOUS
  <2>3. /\ t \in Seq(Nodes) /\ Len(t) = 2 + Len(Tail(s))
        /\ \A i \in 1..2 + Len(Tail(s)) :
             t[i] = IF i <= 2 THEN <<y, x>>[i] ELSE Tail(s)[i - 2]
    BY <2>1, <2>2, ConcatIs
  <2> HIDE DEF t
  <2>4. Len(t) = Len(s) + 1 /\ t[1] = y /\ t[2] = x
    BY <2>1, <2>2, <2>3, <1>2
  <2>5. ASSUME NEW i \in 3..Len(s) + 1 PROVE t[i] = s[i - 1]
    <3>1. i \in 1..2 + Len(Tail(s)) /\ ~(i <= 2) /\ i - 2 \in 1..Len(s) - 1
          /\ (i - 2) + 1 = i - 1
      BY <2>1, <1>2
    <3>2. t[i] = Tail(s)[i - 2]
      BY <2>3, <3>1
    <3>3. Tail(s)[i - 2] = s[(i - 2) + 1]
      BY <2>1, <3>1
    <3> QED
      BY <3>1, <3>2, <3>3
  <2> QED
    BY <2>3, <2>4, <2>5
<1> HIDE DEF t
<1> DEFINE k == Len(s)
<1>5. k \in Nat /\ k >= 1 /\ Len(t) = k + 1
  BY <1>2, <1>4
<1>6. \A i \in 3..k + 1 : t[i] = s[i - 1] /\ i - 1 \in 1..k /\ i - 1 # 1
  BY <1>4, <1>5
<1>7. \A i, j \in 1..k + 1 : t[i] = t[j] => i = j
  <2>1. \A i \in 1..k + 1 : i = 1 \/ i = 2 \/ i \in 3..k + 1
    BY <1>5
  <2>2. s[1] = y /\ 1 \in 1..k
    BY <1>1, <1>5 DEF s
  <2>3. \A i \in 3..k + 1 : t[i] # y /\ t[i] # x
    BY <1>2, <1>3, <1>6, <2>2
  <2>4. \A i, j \in 3..k + 1 : t[i] = t[j] => i = j
    <3> TAKE i, j \in 3..k + 1
    <3>1. t[i] = t[j] => i - 1 = j - 1
      BY <1>2, <1>6
    <3> QED
      BY <3>1, <1>5
  <2>5. x # y
    OBVIOUS
  <2> QED
    BY <2>1, <2>3, <2>4, <2>5, <1>4
<1>8. \A i \in 1..k + 1 : other[t[i]] = t[Succ(i, k + 1)]
  <2> TAKE i \in 1..k + 1
  <2>1. CASE i = 1
    <3>1. Succ(i, k + 1) = 2
      BY <2>1, <1>5 DEF Succ
    <3> QED
      BY <2>1, <3>1, <1>4
  <2>2. CASE i = 2
    <3>1. s[1] = y /\ next[s[1]] = s[Succ(1, k)]
      BY <1>1, <1>2, <1>5 DEF s
    <3>2. CASE k = 1
      <4>1. Succ(i, k + 1) = 1 /\ Succ(1, k) = 1
        BY <2>2, <3>2 DEF Succ
      <4> QED
        BY <2>2, <3>1, <4>1, <1>4
    <3>3. CASE k # 1
      <4>1. Succ(i, k + 1) = 3 /\ Succ(1, k) = 2 /\ 3 \in 3..k + 1 /\ 3 - 1 = 2
        <5> HIDE DEF k
        <5> QED
          BY <2>2, <3>3, <1>5 DEF Succ
      <4>2. t[3] = s[2]
        BY <4>1, <1>6
      <4> QED
        BY <2>2, <3>1, <4>1, <4>2, <1>4
    <3> QED
      BY <3>2, <3>3
  <2>3. CASE i \in 3..k + 1
    <3>1. t[i] = s[i - 1] /\ i - 1 \in 1..k /\ i - 1 # 1
      BY <2>3, <1>6
    <3>2. s[1] = y /\ 1 \in 1..k
      BY <1>1, <1>5 DEF s
    <3>3. s[i - 1] \in L \ {y}
      BY <3>1, <3>2, <1>2, <1>3
    <3>4. other[t[i]] = s[Succ(i - 1, k)]
      BY <3>1, <3>3, <1>2
    <3>5. CASE i = k + 1
      <4>1. Succ(i - 1, k) = 1 /\ Succ(i, k + 1) = 1
        BY <3>5, <1>5 DEF Succ
      <4> QED
        BY <3>2, <3>4, <4>1, <1>4
    <3>6. CASE i # k + 1
      <4>1. Succ(i - 1, k) = i /\ Succ(i, k + 1) = i + 1 /\ i + 1 \in 3..k + 1
            /\ (i + 1) - 1 = i
        BY <3>6, <2>3, <1>5 DEF Succ
      <4>2. t[i + 1] = s[i]
        BY <4>1, <1>6
      <4> QED
        BY <3>4, <4>1, <4>2
    <3> QED
      BY <3>5, <3>6
  <2>4. i = 1 \/ i = 2 \/ i \in 3..k + 1
    BY <1>5
  <2> QED
    BY <2>1, <2>2, <2>3, <2>4
<1>9. Members(t) = Members(s) \cup {x}
  <2>1. \A i \in 1..k + 1 : t[i] \in Members(s) \cup {x}
    <3>1. \A i \in 1..k + 1 : i = 1 \/ i = 2 \/ i \in 3..k + 1
      BY <1>5
    <3> QED
      BY <3>1, <1>1, <1>3, <1>4, <1>6 DEF s
  <2>2. x \in Members(t)
    <3>1. 2 \in 1..k + 1
      BY <1>5
    <3> QED
      BY <3>1, <1>4, <1>5 DEF Members
  <2>3. \A j \in 1..k : s[j] \in Members(t)
    <3> TAKE j \in 1..k
    <3>1. CASE j = 1
      <4>1. 1 \in 1..k + 1 /\ s[1] = y
        BY <1>1, <1>5 DEF s
      <4> QED
        BY <3>1, <4>1, <1>4, <1>5 DEF Members
    <3>2. CASE j # 1
      <4>1. j + 1 \in 3..k + 1 /\ (j + 1) - 1 = j /\ j + 1 \in 1..k + 1
        BY <3>2, <1>5
      <4>2. t[j + 1] = s[j]
        BY <4>1, <1>6
      <4> QED
        BY <4>1, <4>2, <1>5 DEF Members
    <3> QED
      BY <3>1, <3>2
  <2> QED
    BY <2>1, <2>2, <2>3, <1>5 DEF Members
<1>10. IsRing(other, t)
  BY <1>4, <1>5, <1>7, <1>8 DEF IsRing
<1>11. \A n \in L \ Members(r[y]) : other[n] = next[n]
  BY <1>1 DEF s
<1>12. Arranged(other, L \cup {x}, Rings!Arrange(r, t))
  BY <1>9, <1>10, <1>11, RingGrows DEF s
<1>13. Rings!Behind(r, x, y) = Rings!Arrange(r, t)
  BY DEF Rings!Behind, t, s
<1> QED
  BY <1>12, <1>13

\* The node before y is the last of y's ring.
LEMMA LastIs ==
  ASSUME NEW next, NEW L \in SUBSET Nodes, NEW r, Arranged(next, L, r),
         NEW y \in L, NEW p \in L, next[p] = y
  PROVE  r[y][Len(r[y])] = p
<1> DEFINE s == r[y]
<1>1. IsRing(next, s) /\ s[1] = y /\ y \in Members(s)
  BY ArrangedFacts
<1>2. IsRing(next, r[p]) /\ p \in Members(r[p])
  BY ArrangedFacts
<1>3. y \in Members(r[p])
  <2>1. PICK i \in 1..Len(r[p]) : r[p][i] = p
    BY <1>2 DEF Members
  <2>2. Succ(i, Len(r[p])) \in 1..Len(r[p])
        /\ next[r[p][i]] = r[p][Succ(i, Len(r[p]))]
    BY <1>2, RingFacts
  <2> QED
    BY <2>1, <2>2 DEF Members
<1>4. Members(r[p]) = Members(s)
  BY <1>1, <1>2, <1>3, RingsMeet
<1>5. /\ s \in Seq(Nodes) /\ Len(s) \in Nat /\ Len(s) >= 1
      /\ \A i, j \in 1..Len(s) : s[i] = s[j] => i = j
      /\ \A i \in 1..Len(s) : /\ Succ(i, Len(s)) \in 1..Len(s)
                              /\ next[s[i]] = s[Succ(i, Len(s))]
  BY <1>1, RingFacts
<1>6. PICK i \in 1..Len(s) : s[i] = p
  BY <1>2, <1>4 DEF Members
<1> HIDE DEF s
<1> DEFINE k == Len(s)
<1>7. 1 \in 1..k
  BY <1>5
<1>8. Succ(i, k) = 1
  BY <1>1, <1>6, <1>5, <1>7
<1>9. i \in 1..k /\ k \in Nat
  BY <1>5
<1> HIDE DEF k
<1>10. i = k
  BY <1>8, <1>9 DEF Succ
<1> QED
  BY <1>6, <1>10 DEF k, s

LEMMA AppendIs ==
  ASSUME NEW S, NEW s \in Seq(S), NEW x \in S
  PROVE  /\ Append(s, x) \in Seq(S) /\ Len(Append(s, x)) = Len(s) + 1
         /\ Append(s, x)[Len(s) + 1] = x
         /\ \A i \in 1..Len(s) : Append(s, x)[i] = s[i]
OBVIOUS

\* list_add_tail: x comes before y, at the end of the ring read from y.
LEMMA PutsBefore ==
  ASSUME NEW next, NEW L \in SUBSET Nodes, NEW r, Arranged(next, L, r),
         NEW y \in L, NEW p \in L, next[p] = y, NEW x \in Nodes \ L,
         NEW other, other[p] = x, other[x] = y,
         \A n \in L \ {p} : other[n] = next[n]
  PROVE  Arranged(other, L \cup {x}, Rings!Before(r, x, y))
<1> DEFINE s == r[y]
           t == Append(s, x)
           k == Len(s)
<1>1. /\ IsRing(next, s) /\ s[1] = y /\ y \in Members(s) /\ Members(s) \subseteq L
  BY ArrangedFacts
<1>2. /\ s \in Seq(Nodes) /\ k \in Nat /\ k >= 1 /\ 1 \in 1..k /\ k \in 1..k
      /\ \A i, j \in 1..k : s[i] = s[j] => i = j
      /\ \A i \in 1..k : /\ Succ(i, k) \in 1..k /\ next[s[i]] = s[Succ(i, k)]
  BY <1>1, RingFacts
<1>3. s[k] = p
  BY LastIs
<1>4. \A i \in 1..k : s[i] \in Members(s) /\ s[i] \in L /\ s[i] # x
  BY <1>1 DEF Members
<1>5. t \in Seq(Nodes) /\ Len(t) = k + 1 /\ t[k + 1] = x /\ \A i \in 1..k : t[i] = s[i]
  BY <1>2, AppendIs
<1>6. \A n \in L \ Members(r[y]) : other[n] = next[n]
  <2>1. p \in Members(s)
    BY <1>2, <1>3, <1>4
  <2> QED
    BY <2>1
<1> HIDE DEF k, t, s
<1>7. \A i, j \in 1..k + 1 : t[i] = t[j] => i = j
  <2>1. \A i \in 1..k + 1 : i = k + 1 \/ i \in 1..k
    BY <1>2
  <2> QED
    BY <2>1, <1>2, <1>4, <1>5
<1>8. \A i \in 1..k + 1 : other[t[i]] = t[Succ(i, k + 1)]
  <2> TAKE i \in 1..k + 1
  <2>1. CASE i = k + 1
    <3>1. Succ(i, k + 1) = 1
      BY <2>1, <1>2 DEF Succ
    <3>2. t[1] = y
      BY <1>1, <1>2, <1>5
    <3> QED
      BY <2>1, <3>1, <3>2, <1>5
  <2>2. CASE i = k
    <3>1. Succ(i, k + 1) = k + 1
      BY <2>2, <1>2 DEF Succ
    <3>2. t[i] = p
      BY <2>2, <1>2, <1>3, <1>5
    <3> QED
      BY <3>1, <3>2, <1>5
  <2>3. CASE i # k /\ i # k + 1
    <3>1. i \in 1..k /\ Succ(i, k + 1) = i + 1 /\ Succ(i, k) = i + 1 /\ i + 1 \in 1..k
      BY <2>3, <1>2 DEF Succ
    <3>2. s[i] # p
      BY <2>3, <3>1, <1>2, <1>3
    <3>3. other[s[i]] = s[i + 1]
      BY <3>1, <3>2, <1>2, <1>4
    <3> QED
      BY <3>1, <3>3, <1>5
  <2> QED
    BY <2>1, <2>2, <2>3
<1>9. Members(t) = Members(s) \cup {x}
  <2>1. \A i \in 1..k + 1 : i = k + 1 \/ i \in 1..k
    BY <1>2
  <2>2. \A i \in 1..k + 1 : t[i] \in Members(s) \cup {x}
    BY <2>1, <1>4, <1>5
  <2>3. k + 1 \in 1..k + 1 /\ \A i \in 1..k : i \in 1..k + 1
    BY <1>2
  <2>4. x \in Members(t) /\ \A i \in 1..k : s[i] \in Members(t)
    BY <2>3, <1>5 DEF Members
  <2>5. Members(s) \subseteq Members(t)
    BY <2>4 DEF Members, k
  <2>6. Members(t) \subseteq Members(s) \cup {x}
    BY <2>2, <1>5 DEF Members
  <2> QED
    BY <2>4, <2>5, <2>6
<1>10. IsRing(other, t)
  BY <1>2, <1>5, <1>7, <1>8 DEF IsRing
<1>11. Arranged(other, L \cup {x}, Rings!Arrange(r, t))
  BY <1>6, <1>9, <1>10, RingGrows DEF s
<1>12. Rings!Before(r, x, y) = Rings!Arrange(r, t)
  BY DEF Rings!Before, t, s
<1> QED
  BY <1>11, <1>12

\* list_rm: the neighbours of x close up; the ring of a node alone is gone.
LEMMA TakesOut ==
  ASSUME NEW next, NEW L \in SUBSET Nodes, NEW r, Arranged(next, L, r),
         NEW x \in L, NEW p \in L, next[p] = x,
         NEW other, other[p] = next[x],
         \A n \in L \ {p} : other[n] = next[n]
  PROVE  Arranged(other, L \ {x}, Rings!Without(r, x))
<1> DEFINE s == r[x]
           t == Tail(s)
           k == Len(s)
           K == L \ Members(s)
<1>1. /\ IsRing(next, s) /\ s[1] = x /\ x \in Members(s) /\ Members(s) \subseteq L
  BY ArrangedFacts
<1>2. /\ s \in Seq(Nodes) /\ k \in Nat /\ k >= 1 /\ 1 \in 1..k /\ k \in 1..k
      /\ \A i, j \in 1..k : s[i] = s[j] => i = j
      /\ \A i \in 1..k : /\ Succ(i, k) \in 1..k /\ next[s[i]] = s[Succ(i, k)]
  BY <1>1, RingFacts
<1>3. s[k] = p
  BY LastIs
<1>4. \A i \in 1..k : s[i] \in Members(s) /\ s[i] \in L
  BY <1>1 DEF Members
<1>5. t \in Seq(Nodes) /\ Len(t) = k - 1 /\ \A i \in 1..k - 1 : t[i] = s[i + 1]
  BY <1>2
<1>6. Untouched(next, other, r, K)
  <2>1. p \in Members(s)
    BY <1>2, <1>3, <1>4
  <2>2. \A n \in K : Members(r[n]) \subseteq K
    BY RingsApart
  <2> QED
    BY <2>1, <2>2 DEF Untouched
<1>7. r \in [Nodes -> Seq(Nodes)] /\ \A n \in Nodes \ L : r[n] = <<>>
  BY DEF Arranged
<1>8. Rings!Without(r, x) = [Rings!Arrange(r, t) EXCEPT ![x] = <<>>]
  BY DEF Rings!Without
<1>9. Members(t) = Members(s) \ {x}
  <2> HIDE DEF k, t, s
  <2>1. \A i \in 1..k - 1 : i + 1 \in 1..k /\ i + 1 # 1
    BY <1>2
  <2>2. \A i \in 1..k : i # 1 => i - 1 \in 1..k - 1 /\ (i - 1) + 1 = i
    BY <1>2
  <2>3. \A i \in 1..k - 1 : t[i] \in Members(s) /\ t[i] # x
    <3> TAKE i \in 1..k - 1
    <3>1. t[i] = s[i + 1] /\ i + 1 \in 1..k /\ i + 1 # 1
      BY <2>1, <1>5
    <3>2. s[i + 1] # s[1] /\ s[i + 1] \in Members(s)
      BY <3>1, <1>2, <1>4
    <3> QED
      BY <3>1, <3>2, <1>1
  <2>4. \A i \in 1..k : s[i] # x => s[i] \in Members(t)
    <3> TAKE i \in 1..k
    <3> HAVE s[i] # x
    <3>1. i # 1
      BY <1>1
    <3>2. t[i - 1] = s[i] /\ i - 1 \in 1..k - 1
      BY <2>2, <3>1, <1>5
    <3> QED
      BY <3>2, <1>5 DEF Members
  <2>5. Members(s) \ {x} \subseteq Members(t)
    BY <2>4 DEF Members, k
  <2>6. Members(t) \subseteq Members(s) \ {x}
    BY <2>3, <1>5 DEF Members
  <2> QED
    BY <2>5, <2>6
<1>10. Rings!Without(r, x) = WithRing(r, K, t)
  <2>1. Rings!ToSet(t) = Members(t)
    BY <1>5, MembersAre
  <2>2. Rings!Arrange(r, t)
          = [n \in Nodes |-> IF n \in Members(t) THEN Rings!From(t, n) ELSE r[n]]
    BY <2>1 DEF Rings!Arrange
  <2>3. \A n \in Nodes : n # x /\ n \notin Members(t) =>
                           r[n] = IF n \in K THEN r[n] ELSE <<>>
    BY <1>7, <1>9
  <2>4. x \notin Members(t) /\ x \notin K
    BY <1>1, <1>9
  <2> HIDE DEF K, t
  <2> QED
    BY <2>2, <2>3, <2>4, <1>8 DEF WithRing
<1>11. CASE k = 1
  <2>1. Members(t) = {}
    <3>1. 1..k - 1 = {}
      BY <1>11
    <3> QED
      BY <3>1, <1>5 DEF Members
  <2>2. \A n \in K : IsRing(other, r[n]) /\ r[n][1] = n /\ Members(r[n]) \subseteq K
    <3> TAKE n \in K
    <3>1. IsRing(next, r[n]) /\ r[n][1] = n /\ Members(r[n]) \subseteq K
      BY <1>6, ArrangedFacts DEF Untouched
    <3>2. \A i \in 1..Len(r[n]) : other[r[n][i]] = next[r[n][i]]
      BY <3>1, <1>6 DEF Members, Untouched
    <3>3. IsRing(other, r[n])
      BY <3>1, <3>2 DEF IsRing
    <3> QED
      BY <3>1, <3>3
  <2>3. K = L \ {x}
    BY <2>1, <1>1, <1>9
  <2>4. WithRing(r, K, t) = [n \in Nodes |-> IF n \in K THEN r[n] ELSE <<>>]
    BY <2>1 DEF WithRing
  <2> DEFINE R == WithRing(r, K, t)
  <2>5. R \in [Nodes -> Seq(Nodes)] /\ (\A n \in Nodes \ K : R[n] = <<>>)
        /\ \A n \in K : R[n] = r[n]
    <3>1. <<>> \in Seq(Nodes) /\ K \in SUBSET Nodes
      OBVIOUS
    <3> HIDE DEF K
    <3> QED
      BY <2>4, <1>7, <3>1
  <2> HIDE DEF R, K
  <2>6. Arranged(other, K, R)
    BY <2>2, <2>5 DEF Arranged
  <2> QED
    BY <2>3, <2>6, <1>10 DEF R
<1>12. CASE k # 1
  <2>1. IsRing(other, t)
    <3> HIDE DEF k, t, s
    <3>1. k - 1 \in Nat /\ k - 1 >= 1
      BY <1>2, <1>12
    <3>2. \A i, j \in 1..k - 1 : t[i] = t[j] => i = j
      <4> TAKE i, j \in 1..k - 1
      <4>1. i + 1 \in 1..k /\ j + 1 \in 1..k
        BY <1>2
      <4>2. t[i] = t[j] => i + 1 = j + 1
        BY <4>1, <1>2, <1>5
      <4> QED
        BY <4>2, <1>2
    <3>3. \A i \in 1..k - 1 : other[t[i]] = t[Succ(i, k - 1)]
      <4> TAKE i \in 1..k - 1
      <4>1. i + 1 \in 1..k /\ t[i] = s[i + 1]
        BY <1>2, <1>5
      <4>2. CASE i = k - 1
        <5>1. Succ(i, k - 1) = 1 /\ 1 \in 1..k - 1 /\ 1 + 1 = 2 /\ Succ(1, k) = 2
              /\ i + 1 = k
          BY <4>2, <3>1, <1>2 DEF Succ
        <5>2. t[1] = s[2]
          BY <5>1, <1>5
        <5>3. next[x] = s[2]
          <6>1. next[s[1]] = s[Succ(1, k)]
            BY <1>2
          <6> QED
            BY <6>1, <5>1, <1>1
        <5> QED
          BY <4>1, <5>1, <5>2, <5>3, <1>3
      <4>3. CASE i # k - 1
        <5>1. Succ(i, k - 1) = i + 1 /\ i + 1 \in 1..k - 1 /\ Succ(i + 1, k) = (i + 1) + 1
              /\ i + 1 # k
          BY <4>3, <3>1, <1>2 DEF Succ
        <5>2. s[i + 1] # p /\ s[i + 1] \in L
          BY <4>1, <5>1, <1>2, <1>3, <1>4
        <5>3. other[t[i]] = s[(i + 1) + 1]
          <6>1. next[s[i + 1]] = s[Succ(i + 1, k)]
            BY <4>1, <1>2
          <6>2. other[s[i + 1]] = next[s[i + 1]]
            BY <5>2
          <6> QED
            BY <6>1, <6>2, <4>1, <5>1
        <5>4. t[i + 1] = s[(i + 1) + 1]
          BY <5>1, <1>5
        <5> QED
          BY <5>1, <5>3, <5>4
      <4> QED
        BY <4>2, <4>3
    <3> QED
      BY <3>1, <3>2, <3>3, <1>5 DEF IsRing
  <2>2. K \in SUBSET L /\ Members(t) \cap K = {} /\ K \cup Members(t) = L \ {x}
    BY <1>1, <1>9
  <2> HIDE DEF K, t
  <2>3. Arranged(other, K \cup Members(t), WithRing(r, K, t))
    BY <2>1, <2>2, <1>6, OneRingChanges
  <2> QED
    BY <2>2, <2>3, <1>10
<1> QED
  BY <1>11, <1>12

\* The node that stands where n stood once a and b have traded places.
Other(a, b, n) == IF n = a THEN b ELSE IF n = b THEN a ELSE n

LEMMA OtherTwice ==
  ASSUME NEW a \in Nodes, NEW b \in Nodes, NEW n \in Nodes
  PROVE  Other(a, b, n) \in Nodes /\ Other(a, b, Other(a, b, n)) = n
BY DEF Other

LEMMA ExchangeIs ==
  ASSUME NEW r \in [Nodes -> Seq(Nodes)], NEW a \in Nodes, NEW b \in Nodes
  PROVE  Rings!Exchange(r, a, b)
           = [n \in Nodes |-> [i \in 1..Len(r[Other(a, b, n)]) |->
                                 Other(a, b, r[Other(a, b, n)][i])]]
<1>1. \A n \in Nodes : DOMAIN r[Other(a, b, n)] = 1..Len(r[Other(a, b, n)])
  BY OtherTwice
<1>2. \A n : Other(a, b, n) = CASE n = a -> b [] n = b -> a [] OTHER -> n
  BY DEF Other
<1> QED
  BY <1>1, <1>2 DEF Rings!Exchange

\* Two nodes trade places, whether they share a ring, are on different ones, or
\* only one of them is on a ring.
LEMMA TradesPlaces ==
  ASSUME NEW next, NEW L \in SUBSET Nodes, NEW r, Arranged(next, L, r),
         NEW a \in Nodes, NEW b \in Nodes,
         NEW other, \A n \in L : other[Other(a, b, n)] = Other(a, b, next[n])
  PROVE  Arranged(other, {Other(a, b, n) : n \in L}, Rings!Exchange(r, a, b))
<1> DEFINE O(n) == Other(a, b, n)
           M == {O(n) : n \in L}
           R == Rings!Exchange(r, a, b)
<1>1. \A n \in Nodes : O(n) \in Nodes /\ O(O(n)) = n
  BY OtherTwice
<1>2. r \in [Nodes -> Seq(Nodes)] /\ \A n \in Nodes \ L : r[n] = <<>>
  BY DEF Arranged
<1>3. R = [n \in Nodes |-> [i \in 1..Len(r[O(n)]) |-> O(r[O(n)][i])]]
  BY <1>2, ExchangeIs
<1> HIDE DEF R, O
<1>4. ASSUME NEW n \in Nodes
      PROVE  /\ R[n] \in Seq(Nodes) /\ Len(R[n]) = Len(r[O(n)])
             /\ \A i \in 1..Len(r[O(n)]) : R[n][i] = O(r[O(n)][i])
  <2>1. r[O(n)] \in Seq(Nodes) /\ R[n] = [i \in 1..Len(r[O(n)]) |-> O(r[O(n)][i])]
    BY <1>1, <1>2, <1>3
  <2>2. Len(r[O(n)]) \in Nat /\ \A i \in 1..Len(r[O(n)]) : r[O(n)][i] \in Nodes
    BY <2>1
  <2>3. \A i \in 1..Len(r[O(n)]) : O(r[O(n)][i]) \in Nodes
    BY <2>2, <1>1
  <2> QED
    BY <2>1, <2>2, <2>3
<1>5. ASSUME NEW n \in Nodes \ M PROVE R[n] = <<>>
  <2>1. O(n) \in Nodes /\ O(n) \notin L
    BY <1>1
  <2>2. r[O(n)] = <<>>
    BY <2>1, <1>2
  <2>3. R[n] \in Seq(Nodes) /\ Len(R[n]) = 0
    BY <2>2, <1>4
  <2> QED
    BY <2>3
<1>6. ASSUME NEW n \in M
      PROVE  IsRing(other, R[n]) /\ R[n][1] = n /\ Members(R[n]) \subseteq M
  <2> DEFINE s == r[O(n)]
             u == R[n]
  <2>1. O(n) \in L /\ n \in Nodes
    BY <1>1
  <2>2. IsRing(next, s) /\ s[1] = O(n) /\ Members(s) \subseteq L
    BY <2>1, ArrangedFacts
  <2>3. /\ s \in Seq(Nodes) /\ Len(s) \in Nat /\ Len(s) >= 1
        /\ \A i, j \in 1..Len(s) : s[i] = s[j] => i = j
        /\ \A i \in 1..Len(s) : /\ Succ(i, Len(s)) \in 1..Len(s)
                                /\ next[s[i]] = s[Succ(i, Len(s))]
    BY <2>2, RingFacts
  <2>4. u \in Seq(Nodes) /\ Len(u) = Len(s) /\ \A i \in 1..Len(s) : u[i] = O(s[i])
    BY <2>1, <1>4
  <2> HIDE DEF s, u
  <2>5. \A i \in 1..Len(s) : s[i] \in L /\ s[i] \in Nodes
    BY <2>2 DEF Members
  <2>6. \A i, j \in 1..Len(u) : u[i] = u[j] => i = j
    <3> TAKE i, j \in 1..Len(u)
    <3> HAVE u[i] = u[j]
    <3>1. O(s[i]) = O(s[j]) /\ i \in 1..Len(s) /\ j \in 1..Len(s)
      BY <2>4
    <3>2. O(O(s[i])) = s[i] /\ O(O(s[j])) = s[j]
      BY <3>1, <2>5, <1>1
    <3> QED
      BY <3>1, <3>2, <2>3
  <2>7. \A i \in 1..Len(u) : other[u[i]] = u[Succ(i, Len(u))]
    <3> TAKE i \in 1..Len(u)
    <3>1. i \in 1..Len(s) /\ Succ(i, Len(s)) \in 1..Len(s) /\ u[i] = O(s[i])
      BY <2>3, <2>4
    <3>2. other[O(s[i])] = O(next[s[i]])
      BY <3>1, <2>5 DEF O
    <3>3. next[s[i]] = s[Succ(i, Len(s))]
      BY <3>1, <2>3
    <3>4. u[Succ(i, Len(s))] = O(s[Succ(i, Len(s))])
      BY <3>1, <2>4
    <3> QED
      BY <3>1, <3>2, <3>3, <3>4, <2>4
  <2>8. u[1] = n
    BY <2>1, <2>2, <2>3, <2>4, <1>1
  <2>9. Members(u) \subseteq M
    <3>1. \A i \in 1..Len(u) : u[i] \in M
      BY <2>4, <2>5
    <3> HIDE DEF M
    <3> QED
      BY <3>1 DEF Members
  <2>10. IsRing(other, u)
    BY <2>3, <2>4, <2>6, <2>7 DEF IsRing
  <2> QED
    BY <2>8, <2>9, <2>10 DEF u
<1>7. M \in SUBSET Nodes /\ R \in [Nodes -> Seq(Nodes)]
  BY <1>1, <1>3, <1>4
<1> HIDE DEF M
<1>8. Arranged(other, M, R)
  BY <1>5, <1>6, <1>7 DEF Arranged
<1> QED
  BY <1>8 DEF M, R, O

-----------------------------------------------------------------------------
(* The inline functions.                                                   *)

\* What each call does to the rings, on a memory m whose rings are r.
LEMMA NodeInitRings ==
  ASSUME NEW m \in Pointers, NEW L \in SUBSET Nodes, NEW r, Arranged(m.next, L, r),
         NEW x \in Nodes, x \in L => m.next[x] = x
  PROVE  Arranged(NodeInit(m, x).next, L \cup {x}, Rings!Arrange(r, <<x>>))
<1> DEFINE other == NodeInit(m, x).next
<1>1. other[x] = x /\ \A n \in L \ {x} : other[n] = m.next[n]
  BY DEF NodeInit, Pointers
<1> HIDE DEF other
<1>2. Arranged(other, L \cup {x}, Rings!Arrange(r, <<x>>))
  BY <1>1, StartsRing
<1> QED
  BY <1>2 DEF other

LEMMA AddRings ==
  ASSUME NEW m \in Pointers, NEW L \in SUBSET Nodes, RingsIn(m, L),
         NEW r, Arranged(m.next, L, r), NEW x \in Nodes \ L, NEW y \in L
  PROVE  /\ Arranged(Add(m, x, y).next, L \cup {x}, Rings!Behind(r, x, y))
         /\ Arranged(AddTail(m, x, y).next, L \cup {x}, Rings!Before(r, x, y))
<1>1. m.prev[y] \in L /\ m.next[m.prev[y]] = y /\ m.next[y] \in L
  BY DEF RingsIn
<1>2. Arranged(Add(m, x, y).next, L \cup {x}, Rings!Behind(r, x, y))
  <2> DEFINE other == Add(m, x, y).next
  <2>1. other[y] = x /\ other[x] = m.next[y] /\ \A n \in L \ {y} : other[n] = m.next[n]
    BY <1>1 DEF Add, Link, Pointers
  <2> HIDE DEF other
  <2>2. Arranged(other, L \cup {x}, Rings!Behind(r, x, y))
    BY <2>1, PutsBehind
  <2> QED
    BY <2>2 DEF other
<1>3. Arranged(AddTail(m, x, y).next, L \cup {x}, Rings!Before(r, x, y))
  <2> DEFINE other == AddTail(m, x, y).next
             p == m.prev[y]
  <2>1. other[p] = x /\ other[x] = y /\ \A n \in L \ {p} : other[n] = m.next[n]
    BY <1>1 DEF AddTail, Link, Pointers
  <2>2. p \in L /\ m.next[p] = y
    BY <1>1
  <2> HIDE DEF other, p
  <2>3. Arranged(other, L \cup {x}, Rings!Before(r, x, y))
    BY <2>1, <2>2, PutsBefore
  <2> QED
    BY <2>3 DEF other
<1> QED
  BY <1>2, <1>3

LEMMA RmRings ==
  ASSUME NEW m \in Pointers, NEW L \in SUBSET Nodes, RingsIn(m, L),
         NEW r, Arranged(m.next, L, r), NEW x \in L
  PROVE  Arranged(Rm(m, x).next, L \ {x}, Rings!Without(r, x))
<1> DEFINE other == Rm(m, x).next
           p == m.prev[x]
<1>1. p \in L /\ m.next[p] = x /\ m.next[x] \in L
  BY DEF RingsIn
<1>2. other[p] = m.next[x] /\ \A n \in L \ {p} : other[n] = m.next[n]
  BY <1>1 DEF Rm, Unlink, Pointers
<1> HIDE DEF other, p
<1>3. Arranged(other, L \ {x}, Rings!Without(r, x))
  BY <1>1, <1>2, TakesOut
<1> QED
  BY <1>3 DEF other

LEMMA MoveRings ==
  ASSUME NEW m \in Pointers, NEW L \in SUBSET Nodes, RingsIn(m, L),
         NEW r, Arranged(m.next, L, r), NEW x \in L, NEW y \in L, x # y
  PROVE  /\ Arranged(Move(m, x, y).next, L, Rings!Behind(Rings!Without(r, x), x, y))
         /\ Arranged(MoveTail(m, x, y).next, L, Rings!Before(Rings!Without(r, x), x, y))
<1> DEFINE off == Rm(m, x)
           R == Rings!Without(r, x)
           M == L \ {x}
<1>1. off \in Pointers /\ RingsIn(off, M) /\ Arranged(off.next, M, R)
  BY RmTakesOut, RmRings
<1>2. M \in SUBSET Nodes /\ x \in Nodes \ M /\ y \in M /\ M \cup {x} = L
  OBVIOUS
<1>3. Move(m, x, y) = Add(off, x, y) /\ MoveTail(m, x, y) = AddTail(off, x, y)
  BY DEF Move, MoveTail
<1> HIDE DEF off, R, M
<1>4. /\ Arranged(Add(off, x, y).next, M \cup {x}, Rings!Behind(R, x, y))
      /\ Arranged(AddTail(off, x, y).next, M \cup {x}, Rings!Before(R, x, y))
  BY <1>1, <1>2, AddRings
<1> QED
  BY <1>2, <1>3, <1>4 DEF R

LEMMA ReplaceRings ==
  ASSUME NEW m \in Pointers, NEW L \in SUBSET Nodes, RingsIn(m, L),
         NEW r, Arranged(m.next, L, r), NEW old \in L, NEW x \in Nodes \ L
  PROVE  /\ m.next[old] = old =>
              Arranged(Replace(m, old, x).next, L \cup {x}, Rings!Behind(r, x, old))
         /\ m.next[old] # old =>
              Arranged(Replace(m, old, x).next, (L \ {old}) \cup {x},
                       Rings!Exchange(r, old, x))
<1> DEFINE other == Replace(m, old, x).next
           p == m.prev[old]
<1>1. p \in L /\ m.next[p] = old /\ m.next[old] \in L
  BY DEF RingsIn
<1>2. \A n \in Nodes : other[n] = IF n = p THEN x
                                  ELSE IF n = x THEN m.next[old] ELSE m.next[n]
  BY <1>1 DEF Replace, Pointers
<1>3. \A n \in L : m.next[n] \in L /\ m.prev[m.next[n]] = n
  BY DEF RingsIn
<1> HIDE DEF other, p
<1>4. ASSUME m.next[old] = old
      PROVE  Arranged(other, L \cup {x}, Rings!Behind(r, x, old))
  <2>1. p = old
    BY <1>3, <1>4 DEF p
  <2>2. other[old] = x /\ other[x] = m.next[old]
        /\ \A n \in L \ {old} : other[n] = m.next[n]
    BY <1>2, <1>4, <2>1
  <2> QED
    BY <2>2, PutsBehind
<1>5. ASSUME m.next[old] # old
      PROVE  Arranged(other, (L \ {old}) \cup {x}, Rings!Exchange(r, old, x))
  <2>1. ASSUME NEW n \in L
        PROVE  other[Other(old, x, n)] = Other(old, x, m.next[n])
    <3>1. n \in Nodes /\ n # x /\ m.next[n] # x /\ m.next[old] # x /\ p # old
      BY <1>1, <1>3, <1>5
    <3>2. CASE n = old
      BY <3>1, <3>2, <1>1, <1>2, <1>5 DEF Other
    <3>3. CASE n = p
      BY <3>1, <3>3, <1>1, <1>2 DEF Other
    <3>4. CASE n # old /\ n # p
      <4>1. m.next[n] # old
        BY <3>4, <1>3 DEF p
      <4> QED
        BY <3>1, <3>4, <4>1, <1>2 DEF Other
    <3> QED
      BY <3>2, <3>3, <3>4
  <2>2. {Other(old, x, n) : n \in L} = (L \ {old}) \cup {x}
    BY DEF Other
  <2>3. old \in Nodes
    OBVIOUS
  <2>4. Arranged(other, {Other(old, x, n) : n \in L}, Rings!Exchange(r, old, x))
    BY <2>1, <2>3, TradesPlaces
  <2> QED
    BY <2>2, <2>4
<1> QED
  BY <1>4, <1>5 DEF other

LEMMA SwapRings ==
  ASSUME NEW m \in Pointers, NEW L \in SUBSET Nodes, RingsIn(m, L),
         NEW r, Arranged(m.next, L, r),
         NEW a \in L, NEW b \in L, m.next[a] # a, m.next[b] # b, m.prev[a] # b
  PROVE  Arranged(Swap(m, a, b).next, L, Rings!Exchange(r, a, b))
<1> DEFINE other == Swap(m, a, b).next
<1>1. \A n \in L : /\ m.next[n] \in L /\ m.prev[m.next[n]] = n
                   /\ m.prev[n] \in L /\ m.next[m.prev[n]] = n
  BY DEF RingsIn
<1>2. a \in Nodes /\ b \in Nodes
  OBVIOUS
<1>3. {Other(a, b, n) : n \in L} = L
  BY DEF Other
<1>4. ASSUME NEW n \in L PROVE other[Other(a, b, n)] = Other(a, b, m.next[n])
  <2>1. CASE a = b
    BY <2>1 DEF Swap, Other
  <2>2. CASE a # b
    <3> DEFINE off == Rm(m, a)
               in == Replace(off, b, a)
               p == m.prev[a]
               q == off.prev[b]
    <3>1. p \in L /\ p \in Nodes /\ p # a /\ p # b /\ m.next[p] = a /\ m.next[a] \in Nodes
      BY <1>1
    <3>2. /\ \A k \in Nodes : off.next[k] = IF k = p THEN m.next[a] ELSE m.next[k]
          /\ \A k \in Nodes : off.prev[k] = IF k = m.next[a] THEN p ELSE m.prev[k]
          /\ off \in Pointers
      BY <3>1, <1>2 DEF Rm, Unlink, Pointers
    <3>3. q \in Nodes
      BY <3>1, <3>2, <1>1, <1>2
    <3>4. \A k \in Nodes : in.next[k] = IF k = q THEN a
                                        ELSE IF k = a THEN off.next[b] ELSE off.next[k]
      BY <3>2, <3>3, <1>2 DEF Replace, Pointers
    <3>5. in.next \in [Nodes -> Nodes \cup {NULL}]
      <4>1. in.next = [off.next EXCEPT ![a] = off.next[b], ![q] = a]
        BY DEF Replace
      <4> QED
        BY <4>1, <3>2, <3>3, <1>2 DEF Pointers
    <3>6. other = [in.next EXCEPT ![p] = b, ![b] = in.next[p]]
      BY <2>2 DEF Swap, Add, Link
    <3>7. \A k \in Nodes : other[k] = IF k = b THEN in.next[p]
                                      ELSE IF k = p THEN b ELSE in.next[k]
      BY <3>1, <3>5, <3>6, <1>2
    <3>8. q = IF b = m.next[a] THEN p ELSE m.prev[b]
      BY <3>2, <1>2
    <3> HIDE DEF off, in, p, q, other
    <3>9. n \in Nodes /\ m.next[n] \in Nodes
      BY <1>1
    <3>10. CASE b = m.next[a]
      <4>1. q = p
        BY <3>8, <3>10
      <4>2. /\ other[b] = a /\ other[p] = b /\ other[a] = m.next[b]
            /\ \A k \in Nodes \ {a, b, p} : other[k] = m.next[k]
        BY <4>1, <2>2, <3>1, <3>2, <3>4, <3>7, <1>2
      <4>3. m.next[b] # a
        BY <1>1
      <4>4. n # p => m.next[n] # a
        BY <1>1 DEF p
      <4>5. n # a => m.next[n] # b
        BY <3>10, <1>1
      <4> QED
        BY <4>2, <4>3, <4>4, <4>5, <2>2, <3>1, <3>9, <3>10 DEF Other
    <3>11. CASE b # m.next[a]
      <4>1. q = m.prev[b] /\ q \in L /\ m.next[q] = b /\ q # p /\ q # a /\ q # b
        BY <3>1, <3>8, <3>11, <1>1, <2>2
      <4>2. /\ other[b] = m.next[a] /\ other[p] = b /\ other[a] = m.next[b] /\ other[q] = a
            /\ \A k \in Nodes \ {a, b, p, q} : other[k] = m.next[k]
        BY <4>1, <2>2, <3>1, <3>2, <3>3, <3>4, <3>7, <1>2
      <4>3. m.next[b] # a
        BY <1>1
      <4>4. n # p => m.next[n] # a
        BY <1>1 DEF p
      <4>5. n # q => m.next[n] # b
        BY <4>1, <1>1
      <4> QED
        BY <4>1, <4>2, <4>3, <4>4, <4>5, <2>2, <3>1, <3>9, <3>11 DEF Other
    <3> QED
      BY <3>10, <3>11
  <2> QED
    BY <2>1, <2>2
<1> HIDE DEF other
<1>5. Arranged(other, {Other(a, b, n) : n \in L}, Rings!Exchange(r, a, b))
  BY <1>2, <1>4, TradesPlaces
<1> QED
  BY <1>3, <1>5 DEF other

-----------------------------------------------------------------------------
(* List implements RingLists.                                              *)

RingInv == IInv /\ Arranged(ptr.next, linked, RingOf)

\* The rings found after a step are the ones it arranges.
LEMMA NewRings ==
  ASSUME linked' \in SUBSET Nodes, NEW R, Arranged(ptr'.next, linked', R)
  PROVE  RingOf' = R /\ Arranged(ptr'.next, linked', RingOf')
<1>1. RingsOf(ptr'.next, linked') = R
  BY WalksFindArrangement
<1>2. RingOf' = RingsOf(ptr'.next, linked')
  BY DEF RingOf
<1> QED
  BY <1>1, <1>2

LEMMA InitRingInv == Init => RingInv /\ Rings!RingInit
<1> SUFFICES ASSUME Init PROVE RingInv /\ Rings!RingInit
  OBVIOUS
<1>1. linked = {} /\ IInv
  BY InitIInv DEF Init
<1>2. RingOf = [n \in Nodes |-> <<>>]
  BY <1>1 DEF RingOf, RingsOf
<1>3. Arranged(ptr.next, linked, RingOf)
  BY <1>1, <1>2 DEF Arranged
<1> QED
  BY <1>1, <1>2, <1>3 DEF RingInv, Rings!RingInit

\* Which nodes are on lists, and which are alone, can be read from the rings.
LEMMA RingsTell ==
  ASSUME RingInv, NEW n \in Nodes
  PROVE  /\ Rings!OnList(n) <=> n \in linked
         /\ n \in linked => (Rings!Alone(n) <=> ptr.next[n] = n)
<1>1. linked \in SUBSET Nodes /\ Arranged(ptr.next, linked, RingOf)
  BY DEF RingInv, IInv, TypeOK
<1>2. n \notin linked => RingOf[n] = <<>>
  BY <1>1 DEF Arranged
<1>3. n \in linked => RingOf[n] # <<>>
  <2> SUFFICES ASSUME n \in linked PROVE RingOf[n] # <<>>
    OBVIOUS
  <2>1. IsRing(ptr.next, RingOf[n])
    BY <1>1, ArrangedFacts
  <2>2. Len(RingOf[n]) >= 1
    BY <2>1 DEF IsRing
  <2> QED
    BY <2>2
<1>4. n \in linked => (RingOf[n] = <<n>> <=> ptr.next[n] = n)
  BY <1>1, AloneIs
<1> QED
  BY <1>2, <1>3, <1>4 DEF Rings!OnList, Rings!Alone

\* A call does to the rings what its name says.
LEMMA CallRings ==
  ASSUME ~SwapPredecessor, RingInv, NEW x \in Nodes, NEW y \in Nodes
  PROVE  /\ InitNode(x) => Rings!Start(x)
         /\ RmItem(x) => Rings!Take(x)
         /\ AddItem(x, y) => Rings!PutBehind(x, y)
         /\ AddItemTail(x, y) => Rings!PutBefore(x, y)
         /\ MoveItem(x, y) => Rings!MoveBehind(x, y)
         /\ MoveItemTail(x, y) => Rings!MoveBefore(x, y)
         /\ ReplaceItem(x, y) => Rings!Substitute(x, y)
         /\ SwapItems(x, y) => Rings!Trade(x, y)
         /\ (InitNode(x) \/ RmItem(x) \/ AddItem(x, y) \/ AddItemTail(x, y)
              \/ MoveItem(x, y) \/ MoveItemTail(x, y) \/ ReplaceItem(x, y)
              \/ SwapItems(x, y)) => Arranged(ptr'.next, linked', RingOf')
<1> DEFINE m == ptr
           L == linked
           r == RingOf
<1>1. m \in Pointers /\ L \in SUBSET Nodes /\ RingsIn(m, L) /\ Arranged(m.next, L, r)
  BY IInvIsRingsIn DEF RingInv
<1>2. \A n \in Nodes : /\ Rings!OnList(n) <=> n \in L
                       /\ n \in L => (Rings!Alone(n) <=> m.next[n] = n)
  BY RingsTell
<1> HIDE DEF m, L, r
<1>3. ASSUME InitNode(x)
      PROVE  Rings!Start(x) /\ Arranged(ptr'.next, linked', RingOf')
  <2>1. (x \in L => m.next[x] = x) /\ ptr' = NodeInit(m, x) /\ linked' = L \cup {x}
    BY <1>3 DEF InitNode, IsEmpty, m, L
  <2>2. Arranged(NodeInit(m, x).next, L \cup {x}, Rings!Arrange(r, <<x>>))
    BY <1>1, <2>1, NodeInitRings
  <2>3. RingOf' = Rings!Arrange(r, <<x>>) /\ Arranged(ptr'.next, linked', RingOf')
    BY <1>1, <2>1, <2>2, NewRings
  <2> QED
    BY <1>2, <2>1, <2>3 DEF Rings!Start, r
<1>4. ASSUME RmItem(x)
      PROVE  Rings!Take(x) /\ Arranged(ptr'.next, linked', RingOf')
  <2>1. x \in L /\ m.next[x] # x /\ ptr' = Rm(m, x) /\ linked' = L \ {x}
    BY <1>4 DEF RmItem, IsEmpty, m, L
  <2>2. Arranged(Rm(m, x).next, L \ {x}, Rings!Without(r, x))
    BY <1>1, <2>1, RmRings
  <2>3. RingOf' = Rings!Without(r, x) /\ Arranged(ptr'.next, linked', RingOf')
    BY <1>1, <2>1, <2>2, NewRings
  <2> QED
    BY <1>2, <2>1, <2>3 DEF Rings!Take, r
<1>5. ASSUME AddItem(x, y)
      PROVE  Rings!PutBehind(x, y) /\ Arranged(ptr'.next, linked', RingOf')
  <2>1. x \notin L /\ y \in L /\ ptr' = Add(m, x, y) /\ linked' = L \cup {x}
    BY <1>5 DEF AddItem, m, L
  <2>2. Arranged(Add(m, x, y).next, L \cup {x}, Rings!Behind(r, x, y))
    BY <1>1, <2>1, AddRings
  <2>3. RingOf' = Rings!Behind(r, x, y) /\ Arranged(ptr'.next, linked', RingOf')
    BY <1>1, <2>1, <2>2, NewRings
  <2> QED
    BY <1>2, <2>1, <2>3 DEF Rings!PutBehind, r
<1>6. ASSUME AddItemTail(x, y)
      PROVE  Rings!PutBefore(x, y) /\ Arranged(ptr'.next, linked', RingOf')
  <2>1. x \notin L /\ y \in L /\ ptr' = AddTail(m, x, y) /\ linked' = L \cup {x}
    BY <1>6 DEF AddItemTail, m, L
  <2>2. Arranged(AddTail(m, x, y).next, L \cup {x}, Rings!Before(r, x, y))
    BY <1>1, <2>1, AddRings
  <2>3. RingOf' = Rings!Before(r, x, y) /\ Arranged(ptr'.next, linked', RingOf')
    BY <1>1, <2>1, <2>2, NewRings
  <2> QED
    BY <1>2, <2>1, <2>3 DEF Rings!PutBefore, r
<1>7. ASSUME MoveItem(x, y)
      PROVE  Rings!MoveBehind(x, y) /\ Arranged(ptr'.next, linked', RingOf')
  <2>1. x \in L /\ y \in L /\ x # y /\ ptr' = Move(m, x, y) /\ linked' = L
    BY <1>7 DEF MoveItem, m, L
  <2>2. Arranged(Move(m, x, y).next, L, Rings!Behind(Rings!Without(r, x), x, y))
    BY <1>1, <2>1, MoveRings
  <2>3. RingOf' = Rings!Behind(Rings!Without(r, x), x, y)
        /\ Arranged(ptr'.next, linked', RingOf')
    BY <1>1, <2>1, <2>2, NewRings
  <2> QED
    BY <1>2, <2>1, <2>3 DEF Rings!MoveBehind, r
<1>8. ASSUME MoveItemTail(x, y)
      PROVE  Rings!MoveBefore(x, y) /\ Arranged(ptr'.next, linked', RingOf')
  <2>1. x \in L /\ y \in L /\ x # y /\ ptr' = MoveTail(m, x, y) /\ linked' = L
    BY <1>8 DEF MoveItemTail, m, L
  <2>2. Arranged(MoveTail(m, x, y).next, L, Rings!Before(Rings!Without(r, x), x, y))
    BY <1>1, <2>1, MoveRings
  <2>3. RingOf' = Rings!Before(Rings!Without(r, x), x, y)
        /\ Arranged(ptr'.next, linked', RingOf')
    BY <1>1, <2>1, <2>2, NewRings
  <2> QED
    BY <1>2, <2>1, <2>3 DEF Rings!MoveBefore, r
<1>9. ASSUME ReplaceItem(x, y)
      PROVE  Rings!Substitute(x, y) /\ Arranged(ptr'.next, linked', RingOf')
  <2>1. x \in L /\ y \notin L /\ ptr' = Replace(m, x, y)
        /\ linked' = (IF m.next[x] = x THEN L ELSE L \ {x}) \cup {y}
    BY <1>9 DEF ReplaceItem, IsEmpty, m, L
  <2>2. CASE m.next[x] = x
    <3>1. Arranged(Replace(m, x, y).next, L \cup {y}, Rings!Behind(r, y, x))
      BY <1>1, <2>1, <2>2, ReplaceRings
    <3>2. RingOf' = Rings!Behind(r, y, x) /\ Arranged(ptr'.next, linked', RingOf')
      BY <1>1, <2>1, <2>2, <3>1, NewRings
    <3> QED
      BY <1>2, <2>1, <2>2, <3>2 DEF Rings!Substitute, r
  <2>3. CASE m.next[x] # x
    <3>1. Arranged(Replace(m, x, y).next, (L \ {x}) \cup {y}, Rings!Exchange(r, x, y))
      BY <1>1, <2>1, <2>3, ReplaceRings
    <3>2. RingOf' = Rings!Exchange(r, x, y) /\ Arranged(ptr'.next, linked', RingOf')
      BY <1>1, <2>1, <2>3, <3>1, NewRings
    <3> QED
      BY <1>2, <2>1, <2>3, <3>2 DEF Rings!Substitute, r
  <2> QED
    BY <2>2, <2>3
<1>10. ASSUME SwapItems(x, y)
       PROVE  Rings!Trade(x, y) /\ Arranged(ptr'.next, linked', RingOf')
  <2>1. x \in L /\ y \in L /\ m.next[x] # x /\ m.next[y] # y /\ m.prev[x] # y
        /\ ptr' = Swap(m, x, y) /\ linked' = L
    BY <1>10 DEF SwapItems, IsEmpty, m, L
  <2>2. Arranged(Swap(m, x, y).next, L, Rings!Exchange(r, x, y))
    BY <1>1, <2>1, SwapRings
  <2>3. RingOf' = Rings!Exchange(r, x, y) /\ Arranged(ptr'.next, linked', RingOf')
    BY <1>1, <2>1, <2>2, NewRings
  <2> QED
    BY <1>2, <2>1, <2>3 DEF Rings!Trade, r
<1> QED
  BY <1>3, <1>4, <1>5, <1>6, <1>7, <1>8, <1>9, <1>10

LEMMA NextRingInv ==
  ASSUME ~SwapPredecessor, RingInv, [Next]_vars
  PROVE  RingInv' /\ [Rings!RingNext]_RingOf
<1>1. IInv'
  BY NextIInv DEF RingInv
<1>2. CASE Next
  <2>1. PICK x \in Nodes : \/ InitNode(x)
                           \/ RmItem(x)
                           \/ \E y \in Nodes : \/ AddItem(x, y)
                                               \/ AddItemTail(x, y)
                                               \/ MoveItem(x, y)
                                               \/ MoveItemTail(x, y)
                                               \/ ReplaceItem(x, y)
                                               \/ SwapItems(x, y)
    BY <1>2 DEF Next
  <2>2. PICK y \in Nodes : \/ InitNode(x)
                           \/ RmItem(x)
                           \/ AddItem(x, y)
                           \/ AddItemTail(x, y)
                           \/ MoveItem(x, y)
                           \/ MoveItemTail(x, y)
                           \/ ReplaceItem(x, y)
                           \/ SwapItems(x, y)
    BY <2>1
  <2>3. Arranged(ptr'.next, linked', RingOf')
    BY <2>2, CallRings
  <2>4. Rings!RingNext
    BY <2>2, CallRings DEF Rings!RingNext
  <2> QED
    BY <1>1, <2>3, <2>4 DEF RingInv
<1>3. CASE UNCHANGED vars
  <2>1. RingOf' = RingOf /\ ptr' = ptr /\ linked' = linked
    BY <1>3 DEF vars, RingOf
  <2> QED
    BY <1>1, <2>1 DEF RingInv
<1> QED
  BY <1>2, <1>3

\* The pointers of list.h implement rings of nodes: every call is a step of
\* RingLists.
THEOREM ListsImplementRings == ~SwapPredecessor /\ Spec => RefinesRings
<1>1. Init => RingInv /\ Rings!RingInit
  BY InitRingInv
<1>2. CASE ~SwapPredecessor
  <2>1. RingInv /\ [Next]_vars => RingInv' /\ [Rings!RingNext]_RingOf
    BY <1>2, NextRingInv
  <2> QED
    BY <1>1, <2>1, PTL DEF Spec, RefinesRings, Rings!RingSpec
<1> QED
  BY <1>2

\* Each call of list.h changes the rings as its name says, and no others: adding
\* behind and before a node, moving there, taking a place and trading places.
THEOREM CallsDoAsNamed == ~SwapPredecessor /\ Spec => CallsKeepPromises
<1>1. CASE ~SwapPredecessor
  <2>1. RingInv /\ [Next]_vars => RingInv'
    BY <1>1, NextRingInv
  <2>2. RingInv /\ [Next]_vars =>
          [\A x, y \in Nodes :
             /\ AddItem(x, y)      => Rings!PutBehind(x, y)
             /\ AddItemTail(x, y)  => Rings!PutBefore(x, y)
             /\ MoveItem(x, y)     => Rings!MoveBehind(x, y)
             /\ MoveItemTail(x, y) => Rings!MoveBefore(x, y)
             /\ ReplaceItem(x, y)  => Rings!Substitute(x, y)
             /\ SwapItems(x, y)    => Rings!Trade(x, y)]_vars
    BY <1>1, CallRings
  <2> QED
    BY <2>1, <2>2, InitRingInv, PTL DEF Spec, CallsKeepPromises
<1> QED
  BY <1>1

-----------------------------------------------------------------------------
(* The traversal macros.                                                   *)

\* The node behind item i of a list that is entered at h and has the items s.
After(s, h, i) == IF i < Len(s) THEN s[i + 1] ELSE h

\* The items from the j-th on are linked, and lead from each to the next.
Rest(next, L, s, h, j) ==
  \A i \in j..Len(s) : s[i] \in L /\ next[s[i]] = After(s, h, i)

\* s holds each item once, and not the head.
Items(s, h) ==
  /\ s \in Seq(Nodes)
  /\ \A i, j \in 1..Len(s) : s[i] = s[j] => i = j
  /\ \A i \in 1..Len(s) : s[i] # h

\* A loop is entered on all the items behind its head.
LEMMA EntersList ==
  ASSUME NEW next, NEW L \in SUBSET Nodes, NEW r, Arranged(next, L, r), NEW h \in L
  PROVE  /\ Items(Tail(r[h]), h) /\ Rest(next, L, Tail(r[h]), h, 1)
         /\ next[h] = After(Tail(r[h]), h, 0)
<1> DEFINE s == r[h]
           t == Tail(s)
           k == Len(s)
<1>1. /\ IsRing(next, s) /\ s[1] = h /\ Members(s) \subseteq L
  BY ArrangedFacts
<1>2. /\ s \in Seq(Nodes) /\ k \in Nat /\ k >= 1 /\ 1 \in 1..k
      /\ \A i, j \in 1..k : s[i] = s[j] => i = j
      /\ \A i \in 1..k : /\ Succ(i, k) \in 1..k /\ next[s[i]] = s[Succ(i, k)]
  BY <1>1, RingFacts
<1>3. \A i \in 1..k : s[i] \in L
  BY <1>1 DEF Members
<1>4. t \in Seq(Nodes) /\ Len(t) = k - 1 /\ \A i \in 1..k - 1 : t[i] = s[i + 1]
  BY <1>2
<1> HIDE DEF k, s, t
<1>5. \A i \in 1..k - 1 : i + 1 \in 1..k /\ i + 1 # 1
  BY <1>2
<1>6. \A i \in 1..k - 1 : t[i] # h
  BY <1>1, <1>2, <1>4, <1>5
<1>7. \A i, j \in 1..k - 1 : t[i] = t[j] => i = j
  <2> TAKE i, j \in 1..k - 1
  <2> HAVE t[i] = t[j]
  <2>1. i + 1 = j + 1
    BY <1>2, <1>4, <1>5
  <2> QED
    BY <2>1, <1>2
<1>8. \A i \in 0..k - 1 : next[s[i + 1]] = After(t, h, i)
  <2> TAKE i \in 0..k - 1
  <2>1. i + 1 \in 1..k
    BY <1>2
  <2>2. next[s[i + 1]] = s[Succ(i + 1, k)]
    BY <2>1, <1>2
  <2>3. CASE i < k - 1
    <3>1. Succ(i + 1, k) = (i + 1) + 1 /\ i + 1 \in 1..k - 1
      BY <2>3, <1>2 DEF Succ
    <3>2. t[i + 1] = s[(i + 1) + 1]
      BY <3>1, <1>4
    <3> QED
      BY <2>2, <2>3, <3>1, <3>2, <1>4 DEF After
  <2>4. CASE ~(i < k - 1)
    <3>1. Succ(i + 1, k) = 1
      BY <2>4, <1>2 DEF Succ
    <3> QED
      BY <2>2, <2>4, <3>1, <1>1, <1>4 DEF After
  <2> QED
    BY <2>3, <2>4
<1>9. Rest(next, L, t, h, 1)
  <2> SUFFICES ASSUME NEW i \in 1..Len(t)
               PROVE  t[i] \in L /\ next[t[i]] = After(t, h, i)
    BY DEF Rest
  <2>1. i \in 1..k - 1 /\ i \in 0..k - 1
    BY <1>2, <1>4
  <2> QED
    BY <2>1, <1>3, <1>4, <1>5, <1>8
<1>10. next[h] = After(t, h, 0)
  <2>1. 0 \in 0..k - 1 /\ 0 + 1 = 1
    BY <1>2
  <2> QED
    BY <2>1, <1>1, <1>8
<1>11. Items(t, h)
  BY <1>4, <1>6, <1>7 DEF Items
<1> QED
  BY <1>9, <1>10, <1>11 DEF s, t

\* The items a loop has before it are on the list of its head.
LEMMA RestIsOnRing ==
  ASSUME NEW next, NEW L \in SUBSET Nodes, NEW r, Arranged(next, L, r), NEW h \in L,
         NEW s, Items(s, h), NEW k \in Nat, Rest(next, L, s, h, k),
         NEW i \in k..Len(s)
  PROVE  s[i] \in Members(r[h])
<1> DEFINE N == Len(s)
           Bad == {j \in 0..N : N - j \in k..N /\ s[N - j] \notin Members(r[h])}
<1>1. N \in Nat
  BY DEF Items
<1>2. ASSUME NEW p \in L, next[p] \in Members(r[h])
      PROVE  p \in Members(r[h])
  <2>1. ASSUME p \notin Members(r[h]) PROVE FALSE
    <3>1. Members(r[p]) \subseteq L \ Members(r[h])
      BY <2>1, RingsApart
    <3>2. IsRing(next, r[p]) /\ r[p][1] = p
      BY ArrangedFacts
    <3>3. next[r[p][1]] \in Members(r[p])
      <4>1. 1 \in 1..Len(r[p]) /\ Succ(1, Len(r[p])) \in 1..Len(r[p])
            /\ next[r[p][1]] = r[p][Succ(1, Len(r[p]))]
        BY <3>2, RingFacts
      <4> QED
        BY <4>1 DEF Members
    <3> QED
      BY <1>2, <3>1, <3>2, <3>3
  <2> QED
    BY <2>1
<1>3. Bad = {}
  <2>1. SUFFICES ASSUME Bad # {} PROVE FALSE
    OBVIOUS
  <2>2. PICK j \in Bad : \A l \in Bad : j <= l
    <3>1. Bad \in SUBSET Nat
      OBVIOUS
    <3> QED
      BY <2>1, <3>1, LeastNatural
  <2> DEFINE e == N - j
  <2>3. j \in 0..N /\ e \in k..N /\ s[e] \notin Members(r[h])
    BY <2>2
  <2>4. s[e] \in L /\ next[s[e]] = After(s, h, e)
    BY <2>3 DEF Rest
  <2>5. After(s, h, e) \notin Members(r[h])
    BY <2>3, <2>4, <1>2
  <2>6. h \in Members(r[h])
    BY ArrangedFacts
  <2>7. e < N /\ After(s, h, e) = s[e + 1]
    BY <2>5, <2>6 DEF After
  <2>8. j - 1 \in 0..N /\ N - (j - 1) = e + 1 /\ e + 1 \in k..N
    BY <2>3, <2>7, <1>1
  <2>9. j - 1 \in Bad
    BY <2>5, <2>7, <2>8
  <2>10. j <= j - 1
    BY <2>2, <2>9
  <2> QED
    BY <2>3, <2>10, <1>1
<1>4. N - i \in 0..N /\ N - (N - i) = i
  BY <1>1
<1>5. N - i \notin Bad
  BY <1>3
<1> QED
  BY <1>4, <1>5

\* Taking the current item off the list leaves the items behind it in their
\* order, and leaves the item itself pointing at the first of them.
LEMMA RmKeepsRest ==
  ASSUME NEW m \in Pointers, NEW L \in SUBSET Nodes, RingsIn(m, L),
         NEW h \in L, NEW s, Items(s, h), NEW k \in 1..Len(s), Rest(m.next, L, s, h, k),
         m.next[s[k]] # s[k]
  PROVE  /\ Rest(Rm(m, s[k]).next, L \ {s[k]}, s, h, k + 1)
         /\ Rm(m, s[k]).next[s[k]] = After(s, h, k)
<1> DEFINE x == s[k]
           p == m.prev[x]
           other == Rm(m, x).next
<1>1. /\ s \in Seq(Nodes) /\ Len(s) \in Nat
      /\ \A i, j \in 1..Len(s) : s[i] = s[j] => i = j
      /\ \A i \in 1..Len(s) : s[i] # h
  BY DEF Items
<1>2. \A i \in k..Len(s) : s[i] \in L /\ m.next[s[i]] = After(s, h, i)
  BY DEF Rest
<1>3. x \in L /\ k \in k..Len(s) /\ k \in 1..Len(s)
  BY <1>1, <1>2
<1>4. p \in L /\ m.next[p] = x /\ m.next[x] \in L /\ m.prev[m.next[x]] = x
  BY <1>3 DEF RingsIn
<1>5. \A n \in Nodes : other[n] = IF n = p THEN m.next[x] ELSE m.next[n]
  BY <1>4 DEF Rm, Unlink, Pointers
<1>6. p # x
  BY <1>4
<1> HIDE DEF other, p
<1>7. ASSUME NEW i \in k + 1..Len(s)
      PROVE  s[i] \in L \ {x} /\ other[s[i]] = After(s, h, i)
  <2>1. i \in 1..Len(s) /\ i \in k..Len(s) /\ i # k
    BY <1>1
  <2>2. s[i] \in L /\ s[i] # x /\ m.next[s[i]] = After(s, h, i)
    BY <2>1, <1>1, <1>2, <1>3
  <2>3. After(s, h, i) # x
    <3>1. CASE i < Len(s)
      <4>1. i + 1 \in 1..Len(s) /\ i + 1 # k
        BY <3>1, <2>1, <1>1
      <4>2. s[i + 1] # x
        BY <4>1, <1>1, <1>3
      <4> QED
        BY <3>1, <4>2 DEF After
    <3>2. CASE ~(i < Len(s))
      BY <3>2, <1>1, <1>3 DEF After
    <3> QED
      BY <3>1, <3>2
  <2>4. s[i] # p
    BY <2>2, <2>3, <1>4
  <2> QED
    BY <2>2, <2>4, <1>5
<1>8. Rest(other, L \ {x}, s, h, k + 1)
  BY <1>7 DEF Rest
<1>9. other[x] = After(s, h, k)
  BY <1>2, <1>3, <1>5, <1>6
<1> QED
  BY <1>8, <1>9 DEF other

\* Moving it to another list does so as well.
LEMMA MoveKeepsRest ==
  ASSUME NEW m \in Pointers, NEW L \in SUBSET Nodes, RingsIn(m, L),
         NEW h \in L, NEW s, Items(s, h), NEW k \in 1..Len(s), Rest(m.next, L, s, h, k),
         NEW g \in L, g # s[k], \A i \in k..Len(s) : s[i] # g
  PROVE  Rest(Move(m, s[k], g).next, L, s, h, k + 1)
<1> DEFINE x == s[k]
           off == Rm(m, x)
           other == Move(m, x, g).next
<1>1. Len(s) \in Nat /\ k \in k..Len(s)
  BY DEF Items
<1>2. x \in L
  BY <1>1 DEF Rest
<1>3. CASE m.next[x] # x
  <2>1. Rest(off.next, L \ {x}, s, h, k + 1)
    BY <1>3, RmKeepsRest
  <2>2. off \in Pointers
    BY <1>2, RmTakesOut
  <2>3. \A n \in Nodes : n # g /\ n # x => other[n] = off.next[n]
    BY <2>2 DEF Move, Add, Link, Pointers
  <2> HIDE DEF other, off
  <2>4. ASSUME NEW i \in k + 1..Len(s)
        PROVE  s[i] \in L /\ other[s[i]] = After(s, h, i)
    <3>1. i \in k..Len(s)
      BY <1>1
    <3>2. s[i] \in L \ {x} /\ off.next[s[i]] = After(s, h, i) /\ s[i] # g
      BY <2>1, <3>1 DEF Rest
    <3> QED
      BY <2>3, <3>2
  <2> QED
    BY <2>4 DEF Rest, other
<1>4. CASE m.next[x] = x
  \* An item alone would be its own head.
  <2>1. After(s, h, k) = x
    BY <1>1, <1>4 DEF Rest
  <2>2. CASE k < Len(s)
    <3>1. k + 1 \in 1..Len(s) /\ k + 1 # k
      BY <2>2, <1>1
    <3> QED
      BY <2>1, <2>2, <3>1 DEF After, Items
  <2>3. CASE ~(k < Len(s))
    BY <2>1, <2>3 DEF After, Items
  <2> QED
    BY <2>2, <2>3
<1> QED
  BY <1>3, <1>4

-----------------------------------------------------------------------------
\* Where a loop stands: the items seen are the first of those on the list at the
\* start, the rest are still linked in their order, and the cursor that the macro
\* advances by leads to the first of them.
LoopPlace ==
  LET k == Len(visited)
  IN /\ head \in linked /\ Items(todo, head)
     /\ visited \in Seq(Nodes) /\ k <= Len(todo) /\ \A i \in 1..k : visited[i] = todo[i]
     /\ turn = "test" =>
          /\ Rest(ptr.next, linked, todo, head, k + 1)
          /\ pos = After(todo, head, k)
          /\ mode = "safe" /\ k < Len(todo) => tmp = After(todo, head, k + 1)
     /\ turn = "body" =>
          /\ k >= 1 /\ pos = todo[k]
          /\ Rest(ptr.next, linked, todo, head, k)
          /\ mode = "safe" => tmp = After(todo, head, k)
     /\ turn = "advance" =>
          /\ k >= 1 /\ pos = todo[k]
          /\ Rest(ptr.next, linked, todo, head, k + 1)
          /\ IF mode = "safe" THEN tmp = After(todo, head, k)
                              ELSE ptr.next[pos] = After(todo, head, k)

LoopInv ==
  /\ turn \in {"test", "body", "advance"}
  /\ mode = NoLoop => turn = "test"
  /\ mode # NoLoop => LoopPlace

\* A loop is a use of the list calls like any other.
LEMMA LoopStepsCallLists ==
  linked \in SUBSET Nodes /\ [LoopNext]_allVars => [Next]_vars /\ linked' \in SUBSET Nodes
<1> SUFFICES ASSUME linked \in SUBSET Nodes, [LoopNext]_allVars
             PROVE  [Next]_vars /\ linked' \in SUBSET Nodes
  OBVIOUS
<1>1. [Next]_vars
  <2>1. CASE BuildLists
    BY <2>1 DEF BuildLists
  <2>2. ASSUME NEW m \in {"each", "safe"}, NEW h \in Nodes, Enter(m, h)
        PROVE  UNCHANGED vars
    BY <2>2 DEF Enter
  <2>3. CASE Test
    BY <2>3 DEF Test, vars
  <2>4. CASE Body
    <3>1. CASE UNCHANGED vars
      BY <3>1
    <3>2. CASE RmItem(pos)
      <4>1. pos \in Nodes
        BY <3>2 DEF RmItem
      <4> QED
        BY <3>2, <4>1 DEF Next
    <3>3. ASSUME NEW h \in linked, MoveItem(pos, h)
          PROVE  Next
      <4>1. pos \in Nodes /\ h \in Nodes
        BY <3>3 DEF MoveItem
      <4> QED
        BY <3>3, <4>1 DEF Next
    <3> QED
      BY <2>4, <3>1, <3>2, <3>3 DEF Body
  <2>5. CASE Advance
    BY <2>5 DEF Advance
  <2>6. CASE Leave
    BY <2>6 DEF Leave
  <2>7. CASE UNCHANGED allVars
    BY <2>7 DEF allVars
  <2> QED
    BY <2>1, <2>2, <2>3, <2>4, <2>5, <2>6, <2>7 DEF LoopNext
<1>2. linked' \in SUBSET Nodes
  <2>1. CASE Next
    BY <2>1 DEF Next, InitNode, RmItem, AddItem, AddItemTail, MoveItem, MoveItemTail,
                ReplaceItem, SwapItems
  <2>2. CASE UNCHANGED vars
    BY <2>2 DEF vars
  <2> QED
    BY <1>1, <2>1, <2>2
<1> QED
  BY <1>1, <1>2

LEMMA LoopsCallLists == LoopSpec => Spec
<1> DEFINE LinkedNodes == linked \in SUBSET Nodes
<1>1. LoopInit => Init /\ LinkedNodes
  BY DEF LoopInit, Init
<1>2. LinkedNodes /\ [LoopNext]_allVars => [Next]_vars /\ LinkedNodes'
  BY LoopStepsCallLists
<1> HIDE DEF LinkedNodes
<1> QED
  BY <1>1, <1>2, PTL DEF LoopSpec, Spec

LEMMA LoopInitInv == LoopInit => RingInv /\ LoopInv
BY InitRingInv DEF LoopInit, LoopInv

LEMMA LoopNextInv ==
  ASSUME ~SwapPredecessor, RingInv, LoopInv, [LoopNext]_allVars
  PROVE  RingInv' /\ LoopInv'
<1>1. /\ ptr \in Pointers /\ linked \in SUBSET Nodes /\ RingsIn(ptr, linked)
      /\ Arranged(ptr.next, linked, RingOf)
  BY IInvIsRingsIn DEF RingInv
<1>2. RingInv'
  BY <1>1, LoopStepsCallLists, NextRingInv
<1> SUFFICES LoopInv'
  BY <1>2
<1>3. CASE BuildLists
  BY <1>3 DEF BuildLists, loopVars, LoopInv
<1>4. ASSUME NEW m \in {"each", "safe"}, NEW h \in Nodes, Enter(m, h)
      PROVE  LoopInv'
  <2>1. /\ mode' = m /\ turn' = "test" /\ head' = h /\ h \in linked
        /\ pos' = ptr.next[h]
        /\ m = "safe" => tmp' = ptr.next[ptr.next[h]]
        /\ visited' = <<>> /\ todo' = Tail(Walk(h)) /\ ptr' = ptr /\ linked' = linked
    BY <1>4 DEF Enter, vars
  <2>2. Walk(h) = RingOf[h]
    BY <2>1 DEF Walk, RingOf, RingsOf
  <2> DEFINE t == Tail(RingOf[h])
  <2>3. Items(t, h) /\ Rest(ptr.next, linked, t, h, 1) /\ ptr.next[h] = After(t, h, 0)
    BY <1>1, <2>1, EntersList
  <2>4. todo' = t
    BY <2>1, <2>2
  <2> HIDE DEF t
  <2>5. Len(t) \in Nat /\ Len(<<>>) = 0 /\ <<>> \in Seq(Nodes)
    BY <2>3 DEF Items
  <2>6. 0 < Len(t) => ptr.next[ptr.next[h]] = After(t, h, 1)
    <3> SUFFICES ASSUME 0 < Len(t) PROVE ptr.next[ptr.next[h]] = After(t, h, 1)
      OBVIOUS
    <3>1. ptr.next[h] = t[1]
      BY <2>3 DEF After
    <3>2. 1 \in 1..Len(t)
      BY <2>5
    <3> QED
      BY <2>3, <3>1, <3>2 DEF Rest
  <2>7. LoopPlace'
    <3>1. Len(visited') = 0 /\ 0 + 1 = 1 /\ 0 <= Len(t)
          /\ \A i \in 1..0 : visited'[i] = t[i]
      BY <2>1, <2>5
    <3>2. ~(turn' = "body") /\ ~(turn' = "advance")
      BY <2>1
    <3> QED
      BY <2>1, <2>3, <2>4, <2>5, <2>6, <3>1, <3>2 DEF LoopPlace
  <2> QED
    BY <2>1, <2>7 DEF LoopInv
<1>5. CASE Test
  <2>1. /\ mode # NoLoop /\ turn = "test" /\ pos # head /\ turn' = "body"
        /\ visited' = IF Len(visited) > Len(todo) THEN visited ELSE Append(visited, pos)
        /\ ptr' = ptr /\ linked' = linked /\ mode' = mode /\ head' = head /\ pos' = pos
        /\ tmp' = tmp /\ todo' = todo
    BY <1>5 DEF Test, vars
  <2>2. LoopPlace
    BY <2>1 DEF LoopInv
  <2> DEFINE k == Len(visited)
  <2>3. /\ head \in linked /\ Items(todo, head) /\ visited \in Seq(Nodes) /\ k <= Len(todo)
        /\ \A i \in 1..k : visited[i] = todo[i]
        /\ Rest(ptr.next, linked, todo, head, k + 1) /\ pos = After(todo, head, k)
        /\ mode = "safe" /\ k < Len(todo) => tmp = After(todo, head, k + 1)
    BY <2>1, <2>2 DEF LoopPlace
  <2>4. k \in Nat /\ Len(todo) \in Nat /\ todo \in Seq(Nodes)
    BY <2>3 DEF Items
  <2>5. k < Len(todo) /\ pos = todo[k + 1]
    BY <2>1, <2>3 DEF After
  <2>6. visited' = Append(visited, pos) /\ pos \in Nodes
    <3>1. ~(Len(visited) > Len(todo))
      BY <2>3, <2>4
    <3>2. k + 1 \in 1..Len(todo)
      BY <2>4, <2>5
    <3> QED
      BY <2>1, <2>4, <2>5, <3>1, <3>2
  <2>7. /\ visited' \in Seq(Nodes) /\ Len(visited') = k + 1
        /\ visited'[k + 1] = pos /\ \A i \in 1..k : visited'[i] = visited[i]
    BY <2>3, <2>6, AppendIs
  <2> HIDE DEF k
  <2>8. \A i \in 1..k + 1 : visited'[i] = todo[i]
    <3>1. \A i \in 1..k + 1 : i = k + 1 \/ i \in 1..k
      BY <2>4
    <3> QED
      BY <2>3, <2>5, <2>7, <3>1
  <2>9. k + 1 <= Len(todo) /\ k + 1 >= 1
    BY <2>4, <2>5
  <2>10. LoopPlace'
    BY <2>1, <2>3, <2>5, <2>7, <2>8, <2>9 DEF LoopPlace
  <2> QED
    BY <2>1, <2>10 DEF LoopInv
<1>6. CASE Body
  <2>1. /\ turn = "body" /\ turn' = "advance" /\ mode' = mode /\ head' = head /\ pos' = pos
        /\ tmp' = tmp /\ visited' = visited /\ todo' = todo
    BY <1>6 DEF Body
  <2>2. LoopPlace /\ mode # NoLoop
    BY <2>1 DEF LoopInv
  <2> DEFINE k == Len(visited)
  <2>3. /\ head \in linked /\ Items(todo, head) /\ visited \in Seq(Nodes) /\ k <= Len(todo)
        /\ \A i \in 1..k : visited[i] = todo[i]
        /\ k >= 1 /\ pos = todo[k] /\ Rest(ptr.next, linked, todo, head, k)
        /\ mode = "safe" => tmp = After(todo, head, k)
    BY <2>1, <2>2 DEF LoopPlace
  <2>4. k \in Nat /\ Len(todo) \in Nat /\ k \in 1..Len(todo) /\ k \in k..Len(todo)
        /\ pos # head
    BY <2>3 DEF Items
  <2>5. pos \in linked /\ ptr.next[pos] = After(todo, head, k)
    BY <2>3, <2>4 DEF Rest
  <2> HIDE DEF k
  <2>6. /\ head \in linked' /\ Rest(ptr'.next, linked', todo, head, k + 1)
        /\ mode # "safe" => ptr'.next[pos] = After(todo, head, k)
    <3>1. CASE UNCHANGED vars
      <4>1. ptr' = ptr /\ linked' = linked
        BY <3>1 DEF vars
      <4>2. Rest(ptr.next, linked, todo, head, k + 1)
        BY <2>3, <2>4 DEF Rest
      <4> QED
        BY <4>1, <4>2, <2>3, <2>5
    <3>2. CASE RmItem(pos)
      <4>1. ptr.next[pos] # pos /\ ptr' = Rm(ptr, pos) /\ linked' = linked \ {pos}
        BY <3>2 DEF RmItem, IsEmpty
      <4>2. /\ Rest(Rm(ptr, todo[k]).next, linked \ {todo[k]}, todo, head, k + 1)
            /\ Rm(ptr, todo[k]).next[todo[k]] = After(todo, head, k)
        BY <1>1, <2>3, <2>4, <4>1, RmKeepsRest
      <4> QED
        BY <4>1, <4>2, <2>3, <2>4
    <3>3. ASSUME NEW g \in linked \ Rings!ToSet(Walk(head)), mode = "safe", MoveItem(pos, g)
          PROVE  head \in linked' /\ Rest(ptr'.next, linked', todo, head, k + 1)
      <4>1. g # pos /\ ptr' = Move(ptr, pos, g) /\ linked' = linked
        BY <3>3 DEF MoveItem
      <4>2. Rings!ToSet(Walk(head)) = Members(RingOf[head])
        <5>1. Walk(head) = RingOf[head]
          BY <1>1, <2>3 DEF Walk, RingOf, RingsOf
        <5>2. RingOf[head] \in Seq(Nodes)
          BY <1>1, <2>3 DEF Arranged
        <5> QED
          BY <5>1, <5>2, MembersAre
      <4>3. \A i \in k..Len(todo) : todo[i] \in Members(RingOf[head])
        BY <1>1, <2>3, <2>4, RestIsOnRing
      <4>4. \A i \in k..Len(todo) : todo[i] # g
        BY <4>2, <4>3
      <4>5. Rest(Move(ptr, todo[k], g).next, linked, todo, head, k + 1)
        BY <1>1, <2>3, <2>4, <4>1, <4>4, MoveKeepsRest
      <4> QED
        BY <4>1, <4>5, <2>3
    <3> QED
      BY <1>6, <3>1, <3>2, <3>3 DEF Body
  <2>7. LoopPlace'
    BY <2>1, <2>3, <2>6 DEF LoopPlace, k
  <2> QED
    BY <2>1, <2>2, <2>7 DEF LoopInv
<1>7. CASE Advance
  <2>1. /\ turn = "advance" /\ turn' = "test" /\ mode' = mode /\ head' = head
        /\ pos' = IF mode = "safe" THEN tmp ELSE ptr.next[pos]
        /\ mode = "safe" => tmp' = ptr.next[tmp]
        /\ visited' = visited /\ todo' = todo /\ ptr' = ptr /\ linked' = linked
    BY <1>7 DEF Advance, vars
  <2>2. LoopPlace /\ mode # NoLoop
    BY <2>1 DEF LoopInv
  <2> DEFINE k == Len(visited)
  <2>3. /\ head \in linked /\ Items(todo, head) /\ visited \in Seq(Nodes) /\ k <= Len(todo)
        /\ \A i \in 1..k : visited[i] = todo[i]
        /\ Rest(ptr.next, linked, todo, head, k + 1)
        /\ IF mode = "safe" THEN tmp = After(todo, head, k)
                            ELSE ptr.next[pos] = After(todo, head, k)
    BY <2>1, <2>2 DEF LoopPlace
  <2>4. pos' = After(todo, head, k)
    BY <2>1, <2>3
  <2>5. mode = "safe" /\ k < Len(todo) => tmp' = After(todo, head, k + 1)
    <3> SUFFICES ASSUME mode = "safe", k < Len(todo)
                 PROVE  tmp' = After(todo, head, k + 1)
      OBVIOUS
    <3>1. tmp = todo[k + 1]
      BY <2>3 DEF After
    <3>2. k + 1 \in k + 1..Len(todo)
      BY <2>3 DEF Items
    <3> QED
      BY <2>1, <2>3, <3>1, <3>2 DEF Rest
  <2>6. LoopPlace'
    BY <2>1, <2>3, <2>4, <2>5 DEF LoopPlace
  <2> QED
    BY <2>1, <2>2, <2>6 DEF LoopInv
<1>8. CASE Leave
  BY <1>8 DEF Leave, LoopInv
<1>9. CASE UNCHANGED allVars
  BY <1>9 DEF allVars, loopVars, vars, LoopInv, LoopPlace
<1> QED
  BY <1>2, <1>3, <1>4, <1>5, <1>6, <1>7, <1>8, <1>9 DEF LoopNext

LEMMA LoopInvHolds == ~SwapPredecessor /\ LoopSpec => [](RingInv /\ LoopInv)
<1>1. CASE ~SwapPredecessor
  <2>1. RingInv /\ LoopInv /\ [LoopNext]_allVars => RingInv' /\ LoopInv'
    BY <1>1, LoopNextInv
  <2> QED
    BY <2>1, LoopInitInv, PTL DEF LoopSpec
<1> QED
  BY <1>1

\* Whatever the body does to the current node, list_for_each and its safe variant
\* show it the items that were on the list, each once, in order and to the end.
THEOREM LoopsVisitTheList == ~SwapPredecessor /\ LoopSpec => []VisitsTheList
<1>1. RingInv /\ LoopInv => VisitsTheList
  <2> SUFFICES ASSUME LoopInv, mode # NoLoop
               PROVE  /\ Len(visited) <= Len(todo)
                      /\ visited = SubSeq(todo, 1, Len(visited))
                      /\ turn = "test" /\ pos = head => visited = todo
    BY DEF VisitsTheList
  <2> DEFINE k == Len(visited)
  <2>1. /\ Items(todo, head) /\ visited \in Seq(Nodes) /\ k <= Len(todo)
        /\ \A i \in 1..k : visited[i] = todo[i]
        /\ turn = "test" => pos = After(todo, head, k)
    BY DEF LoopInv, LoopPlace
  <2>2. k \in Nat /\ Len(todo) \in Nat /\ todo \in Seq(Nodes)
        /\ \A i \in 1..Len(todo) : todo[i] # head
    BY <2>1 DEF Items
  <2>3. visited = SubSeq(todo, 1, k)
    <3> DEFINE u == SubSeq(todo, 1, k)
    <3>1. 1 \in 1..Len(todo) + 1 /\ k \in 0..Len(todo)
      BY <2>1, <2>2
    <3>2. u \in Seq(Nodes) /\ Len(u) = k /\ \A i \in 1..k : u[i] = todo[i]
      BY <2>2, <3>1, SubSeqIs
    <3> HIDE DEF u
    <3>3. visited \in Seq(Nodes) /\ Len(visited) = Len(u)
          /\ \A i \in 1..Len(visited) : visited[i] = u[i]
      BY <2>1, <3>2
    <3>4. visited = u
      BY <3>2, <3>3, SameSeq
    <3> QED
      BY <3>4 DEF u
  <2>4. ASSUME turn = "test", pos = head PROVE visited = todo
    <3>1. After(todo, head, k) = head
      BY <2>1, <2>4
    <3>2. ~(k < Len(todo))
      <4> SUFFICES ASSUME k < Len(todo) PROVE FALSE
        OBVIOUS
      <4>1. k + 1 \in 1..Len(todo)
        BY <2>2
      <4> QED
        BY <2>2, <3>1, <4>1 DEF After
    <3>3. Len(visited) = Len(todo)
      BY <2>1, <2>2, <3>2
    <3> QED
      BY <2>1, <2>2, <3>3, SameSeq
  <2> QED
    BY <2>1, <2>3, <2>4
<1> QED
  BY <1>1, LoopInvHolds, PTL

\* In a program that traverses its lists the calls keep all they promise, too.
THEOREM LoopsKeepLists ==
  ~SwapPredecessor /\ LoopSpec =>
    /\ [](TypeOK /\ DoublyLinked)
    /\ RefinesRings
    /\ CallsKeepPromises
BY LoopsCallLists, ListsStayWhole, ListsImplementRings, CallsDoAsNamed
=============================================================================
