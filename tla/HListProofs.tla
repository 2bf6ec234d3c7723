---------------------------- MODULE HListProofs -----------------------------
(***************************************************************************)
(* Theorems about HList, for every set of heads and nodes: the forward and *)
(* the backward pointers of the chains agree, and each call changes the    *)
(* chains as its name says.                                                *)
(***************************************************************************)
EXTENDS HList, FiniteSetTheorems, WellFoundedInduction, TLAPS

LEMMA InitTypeOK == Init => TypeOK /\ WellLinked
BY DEF Init, TypeOK, WellLinked, Places

\* hlist_add_head and hlist_add_next both put an item behind a place.
LEMMA InsertKeepsLinks ==
  ASSUME TypeOK, WellLinked, ~prevUsed, NEW item \in Nodes \ on,
         NEW p \in Heads \cup on,
         pprev' = [x \in Nodes |-> IF x = item THEN p
                                   ELSE IF x = next[p] THEN item ELSE pprev[x]],
         next' = [next EXCEPT ![item] = next[p], ![p] = item],
         on' = on \cup {item}, prevUsed' = prevUsed
  PROVE  TypeOK' /\ WellLinked'
<1>1. item # p /\ item \in Places /\ p \in Places /\ item # NULL
  BY PlacesAssumption DEF TypeOK, Places
<1>2. \A q \in Places : next'[q] = IF q = p THEN item
                                   ELSE IF q = item THEN next[p] ELSE next[q]
  BY <1>1 DEF TypeOK
<1>3. TypeOK'
  BY <1>1 DEF TypeOK, Places
<1>4. next[p] = NULL \/ next[p] \in on
  BY DEF WellLinked
<1>5. WellLinked'
  BY <1>1, <1>2, <1>4, PlacesAssumption DEF WellLinked, TypeOK, Places
<1> QED
  BY <1>3, <1>5

LEMMA DelKeepsLinks ==
  ASSUME TypeOK, WellLinked, ~prevUsed, NEW node \in Nodes, Del(node)
  PROVE  TypeOK' /\ WellLinked'
<1>1. /\ node \in on /\ pprev[node] \in Heads \cup on /\ next[pprev[node]] = node
      /\ next[node] # NULL => next[node] \in on /\ pprev[next[node]] = node
  BY DEF Del, WellLinked
<1>2. \A q \in Places : next'[q] = IF q = pprev[node] THEN next[node] ELSE next[q]
  BY <1>1 DEF Del, TypeOK, Places
<1>3. TypeOK'
  BY <1>1 DEF Del, TypeOK, Places
<1>4. WellLinked'
  BY <1>1, <1>2, PlacesAssumption DEF Del, WellLinked, TypeOK, Places
<1> QED
  BY <1>3, <1>4

LEMMA ReheadKeepsLinks ==
  ASSUME TypeOK, WellLinked, ~prevUsed, NEW g \in Heads, NEW h \in Heads, Rehead(g, h)
  PROVE  TypeOK' /\ WellLinked'
<1>1. \A q \in Places : next'[q] = IF q = g THEN NULL
                                   ELSE IF q = h THEN next[g] ELSE next[q]
  BY DEF Rehead, TypeOK, Places
<1>2. TypeOK'
  BY DEF Rehead, TypeOK, Places
<1>3. next[g] # NULL => next[g] \in on /\ pprev[next[g]] = g
  BY DEF WellLinked
<1>4. WellLinked'
  BY <1>1, <1>3, PlacesAssumption DEF Rehead, WellLinked, TypeOK, Places
<1> QED
  BY <1>2, <1>4

LEMMA AddPrevTypeOK ==
  ASSUME TypeOK, WellLinked, ~prevUsed, NEW x \in Nodes, NEW y \in Nodes, AddPrev(x, y)
  PROVE  TypeOK' /\ WellLinked'
<1>1. pprev[y] \in Places
  BY DEF AddPrev, WellLinked, Places, TypeOK
<1>2. TypeOK'
  BY <1>1 DEF AddPrev, TypeOK, Places
<1> QED
  BY <1>2 DEF AddPrev, WellLinked

LEMMA NextKeepsLinks == TypeOK /\ WellLinked /\ [Next]_vars => TypeOK' /\ WellLinked'
<1> SUFFICES ASSUME TypeOK, WellLinked, [Next]_vars PROVE TypeOK' /\ WellLinked'
  OBVIOUS
<1>1. CASE UNCHANGED vars
  BY <1>1 DEF vars, TypeOK, WellLinked
<1>2. CASE Next
  <2>0. ~prevUsed
    BY <1>2 DEF Next
  <2>1. ASSUME NEW x \in Nodes, NEW h \in Heads, AddHead(x, h)
        PROVE  TypeOK' /\ WellLinked'
    <3>1. x \in Nodes \ on /\ h \in Heads \cup on /\ prevUsed' = prevUsed
      BY <2>1 DEF AddHead
    <3>2. next' = [next EXCEPT ![x] = next[h], ![h] = x] /\ on' = on \cup {x}
      BY <2>1 DEF AddHead
    <3>3. pprev' = [z \in Nodes |-> IF z = x THEN h
                                    ELSE IF z = next[h] THEN x ELSE pprev[z]]
      BY <2>1 DEF AddHead
    <3> QED
      BY <2>0, <3>1, <3>2, <3>3, InsertKeepsLinks
  <2>2. ASSUME NEW x \in Nodes, NEW y \in Nodes, AddNext(x, y)
        PROVE  TypeOK' /\ WellLinked'
    <3>1. x \in Nodes \ on /\ y \in Heads \cup on /\ prevUsed' = prevUsed
      BY <2>2 DEF AddNext
    <3>2. next' = [next EXCEPT ![x] = next[y], ![y] = x] /\ on' = on \cup {x}
      BY <2>2 DEF AddNext
    <3>3. pprev' = [z \in Nodes |-> IF z = x THEN y
                                    ELSE IF z = next[y] THEN x ELSE pprev[z]]
      BY <2>2 DEF AddNext
    <3> QED
      BY <2>0, <3>1, <3>2, <3>3, InsertKeepsLinks
  <2>3. ASSUME NEW x \in Nodes, NEW y \in Nodes, AddPrev(x, y)
        PROVE  TypeOK' /\ WellLinked'
    BY <2>0, <2>3, AddPrevTypeOK
  <2>4. ASSUME NEW x \in Nodes, Del(x)
        PROVE  TypeOK' /\ WellLinked'
    BY <2>0, <2>4, DelKeepsLinks
  <2>5. ASSUME NEW g \in Heads, NEW h \in Heads, Rehead(g, h)
        PROVE  TypeOK' /\ WellLinked'
    BY <2>0, <2>5, ReheadKeepsLinks
  <2> QED
    BY <1>2, <2>1, <2>2, <2>3, <2>4, <2>5 DEF Next
<1> QED
  BY <1>1, <1>2

\* Until hlist_add_prev is called, a place leads to a node exactly when the node
\* points back at it.
THEOREM ChainsStayLinked == Spec => [](TypeOK /\ WellLinked)
BY NextKeepsLinks, InitTypeOK, PTL DEF Spec

-----------------------------------------------------------------------------
(* Sequences of nodes.                                                     *)

LEMMA SameSeq ==
  ASSUME NEW S, NEW a \in Seq(S), NEW b \in Seq(S), Len(a) = Len(b),
         \A i \in 1..Len(a) : a[i] = b[i]
  PROVE  a = b
OBVIOUS

LEMMA ConcatIs ==
  ASSUME NEW S, NEW a \in Seq(S), NEW b \in Seq(S)
  PROVE  /\ a \o b \in Seq(S) /\ Len(a \o b) = Len(a) + Len(b)
         /\ \A i \in 1..Len(a) + Len(b) :
              (a \o b)[i] = IF i <= Len(a) THEN a[i] ELSE b[i - Len(a)]
OBVIOUS

LEMMA SubSeqIs ==
  ASSUME NEW S, NEW s \in Seq(S), NEW i \in 1..Len(s) + 1, NEW j \in i - 1..Len(s)
  PROVE  /\ SubSeq(s, i, j) \in Seq(S) /\ Len(SubSeq(s, i, j)) = j - i + 1
         /\ \A k \in 1..j - i + 1 : SubSeq(s, i, j)[k] = s[i + k - 1]
OBVIOUS

\* s holds each node once.
Once(s) == s \in Seq(Nodes) /\ \A i, j \in 1..Len(s) : s[i] = s[j] => i = j

Members(s) == {s[i] : i \in 1..Len(s)}

\* x comes to stand behind the k-th of s, or first.
Put(s, k, x) == [i \in 1..Len(s) + 1 |-> IF i <= k THEN s[i]
                                         ELSE IF i = k + 1 THEN x ELSE s[i - 1]]

\* The k-th of s is taken out.
Drop(s, k) == [i \in 1..Len(s) - 1 |-> IF i < k THEN s[i] ELSE s[i + 1]]

LEMMA PlaceIs ==
  ASSUME NEW s, Once(s), NEW k \in 1..Len(s)
  PROVE  PlaceOf(s, s[k]) = k /\ Contains(s, s[k])
BY DEF Once, PlaceOf, Contains

LEMMA PutFirst ==
  ASSUME NEW s \in Seq(Nodes), NEW x \in Nodes
  PROVE  <<x>> \o s = Put(s, 0, x)
<1> DEFINE a == <<x>> \o s
           b == Put(s, 0, x)
<1>1. <<x>> \in Seq(Nodes) /\ Len(<<x>>) = 1 /\ <<x>>[1] = x /\ Len(s) \in Nat
  OBVIOUS
<1>2. a \in Seq(Nodes) /\ Len(a) = Len(s) + 1
      /\ \A i \in 1..Len(s) + 1 : a[i] = IF i <= 1 THEN <<x>>[i] ELSE s[i - 1]
  BY <1>1, ConcatIs
<1>3. b \in Seq(Nodes) /\ Len(b) = Len(s) + 1
      /\ \A i \in 1..Len(s) + 1 : b[i] = IF i <= 0 THEN s[i]
                                         ELSE IF i = 0 + 1 THEN x ELSE s[i - 1]
  BY <1>1 DEF Put
<1> HIDE DEF a, b
<1>4. \A i \in 1..Len(a) : a[i] = b[i]
  BY <1>1, <1>2, <1>3
<1>5. a = b
  BY <1>2, <1>3, <1>4, SameSeq
<1> QED
  BY <1>5 DEF a, b

LEMMA PutIs ==
  ASSUME NEW s \in Seq(Nodes), NEW x \in Nodes, NEW k \in 0..Len(s)
  PROVE  InsertAt(s, k + 1, x) = Put(s, k, x)
<1> DEFINE a == SubSeq(s, 1, k)
           b == SubSeq(s, k + 1, Len(s))
           e == a \o <<x>>
           c == e \o b
           d == Put(s, k, x)
<1>1. Len(s) \in Nat /\ k \in Nat /\ k <= Len(s)
  OBVIOUS
<1>2. a \in Seq(Nodes) /\ Len(a) = k /\ \A i \in 1..k : a[i] = s[i]
  <2>1. 1 \in 1..Len(s) + 1 /\ k \in 1 - 1..Len(s) /\ k - 1 + 1 = k
    BY <1>1
  <2>2. a \in Seq(Nodes) /\ Len(a) = k - 1 + 1
        /\ \A i \in 1..k - 1 + 1 : a[i] = s[1 + i - 1]
    BY <2>1, SubSeqIs
  <2> HIDE DEF a
  <2> QED
    BY <2>1, <2>2, <1>1
<1>3. b \in Seq(Nodes) /\ Len(b) = Len(s) - k /\ \A i \in 1..Len(s) - k : b[i] = s[k + i]
  <2>1. k + 1 \in 1..Len(s) + 1 /\ Len(s) \in (k + 1) - 1..Len(s)
        /\ Len(s) - (k + 1) + 1 = Len(s) - k
    BY <1>1
  <2>2. b \in Seq(Nodes) /\ Len(b) = Len(s) - (k + 1) + 1
        /\ \A i \in 1..Len(s) - (k + 1) + 1 : b[i] = s[(k + 1) + i - 1]
    BY <2>1, SubSeqIs
  <2> HIDE DEF b
  <2> QED
    BY <2>1, <2>2, <1>1
<1>4. <<x>> \in Seq(Nodes) /\ Len(<<x>>) = 1 /\ <<x>>[1] = x
  OBVIOUS
<1> HIDE DEF a, b
<1>5. e \in Seq(Nodes) /\ Len(e) = k + 1
      /\ \A i \in 1..k + 1 : e[i] = IF i <= k THEN a[i] ELSE <<x>>[i - k]
  BY <1>2, <1>4, ConcatIs
<1>6. \A i \in 1..k + 1 : e[i] = IF i <= k THEN s[i] ELSE x
  <2> HIDE DEF e
  <2> TAKE i \in 1..k + 1
  <2>1. CASE i <= k
    BY <2>1, <1>1, <1>2, <1>5
  <2>2. CASE i = k + 1
    <3>1. i - k = 1 /\ ~(i <= k)
      BY <2>2, <1>1
    <3> QED
      BY <3>1, <1>4, <1>5
  <2> QED
    BY <2>1, <2>2, <1>1
<1> HIDE DEF e
<1>7. c \in Seq(Nodes) /\ Len(c) = Len(s) + 1
      /\ \A i \in 1..Len(s) + 1 : c[i] = IF i <= k + 1 THEN e[i] ELSE b[i - (k + 1)]
  <2>2. c \in Seq(Nodes) /\ Len(c) = Len(e) + Len(b)
        /\ \A i \in 1..Len(e) + Len(b) : c[i] = IF i <= Len(e) THEN e[i] ELSE b[i - Len(e)]
    BY <1>3, <1>5, ConcatIs
  <2>3. Len(e) + Len(b) = Len(s) + 1
    BY <1>1, <1>3, <1>5
  <2> HIDE DEF c
  <2> QED
    BY <2>2, <2>3, <1>5
<1>8. d \in Seq(Nodes) /\ Len(d) = Len(s) + 1
      /\ \A i \in 1..Len(s) + 1 : d[i] = IF i <= k THEN s[i]
                                         ELSE IF i = k + 1 THEN x ELSE s[i - 1]
  BY <1>1 DEF Put
<1> HIDE DEF c, d, e
<1>9. \A i \in 1..Len(c) : c[i] = d[i]
  <2> TAKE i \in 1..Len(c)
  <2>0. i \in 1..Len(s) + 1
    BY <1>1, <1>7
  <2>1. CASE i <= k + 1
    BY <2>0, <2>1, <1>1, <1>6, <1>7, <1>8
  <2>2. CASE i > k + 1
    <3>1. i - (k + 1) \in 1..Len(s) - k /\ k + (i - (k + 1)) = i - 1
          /\ ~(i <= k) /\ ~(i = k + 1) /\ ~(i <= k + 1)
      BY <2>0, <2>2, <1>1
    <3>2. c[i] = b[i - (k + 1)]
      BY <2>0, <3>1, <1>7
    <3>3. b[i - (k + 1)] = s[i - 1]
      BY <3>1, <1>3
    <3>4. d[i] = s[i - 1]
      BY <2>0, <3>1, <1>8
    <3> QED
      BY <3>2, <3>3, <3>4
  <2> QED
    BY <2>0, <2>1, <2>2, <1>1
<1>10. c = d
  BY <1>1, <1>7, <1>8, <1>9, SameSeq
<1>11. InsertAt(s, k + 1, x) = c
  <2>1. (k + 1) - 1 = k
    BY <1>1
  <2> QED
    BY <2>1 DEF InsertAt, a, b, c, e
<1> QED
  BY <1>10, <1>11 DEF d

LEMMA DropIs ==
  ASSUME NEW s \in Seq(Nodes), NEW k \in 1..Len(s)
  PROVE  RemoveAt(s, k) = Drop(s, k)
<1> DEFINE a == SubSeq(s, 1, k - 1)
           b == SubSeq(s, k + 1, Len(s))
           c == a \o b
           d == Drop(s, k)
<1>1. Len(s) \in Nat /\ k \in Nat /\ k <= Len(s) /\ k >= 1
  OBVIOUS
<1>2. a \in Seq(Nodes) /\ Len(a) = k - 1 /\ \A i \in 1..k - 1 : a[i] = s[i]
  <2>1. 1 \in 1..Len(s) + 1 /\ k - 1 \in 1 - 1..Len(s) /\ (k - 1) - 1 + 1 = k - 1
    BY <1>1
  <2>2. a \in Seq(Nodes) /\ Len(a) = (k - 1) - 1 + 1
        /\ \A i \in 1..(k - 1) - 1 + 1 : a[i] = s[1 + i - 1]
    BY <2>1, SubSeqIs
  <2> HIDE DEF a
  <2> QED
    BY <2>1, <2>2, <1>1
<1>3. b \in Seq(Nodes) /\ Len(b) = Len(s) - k /\ \A i \in 1..Len(s) - k : b[i] = s[k + i]
  <2>1. k + 1 \in 1..Len(s) + 1 /\ Len(s) \in (k + 1) - 1..Len(s)
        /\ Len(s) - (k + 1) + 1 = Len(s) - k
    BY <1>1
  <2>2. b \in Seq(Nodes) /\ Len(b) = Len(s) - (k + 1) + 1
        /\ \A i \in 1..Len(s) - (k + 1) + 1 : b[i] = s[(k + 1) + i - 1]
    BY <2>1, SubSeqIs
  <2> HIDE DEF b
  <2> QED
    BY <2>1, <2>2, <1>1
<1> HIDE DEF a, b
<1>4. c \in Seq(Nodes) /\ Len(c) = Len(s) - 1
      /\ \A i \in 1..Len(s) - 1 : c[i] = IF i <= k - 1 THEN a[i] ELSE b[i - (k - 1)]
  <2>1. c \in Seq(Nodes) /\ Len(c) = Len(a) + Len(b)
        /\ \A i \in 1..Len(a) + Len(b) : c[i] = IF i <= Len(a) THEN a[i] ELSE b[i - Len(a)]
    BY <1>2, <1>3, ConcatIs
  <2>2. Len(a) + Len(b) = Len(s) - 1
    BY <1>1, <1>2, <1>3
  <2> HIDE DEF c
  <2> QED
    BY <2>1, <2>2, <1>2
<1>5. d \in Seq(Nodes) /\ Len(d) = Len(s) - 1
      /\ \A i \in 1..Len(s) - 1 : d[i] = IF i < k THEN s[i] ELSE s[i + 1]
  BY <1>1 DEF Drop
<1> HIDE DEF c, d
<1>6. \A i \in 1..Len(c) : c[i] = d[i]
  <2> TAKE i \in 1..Len(c)
  <2>0. i \in 1..Len(s) - 1
    BY <1>1, <1>4
  <2>1. CASE i < k
    BY <2>0, <2>1, <1>1, <1>2, <1>4, <1>5
  <2>2. CASE i >= k
    <3>1. i - (k - 1) \in 1..Len(s) - k /\ k + (i - (k - 1)) = i + 1
      BY <2>0, <2>2, <1>1
    <3> QED
      BY <2>0, <2>2, <3>1, <1>1, <1>3, <1>4, <1>5
  <2> QED
    BY <2>0, <2>1, <2>2, <1>1
<1>7. c = d
  BY <1>1, <1>4, <1>5, <1>6, SameSeq
<1>8. RemoveAt(s, k) = c
  BY DEF RemoveAt, a, b, c
<1> QED
  BY <1>7, <1>8 DEF d

-----------------------------------------------------------------------------
(* A walk from a head finds its chain.                                     *)

\* Place i of the chain s of h: the head, and then the nodes.
At(h, s, i) == IF i = 0 THEN h ELSE s[i]

\* The places of the chain s of h lead from each to the next, and the last nowhere.
IsChain(to, h, s) ==
  /\ Once(s)
  /\ \A i \in 0..Len(s) : to[At(h, s, i)] = IF i < Len(s) THEN s[i + 1] ELSE NULL

LEMMA ChainFacts ==
  ASSUME NEW to, NEW h \in Heads, NEW s, IsChain(to, h, s)
  PROVE  /\ s \in Seq(Nodes) /\ Len(s) \in Nat
         /\ \A i \in 1..Len(s) : s[i] \in Nodes /\ s[i] # NULL /\ s[i] \in Members(s)
         /\ \A i, j \in 1..Len(s) : s[i] = s[j] => i = j
         /\ \A i \in 0..Len(s) : /\ At(h, s, i) \in {h} \cup Members(s)
                                 /\ At(h, s, i) # NULL
         /\ Members(s) \subseteq Nodes /\ h \notin Nodes /\ h # NULL
<1>1. s \in Seq(Nodes) /\ Len(s) \in Nat /\ \A i, j \in 1..Len(s) : s[i] = s[j] => i = j
  BY DEF IsChain, Once
<1>2. \A i \in 1..Len(s) : s[i] \in Nodes /\ s[i] # NULL /\ s[i] \in Members(s)
  BY <1>1, PlacesAssumption DEF Members
<1>3. h \notin Nodes /\ h # NULL
  BY PlacesAssumption
<1>4. \A i \in 0..Len(s) : At(h, s, i) \in {h} \cup Members(s) /\ At(h, s, i) # NULL
  BY <1>1, <1>2, <1>3 DEF At
<1>5. Members(s) \subseteq Nodes
  BY <1>2 DEF Members
<1> QED
  BY <1>1, <1>2, <1>3, <1>4, <1>5

\* A set of natural numbers that is not empty has a least member.
LEMMA LeastNatural ==
  ASSUME NEW T \in SUBSET Nat, T # {}
  PROVE  \E x \in T : \A y \in T : x <= y
<1> DEFINE R == {ss \in Nat \X Nat : ss[1] < ss[2]}
<1>1. OpToRel(<, Nat) = R
  BY DEF OpToRel
<1>2. IsWellFoundedOn(R, Nat)
  BY <1>1, NatLessThanWellFounded
<1>3. \A x, y \in Nat : y < x => <<y, x>> \in R
  OBVIOUS
<1>4. PICK x \in T : \A y \in T : <<y, x>> \notin R
  <2> HIDE DEF R
  <2> QED
    BY <1>2, WFMin
<1> HIDE DEF R
<1>5. \A y \in T : ~(y < x)
  BY <1>3, <1>4
<1> QED
  BY <1>5

\* What the recursion of a walk comes down to.
IsMet(at, to, h) ==
  at = [i \in 0..Cardinality(Nodes) + 1 |->
          IF i = 0 THEN h ELSE IF at[i - 1] = NULL THEN NULL ELSE to[at[i - 1]]]

LEMMA MetIs ==
  ASSUME NEW to, NEW h, NEW w, IsMet(w, to, h)
  PROVE  IsMet(Met(to, h), to, h)
BY DEF Met, IsMet

LEMMA UpTo ==
  ASSUME NEW n \in Nat
  PROVE  IsFiniteSet(1..n) /\ Cardinality(1..n) = n
<1>1. IsFiniteSet(1..n) /\ Cardinality(1..n) = IF 1 > n THEN 0 ELSE n - 1 + 1
  BY FS_Interval
<1> QED
  BY <1>1

\* A chain has no more nodes than there are.
LEMMA ChainFits ==
  ASSUME NEW s, Once(s)
  PROVE  Len(s) \in 0..Cardinality(Nodes) /\ Cardinality(Nodes) \in Nat
<1>1. s \in Seq(Nodes) /\ Len(s) \in Nat
      /\ \A i, j \in 1..Len(s) : s[i] = s[j] => i = j
  BY DEF Once
<1>2. Cardinality(Nodes) \in Nat
  BY NodesFinite, FS_CardinalityType
<1>3. s \in Injection(1..Len(s), Nodes)
  BY <1>1 DEF Injection, IsInjective
<1>4. IsFiniteSet(1..Len(s)) /\ Cardinality(1..Len(s)) = Len(s)
  BY <1>1, UpTo
<1>5. Cardinality(1..Len(s)) <= Cardinality(Nodes)
  BY <1>3, NodesFinite, FS_Injection
<1> QED
  BY <1>1, <1>2, <1>4, <1>5

LEMMA WalkFindsChain ==
  ASSUME NEW to, NEW h \in Heads, NEW s, IsChain(to, h, s)
  PROVE  ChainIn(to, h) = s
<1> DEFINE N == Cardinality(Nodes)
           len == Len(s)
           at == Met(to, h)
           w == [i \in 0..N + 1 |-> IF i <= len THEN At(h, s, i) ELSE NULL]
<1>1. s \in Seq(Nodes) /\ len \in 0..N /\ N \in Nat /\ len \in Nat
  <2>1. s \in Seq(Nodes) /\ Once(s)
    BY DEF IsChain, Once
  <2> QED
    BY <2>1, ChainFits
<1>2. \A i \in 0..len : At(h, s, i) # NULL
  BY ChainFacts
<1>3. \A i \in 0..len : to[At(h, s, i)] = IF i < len THEN At(h, s, i + 1) ELSE NULL
  BY <1>1 DEF IsChain, At
<1>4. IsMet(w, to, h)
  <2> DEFINE e(i) == IF i = 0 THEN h
                     ELSE IF w[i - 1] = NULL THEN NULL ELSE to[w[i - 1]]
  <2>0. SUFFICES ASSUME NEW i \in 0..N + 1
                 PROVE  (IF i <= len THEN At(h, s, i) ELSE NULL) = e(i)
    <3>1. \A i \in 0..N + 1 : (IF i <= len THEN At(h, s, i) ELSE NULL) = e(i)
      BY <2>0
    <3> HIDE DEF e
    <3>2. w = [i \in 0..N + 1 |-> e(i)]
      BY <3>1
    <3> QED
      BY <3>2 DEF IsMet, e
  <2>1. CASE i = 0
    BY <2>1, <1>1 DEF At
  <2>2. CASE i # 0
    <3>1. i - 1 \in 0..N + 1 /\ (i - 1) + 1 = i
      BY <2>2, <1>1
    <3>2. w[i - 1] = IF i - 1 <= len THEN At(h, s, i - 1) ELSE NULL
      BY <3>1
    <3> HIDE DEF w
    <3>3. CASE i <= len
      <4>1. i - 1 \in 0..len /\ i - 1 < len /\ i - 1 <= len
        BY <3>1, <3>3, <1>1
      <4>2. w[i - 1] # NULL /\ to[w[i - 1]] = At(h, s, i)
        BY <3>1, <3>2, <4>1, <1>2, <1>3
      <4> QED
        BY <2>2, <3>3, <4>2
    <3>4. CASE i = len + 1
      <4>1. i - 1 \in 0..len /\ ~(i - 1 < len) /\ i - 1 <= len /\ ~(i <= len)
        BY <3>1, <3>4, <1>1
      <4>2. to[w[i - 1]] = NULL
        BY <3>2, <4>1, <1>3
      <4> QED
        BY <2>2, <4>1, <4>2
    <3>5. CASE i > len + 1
      <4>1. ~(i - 1 <= len) /\ ~(i <= len)
        BY <3>1, <3>5, <1>1
      <4> QED
        BY <2>2, <3>2, <4>1
    <3> QED
      BY <3>3, <3>4, <3>5, <1>1
  <2> QED
    BY <2>1, <2>2
<1>5. IsMet(at, to, h)
  BY <1>4, MetIs
<1>6. \A i \in 0..N + 1 :
        at[i] = IF i = 0 THEN h ELSE IF at[i - 1] = NULL THEN NULL ELSE to[at[i - 1]]
  BY <1>5 DEF IsMet
<1>7. \A i \in 0..N + 1 :
        w[i] = IF i = 0 THEN h ELSE IF w[i - 1] = NULL THEN NULL ELSE to[w[i - 1]]
  BY <1>4 DEF IsMet
<1>8. \A i \in 0..N + 1 : w[i] = IF i <= len THEN At(h, s, i) ELSE NULL
  OBVIOUS
<1> HIDE DEF at, w
<1>9. \A i \in 0..N + 1 : at[i] = w[i]
  <2> DEFINE Bad == {i \in 0..N + 1 : at[i] # w[i]}
  <2>1. SUFFICES ASSUME Bad # {} PROVE FALSE
    OBVIOUS
  <2>2. PICK i \in Bad : \A j \in Bad : i <= j
    <3>1. Bad \in SUBSET Nat
      BY <1>1
    <3> QED
      BY <2>1, <3>1, LeastNatural
  <2>3. i \in 0..N + 1 /\ at[i] # w[i]
    BY <2>2
  <2>4. i # 0
    BY <2>3, <1>6, <1>7
  <2>5. i - 1 \in 0..N + 1 /\ i - 1 \notin Bad
    BY <2>2, <2>3, <2>4, <1>1
  <2>6. at[i - 1] = w[i - 1]
    BY <2>5
  <2> QED
    BY <2>3, <2>4, <2>6, <1>6, <1>7
<1>10. {i \in 1..N + 1 : at[i] # NULL} = 1..len
  <2>1. \A i \in 1..N + 1 : i \in 0..N + 1 /\ (i <= len => i \in 0..len)
    BY <1>1
  <2>2. \A i \in 1..N + 1 : at[i] # NULL <=> i <= len
    BY <2>1, <1>2, <1>8, <1>9
  <2> QED
    BY <2>2, <1>1
<1>11. Cardinality(1..len) = len
  BY <1>1, UpTo
<1>12. ChainIn(to, h) = [i \in 1..len |-> at[i]]
  BY <1>10, <1>11 DEF ChainIn, at
<1>13. \A i \in 1..len : at[i] = s[i]
  <2> TAKE i \in 1..len
  <2>1. i \in 0..N + 1 /\ i <= len /\ i # 0
    BY <1>1
  <2> QED
    BY <2>1, <1>8, <1>9 DEF At
<1>14. ChainIn(to, h) = [i \in 1..len |-> s[i]]
  BY <1>12, <1>13
<1> QED
  BY <1>1, <1>14

-----------------------------------------------------------------------------
(* Chains that share no node.                                              *)

\* c is the chains of all heads: nodes of L, each on one chain at most.
Chained(to, L, c) ==
  /\ c \in [Heads -> Seq(Nodes)]
  /\ \A h \in Heads : IsChain(to, h, c[h]) /\ Members(c[h]) \subseteq L
  /\ \A g, h \in Heads : g # h => Members(c[g]) \cap Members(c[h]) = {}

LEMMA ChainsAre ==
  ASSUME NEW to, NEW L, NEW c, Chained(to, L, c), NEW h \in Heads
  PROVE  ChainIn(to, h) = c[h]
BY WalkFindsChain DEF Chained

\* No place is on two chains.
LEMMA PlacesApart ==
  ASSUME NEW to, NEW L, NEW c, Chained(to, L, c), NEW g \in Heads, NEW h \in Heads,
         NEW i \in 0..Len(c[g]), NEW j \in 0..Len(c[h]),
         At(g, c[g], i) = At(h, c[h], j)
  PROVE  g = h /\ i = j
<1>1. IsChain(to, g, c[g]) /\ IsChain(to, h, c[h])
      /\ (g # h => Members(c[g]) \cap Members(c[h]) = {})
  BY DEF Chained
<1>2. /\ Len(c[g]) \in Nat /\ g \notin Nodes
      /\ \A k \in 1..Len(c[g]) : c[g][k] \in Nodes /\ c[g][k] \in Members(c[g])
      /\ \A k, l \in 1..Len(c[g]) : c[g][k] = c[g][l] => k = l
  BY <1>1, ChainFacts
<1>3. /\ Len(c[h]) \in Nat /\ h \notin Nodes
      /\ \A k \in 1..Len(c[h]) : c[h][k] \in Nodes /\ c[h][k] \in Members(c[h])
  BY <1>1, ChainFacts
<1>4. CASE i = 0
  <2>1. At(g, c[g], i) = g
    BY <1>4 DEF At
  <2>2. j = 0
    BY <2>1, <1>2, <1>3 DEF At
  <2> QED
    BY <1>4, <2>1, <2>2 DEF At
<1>5. CASE i # 0
  <2>1. At(g, c[g], i) = c[g][i] /\ i \in 1..Len(c[g])
    BY <1>5, <1>2 DEF At
  <2>2. j # 0
    BY <2>1, <1>2, <1>3 DEF At
  <2>3. At(h, c[h], j) = c[h][j] /\ j \in 1..Len(c[h])
    BY <2>2, <1>3 DEF At
  <2>4. g = h
    BY <2>1, <2>3, <1>1, <1>2, <1>3
  <2> QED
    BY <2>1, <2>3, <2>4, <1>2
<1> QED
  BY <1>4, <1>5

\* A chain none of whose places is written stays.
LEMMA ChainStays ==
  ASSUME NEW to, NEW other, NEW h, NEW s, IsChain(to, h, s),
         \A i \in 0..Len(s) : other[At(h, s, i)] = to[At(h, s, i)]
  PROVE  IsChain(other, h, s)
BY DEF IsChain

\* When one chain changes.
WithChain(c, g, t) == [h \in Heads |-> IF h = g THEN t ELSE c[h]]

LEMMA OneChainChanges ==
  ASSUME NEW to, NEW L, NEW c, Chained(to, L, c), NEW g \in Heads, NEW other,
         \A h \in Heads \ {g} : \A i \in 0..Len(c[h]) :
           other[At(h, c[h], i)] = to[At(h, c[h], i)],
         NEW M, \A h \in Heads \ {g} : Members(c[h]) \subseteq M,
         NEW t, IsChain(other, g, t), Members(t) \subseteq M,
         \A h \in Heads \ {g} : Members(t) \cap Members(c[h]) = {}
  PROVE  Chained(other, M, WithChain(c, g, t))
<1> DEFINE d == WithChain(c, g, t)
<1>1. d[g] = t /\ DOMAIN d = Heads /\ \A h \in Heads \ {g} : d[h] = c[h]
  BY DEF WithChain
<1> HIDE DEF d
<1>2. ASSUME NEW h \in Heads \ {g} PROVE IsChain(other, h, c[h])
  <2>1. IsChain(to, h, c[h])
    BY DEF Chained
  <2> QED
    BY <2>1, ChainStays
<1>3. \A h \in Heads : IsChain(other, h, d[h]) /\ Members(d[h]) \subseteq M
  BY <1>1, <1>2
<1>6. d \in [Heads -> Seq(Nodes)]
  <2>1. t \in Seq(Nodes)
    BY DEF IsChain, Once
  <2> QED
    BY <2>1 DEF Chained, WithChain, d
<1>4. \A f, h \in Heads : f # h => Members(d[f]) \cap Members(d[h]) = {}
  BY <1>1 DEF Chained
<1>5. Chained(other, M, d)
  BY <1>3, <1>4, <1>6 DEF Chained
<1> QED
  BY <1>5 DEF d

-----------------------------------------------------------------------------
(* What the assignments to the pointers do to the chains.                  *)

\* Only the pointers of the places in Q are written.
SameBut(to, other, L, Q) == \A p \in (Heads \cup L) \ Q : other[p] = to[p]

\* hlist_add_head and hlist_add_next: x comes behind place k of the chain of g.
LEMMA PutsBehindPlace ==
  ASSUME NEW to, NEW L \in SUBSET Nodes, NEW c, Chained(to, L, c),
         NEW g \in Heads, NEW k \in 0..Len(c[g]), NEW x \in Nodes \ L,
         NEW q, q = At(g, c[g], k),
         NEW other, other[q] = x, other[x] = to[q],
         SameBut(to, other, L, {q})
  PROVE  Chained(other, L \cup {x}, WithChain(c, g, Put(c[g], k, x)))
<1> DEFINE s == c[g]
           t == Put(s, k, x)
           n == Len(s)
<1>1. IsChain(to, g, s) /\ Members(s) \subseteq L
  BY DEF Chained
<1>2. /\ s \in Seq(Nodes) /\ n \in Nat /\ k \in Nat /\ k <= n
      /\ \A i \in 1..n : s[i] \in Nodes /\ s[i] \in L /\ s[i] \in Members(s)
      /\ \A i, j \in 1..n : s[i] = s[j] => i = j
      /\ g \notin Nodes
  <2>1. /\ s \in Seq(Nodes) /\ n \in Nat /\ g \notin Nodes
        /\ \A i \in 1..n : s[i] \in Nodes /\ s[i] \in Members(s)
        /\ \A i, j \in 1..n : s[i] = s[j] => i = j
    BY <1>1, ChainFacts
  <2>2. k \in 0..n
    OBVIOUS
  <2> HIDE DEF s, n
  <2>3. \A i \in 1..n : s[i] \in L
    BY <2>1, <1>1
  <2> QED
    BY <2>1, <2>2, <2>3
<1>3. \A i \in 0..n : to[At(g, s, i)] = IF i < n THEN s[i + 1] ELSE NULL
  BY <1>1 DEF IsChain
<1>4. ASSUME NEW h \in Heads, NEW i \in 0..Len(c[h]), h # g \/ i # k
      PROVE  other[At(h, c[h], i)] = to[At(h, c[h], i)]
  <2>1. At(h, c[h], i) # q
    <3>1. At(h, c[h], i) = At(g, c[g], k) => h = g /\ i = k
      BY PlacesApart
    <3> QED
      BY <1>4, <3>1
  <2>2. At(h, c[h], i) \in Heads \cup L
    BY ChainFacts DEF Chained
  <2> QED
    BY <2>1, <2>2 DEF SameBut
<1>5. /\ t \in Seq(Nodes) /\ Len(t) = n + 1
      /\ \A i \in 1..n + 1 : t[i] = IF i <= k THEN s[i]
                                    ELSE IF i = k + 1 THEN x ELSE s[i - 1]
  BY <1>2 DEF Put
<1> HIDE DEF t, n, s
<1>6. Once(t)
  <2> SUFFICES ASSUME NEW i \in 1..n + 1, NEW j \in 1..n + 1, t[i] = t[j], i < j
               PROVE  FALSE
    BY <1>2, <1>5 DEF Once
  <2>1. CASE i <= k
    <3>1. i \in 1..n /\ t[i] = s[i]
      BY <2>1, <1>2, <1>5
    <3>2. j <= k => j \in 1..n /\ t[j] = s[j]
      BY <1>2, <1>5
    <3>3. ~(j <= k) /\ j # k + 1 => j - 1 \in 1..n /\ t[j] = s[j - 1] /\ j - 1 # i
      BY <2>1, <1>2, <1>5
    <3>4. j = k + 1 => t[j] = x
      BY <1>2, <1>5
    <3> QED
      BY <3>1, <3>2, <3>3, <3>4, <1>2
  <2>2. CASE i = k + 1
    <3>1. j - 1 \in 1..n /\ ~(j <= k) /\ ~(j = k + 1)
      BY <2>2, <1>2
    <3>2. t[i] = x /\ t[j] = s[j - 1]
      BY <2>2, <3>1, <1>2, <1>5
    <3>3. s[j - 1] \in L
      BY <3>1, <1>2
    <3> QED
      BY <3>2, <3>3
  <2>3. CASE i > k + 1
    <3>1. i - 1 \in 1..n /\ j - 1 \in 1..n /\ i - 1 # j - 1
          /\ ~(i <= k) /\ ~(i = k + 1) /\ ~(j <= k) /\ ~(j = k + 1)
      BY <2>3, <1>2
    <3>2. t[i] = s[i - 1] /\ t[j] = s[j - 1]
      BY <3>1, <1>5
    <3>3. s[i - 1] # s[j - 1]
      BY <3>1, <1>2
    <3> QED
      BY <3>2, <3>3
  <2> QED
    BY <2>1, <2>2, <2>3, <1>2
<1>7. ASSUME NEW i \in 0..n + 1
      PROVE  other[At(g, t, i)] = IF i < n + 1 THEN t[i + 1] ELSE NULL
  <2>1. CASE i < k
    <3>1. i \in 0..n /\ i # k /\ i < n /\ i + 1 <= k /\ i + 1 \in 1..n + 1 /\ i < n + 1
      BY <2>1, <1>2
    <3>2. At(g, t, i) = At(g, s, i)
      BY <2>1, <1>2, <1>5 DEF At
    <3>3. other[At(g, s, i)] = to[At(g, s, i)]
      BY <3>1, <1>4 DEF s, n
    <3> QED
      BY <3>1, <3>2, <3>3, <1>3, <1>5
  <2>2. CASE i = k
    <3>1. At(g, t, i) = At(g, s, k)
      BY <2>2, <1>2, <1>5 DEF At
    <3>2. k + 1 \in 1..n + 1 /\ ~(k + 1 <= k) /\ k < n + 1
      BY <1>2
    <3>3. t[k + 1] = x
      BY <3>2, <1>5
    <3> QED
      BY <2>2, <3>1, <3>2, <3>3 DEF s
  <2>3. CASE i = k + 1
    <3>1. i \in 1..n + 1 /\ ~(i <= k) /\ i # 0 /\ k \in 0..n
      BY <2>3, <1>2
    <3>2. At(g, t, i) = x
      BY <2>3, <3>1, <1>5 DEF At
    <3>3. other[x] = IF k < n THEN s[k + 1] ELSE NULL
      BY <3>1, <1>3 DEF s
    <3>4. k < n => t[i + 1] = s[k + 1]
      <4>1. k < n => i + 1 \in 1..n + 1 /\ ~(i + 1 <= k) /\ ~(i + 1 = k + 1)
                     /\ (i + 1) - 1 = k + 1
        BY <2>3, <1>2
      <4> QED
        BY <4>1, <1>5
    <3>5. i < n + 1 <=> k < n
      BY <2>3, <1>2
    <3> QED
      BY <3>2, <3>3, <3>4, <3>5
  <2>4. CASE i > k + 1
    <3>1. i \in 1..n + 1 /\ ~(i <= k) /\ ~(i = k + 1) /\ i # 0 /\ i - 1 \in 0..n
          /\ i - 1 # 0 /\ i - 1 # k
      BY <2>4, <1>2
    <3>2. At(g, t, i) = At(g, s, i - 1)
      BY <3>1, <1>5 DEF At
    <3>3. other[At(g, s, i - 1)] = to[At(g, s, i - 1)]
      BY <3>1, <1>4 DEF s, n
    <3>4. i - 1 < n => t[i + 1] = s[i]
      <4>1. i - 1 < n => i + 1 \in 1..n + 1 /\ ~(i + 1 <= k) /\ ~(i + 1 = k + 1)
                         /\ (i + 1) - 1 = i
        BY <2>4, <1>2
      <4> QED
        BY <4>1, <1>5
    <3>5. (i < n + 1 <=> i - 1 < n) /\ (i - 1) + 1 = i
      BY <1>2
    <3> QED
      BY <3>1, <3>2, <3>3, <3>4, <3>5, <1>3
  <2> QED
    BY <2>1, <2>2, <2>3, <2>4, <1>2
<1>8. IsChain(other, g, t)
  BY <1>5, <1>6, <1>7 DEF IsChain
<1>9. Members(t) \subseteq Members(s) \cup {x}
  <2> SUFFICES ASSUME NEW i \in 1..n + 1 PROVE t[i] \in Members(s) \cup {x}
    BY <1>5 DEF Members
  <2> QED
    BY <1>2, <1>5
<1>10. \A h \in Heads \ {g} : /\ Members(t) \cap Members(c[h]) = {}
                              /\ Members(c[h]) \subseteq L \cup {x}
  BY <1>9 DEF Chained, s
<1>11. \A h \in Heads \ {g} : \A i \in 0..Len(c[h]) :
         other[At(h, c[h], i)] = to[At(h, c[h], i)]
  BY <1>4
<1>12. Members(t) \subseteq L \cup {x}
  BY <1>1, <1>9
<1>13. Chained(other, L \cup {x}, WithChain(c, g, t))
  BY <1>8, <1>10, <1>11, <1>12, OneChainChanges
<1> QED
  BY <1>13 DEF t, s

\* hlist_del: place k of the chain of g is taken out.
LEMMA TakesOutPlace ==
  ASSUME NEW to, NEW L \in SUBSET Nodes, NEW c, Chained(to, L, c),
         NEW g \in Heads, NEW k \in 1..Len(c[g]),
         NEW x, x = c[g][k], NEW q, q = At(g, c[g], k - 1),
         NEW other, other[q] = to[x],
         SameBut(to, other, L, {q})
  PROVE  Chained(other, L \ {x}, WithChain(c, g, Drop(c[g], k)))
<1> DEFINE s == c[g]
           t == Drop(s, k)
           n == Len(s)
<1>1. IsChain(to, g, s) /\ Members(s) \subseteq L
  BY DEF Chained
<1>2. /\ s \in Seq(Nodes) /\ n \in Nat /\ k \in Nat /\ k <= n /\ k >= 1 /\ k - 1 \in 0..n
      /\ \A i \in 1..n : s[i] \in Nodes /\ s[i] \in L /\ s[i] \in Members(s)
      /\ \A i, j \in 1..n : s[i] = s[j] => i = j
      /\ g \notin Nodes
  <2>1. /\ s \in Seq(Nodes) /\ n \in Nat /\ g \notin Nodes
        /\ \A i \in 1..n : s[i] \in Nodes /\ s[i] \in Members(s)
        /\ \A i, j \in 1..n : s[i] = s[j] => i = j
    BY <1>1, ChainFacts
  <2>2. k \in 1..n
    OBVIOUS
  <2> HIDE DEF s, n
  <2>3. \A i \in 1..n : s[i] \in L
    BY <2>1, <1>1
  <2> QED
    BY <2>1, <2>2, <2>3
<1>3. \A i \in 0..n : to[At(g, s, i)] = IF i < n THEN s[i + 1] ELSE NULL
  BY <1>1 DEF IsChain
<1>4. ASSUME NEW h \in Heads, NEW i \in 0..Len(c[h]), h # g \/ i # k - 1
      PROVE  other[At(h, c[h], i)] = to[At(h, c[h], i)]
  <2>1. At(h, c[h], i) # q
    <3>1. k - 1 \in 0..Len(c[g])
      BY <1>2
    <3>2. At(h, c[h], i) = At(g, c[g], k - 1) => h = g /\ i = k - 1
      BY <3>1, PlacesApart
    <3> QED
      BY <1>4, <3>2
  <2>2. At(h, c[h], i) \in Heads \cup L
    BY ChainFacts DEF Chained
  <2> QED
    BY <2>1, <2>2 DEF SameBut
<1>5. /\ t \in Seq(Nodes) /\ Len(t) = n - 1 /\ n - 1 \in Nat
      /\ \A i \in 1..n - 1 : t[i] = IF i < k THEN s[i] ELSE s[i + 1]
  BY <1>2 DEF Drop
<1>6. to[x] = IF k < n THEN s[k + 1] ELSE NULL
  <2>1. At(g, s, k) = x /\ k \in 0..n
    BY <1>2 DEF At
  <2> QED
    BY <2>1, <1>3
<1> HIDE DEF t, n, s
<1>7. Once(t)
  <2> SUFFICES ASSUME NEW i \in 1..n - 1, NEW j \in 1..n - 1, t[i] = t[j], i < j
               PROVE  FALSE
    BY <1>2, <1>5 DEF Once
  <2>1. CASE j < k
    <3>1. i \in 1..n /\ j \in 1..n /\ i # j /\ i < k
      BY <2>1, <1>2
    <3>2. t[i] = s[i] /\ t[j] = s[j]
      BY <2>1, <3>1, <1>5
    <3>3. s[i] # s[j]
      BY <3>1, <1>2
    <3> QED
      BY <3>2, <3>3
  <2>2. CASE i >= k
    <3>1. i + 1 \in 1..n /\ j + 1 \in 1..n /\ i + 1 # j + 1 /\ ~(i < k) /\ ~(j < k)
      BY <2>2, <1>2
    <3>2. t[i] = s[i + 1] /\ t[j] = s[j + 1]
      BY <3>1, <1>5
    <3>3. s[i + 1] # s[j + 1]
      BY <3>1, <1>2
    <3> QED
      BY <3>2, <3>3
  <2>3. CASE i < k /\ j >= k
    <3>1. i \in 1..n /\ j + 1 \in 1..n /\ i # j + 1 /\ ~(j < k)
      BY <2>3, <1>2
    <3>2. t[i] = s[i] /\ t[j] = s[j + 1]
      BY <2>3, <3>1, <1>5
    <3> QED
      BY <3>1, <3>2, <1>2
  <2> QED
    BY <2>1, <2>2, <2>3, <1>2
<1>8. ASSUME NEW i \in 0..n - 1
      PROVE  other[At(g, t, i)] = IF i < n - 1 THEN t[i + 1] ELSE NULL
  <2>1. CASE i < k - 1
    <3>1. i \in 0..n /\ i # k - 1 /\ i < n /\ i + 1 < k /\ i + 1 \in 1..n - 1 /\ i < n - 1
      BY <2>1, <1>2
    <3>2. At(g, t, i) = At(g, s, i)
      BY <2>1, <3>1, <1>2, <1>5 DEF At
    <3>3. other[At(g, s, i)] = to[At(g, s, i)]
      BY <3>1, <1>4 DEF s, n
    <3> QED
      BY <3>1, <3>2, <3>3, <1>3, <1>5
  <2>2. CASE i = k - 1
    <3>1. At(g, t, i) = At(g, s, k - 1)
      BY <2>2, <1>2, <1>5 DEF At
    <3>2. i < n - 1 <=> k < n
      BY <2>2, <1>2
    <3>3. k < n => t[i + 1] = s[k + 1]
      <4>1. k < n => i + 1 \in 1..n - 1 /\ ~(i + 1 < k) /\ (i + 1) + 1 = k + 1
        BY <2>2, <1>2
      <4> QED
        BY <4>1, <1>5
    <3> QED
      BY <3>1, <3>2, <3>3, <1>6 DEF s
  <2>3. CASE i > k - 1
    <3>1. i \in 1..n - 1 /\ ~(i < k) /\ i # 0 /\ i + 1 \in 0..n /\ i + 1 # 0
          /\ i + 1 # k - 1
      BY <2>3, <1>2
    <3>2. At(g, t, i) = At(g, s, i + 1)
      BY <3>1, <1>5 DEF At
    <3>3. other[At(g, s, i + 1)] = to[At(g, s, i + 1)]
      BY <3>1, <1>4 DEF s, n
    <3>4. i < n - 1 => t[i + 1] = s[(i + 1) + 1]
      <4>1. i < n - 1 => i + 1 \in 1..n - 1 /\ ~(i + 1 < k)
        BY <2>3, <1>2
      <4> QED
        BY <4>1, <1>5
    <3>5. i < n - 1 <=> i + 1 < n
      BY <1>2
    <3> QED
      BY <3>1, <3>2, <3>3, <3>4, <3>5, <1>3
  <2> QED
    BY <2>1, <2>2, <2>3, <1>2
<1>9. IsChain(other, g, t)
  BY <1>5, <1>7, <1>8 DEF IsChain
<1>10. Members(t) \subseteq Members(s) \ {x}
  <2> SUFFICES ASSUME NEW i \in 1..n - 1 PROVE t[i] \in Members(s) \ {x}
    BY <1>5 DEF Members
  <2>1. i \in 1..n /\ i + 1 \in 1..n /\ k \in 1..n /\ x = s[k]
    BY <1>2 DEF s
  <2>2. CASE i < k
    <3>1. t[i] = s[i] /\ i # k
      BY <2>2, <1>2, <1>5
    <3> QED
      BY <2>1, <3>1, <1>2
  <2>3. CASE i >= k
    <3>1. t[i] = s[i + 1] /\ i + 1 # k
      BY <2>3, <1>2, <1>5
    <3> QED
      BY <2>1, <3>1, <1>2
  <2> QED
    BY <2>2, <2>3, <1>2
<1>11. x \in Members(s)
  BY <1>2 DEF s
<1>12. \A h \in Heads \ {g} : /\ Members(t) \cap Members(c[h]) = {}
                              /\ Members(c[h]) \subseteq L \ {x}
  BY <1>10, <1>11 DEF Chained, s
<1>13. \A h \in Heads \ {g} : \A i \in 0..Len(c[h]) :
         other[At(h, c[h], i)] = to[At(h, c[h], i)]
  BY <1>4
<1>14. Members(t) \subseteq L \ {x}
  BY <1>1, <1>10
<1>15. Chained(other, L \ {x}, WithChain(c, g, t))
  BY <1>9, <1>12, <1>13, <1>14, OneChainChanges
<1> QED
  BY <1>15 DEF t, s

\* hlist_add_prev: x comes to stand at place k of the chain of g.
LEMMA TakesPlace ==
  ASSUME NEW to, NEW L \in SUBSET Nodes, NEW c, Chained(to, L, c),
         NEW g \in Heads, NEW k \in 1..Len(c[g]), NEW x \in Nodes \ L,
         NEW y, y = c[g][k], NEW q, q = At(g, c[g], k - 1),
         NEW other, other[q] = x, other[x] = to[y],
         SameBut(to, other, L, {q})
  PROVE  Chained(other, L \cup {x}, WithChain(c, g, ReplaceAll(c[g], y, x)))
<1> DEFINE s == c[g]
           t == ReplaceAll(s, y, x)
           n == Len(s)
<1>1. IsChain(to, g, s) /\ Members(s) \subseteq L
  BY DEF Chained
<1>2. /\ s \in Seq(Nodes) /\ n \in Nat /\ k \in Nat /\ k <= n /\ k >= 1 /\ k - 1 \in 0..n
      /\ \A i \in 1..n : s[i] \in Nodes /\ s[i] \in L /\ s[i] \in Members(s)
      /\ \A i, j \in 1..n : s[i] = s[j] => i = j
      /\ g \notin Nodes
  <2>1. /\ s \in Seq(Nodes) /\ n \in Nat /\ g \notin Nodes
        /\ \A i \in 1..n : s[i] \in Nodes /\ s[i] \in Members(s)
        /\ \A i, j \in 1..n : s[i] = s[j] => i = j
    BY <1>1, ChainFacts
  <2>2. k \in 1..n
    OBVIOUS
  <2> HIDE DEF s, n
  <2>3. \A i \in 1..n : s[i] \in L
    BY <2>1, <1>1
  <2> QED
    BY <2>1, <2>2, <2>3
<1>3. \A i \in 0..n : to[At(g, s, i)] = IF i < n THEN s[i + 1] ELSE NULL
  BY <1>1 DEF IsChain
<1>4. ASSUME NEW h \in Heads, NEW i \in 0..Len(c[h]), h # g \/ i # k - 1
      PROVE  other[At(h, c[h], i)] = to[At(h, c[h], i)]
  <2>1. At(h, c[h], i) # q
    <3>1. k - 1 \in 0..Len(c[g])
      BY <1>2
    <3>2. At(h, c[h], i) = At(g, c[g], k - 1) => h = g /\ i = k - 1
      BY <3>1, PlacesApart
    <3> QED
      BY <1>4, <3>2
  <2>2. At(h, c[h], i) \in Heads \cup L
    BY ChainFacts DEF Chained
  <2> QED
    BY <2>1, <2>2 DEF SameBut
<1>5. y = s[k] /\ k \in 1..n
  OBVIOUS
<1>6. to[y] = IF k < n THEN s[k + 1] ELSE NULL
  <2>1. At(g, s, k) = y /\ k \in 0..n
    BY <1>2 DEF At
  <2> QED
    BY <2>1, <1>3
<1>7. t \in Seq(Nodes) /\ Len(t) = n /\ \A i \in 1..n : t[i] = IF i = k THEN x ELSE s[i]
  <2>1. t = [i \in 1..n |-> IF s[i] = y THEN x ELSE s[i]]
    BY DEF ReplaceAll
  <2> HIDE DEF t, s, n
  <2>2. \A i \in 1..n : s[i] = y <=> i = k
    BY <1>2, <1>5
  <2>3. t = [i \in 1..n |-> IF i = k THEN x ELSE s[i]]
    BY <2>1, <2>2
  <2>4. \A i \in 1..n : t[i] \in Nodes
    BY <2>3, <1>2
  <2>5. DOMAIN t = 1..n
    BY <2>3
  <2>6. t \in Seq(Nodes) /\ Len(t) = n
    BY <2>3, <2>4, <1>2
  <2> QED
    BY <2>3, <2>6
<1> HIDE DEF t, n, s
<1>8. Once(t)
  <2> SUFFICES ASSUME NEW i \in 1..n, NEW j \in 1..n, t[i] = t[j]
               PROVE  i = j
    BY <1>7 DEF Once
  <2> QED
    BY <1>2, <1>7
<1>9. ASSUME NEW i \in 0..n
      PROVE  other[At(g, t, i)] = IF i < n THEN t[i + 1] ELSE NULL
  <2>1. CASE i = k
    <3>1. At(g, t, i) = x
      BY <2>1, <1>2, <1>5, <1>7 DEF At
    <3>2. k < n => k + 1 \in 1..n /\ k + 1 # k
      BY <1>2
    <3>3. k < n => t[k + 1] = s[k + 1]
      BY <3>2, <1>7
    <3> QED
      BY <2>1, <3>1, <3>3, <1>6
  <2>2. CASE i = k - 1
    <3>1. At(g, t, i) = At(g, s, k - 1) /\ i < n /\ i + 1 = k
      BY <2>2, <1>2, <1>7 DEF At
    <3>2. t[k] = x
      BY <1>5, <1>7
    <3> QED
      BY <3>1, <3>2 DEF s
  <2>3. CASE i # k /\ i # k - 1
    <3>1. At(g, t, i) = At(g, s, i)
      BY <2>3, <1>2, <1>7 DEF At
    <3>2. other[At(g, s, i)] = to[At(g, s, i)]
      BY <2>3, <1>4 DEF s, n
    <3>3. i < n => i + 1 \in 1..n /\ i + 1 # k
      BY <2>3, <1>2
    <3>4. i < n => t[i + 1] = s[i + 1]
      BY <3>3, <1>7
    <3> QED
      BY <3>1, <3>2, <3>4, <1>3
  <2> QED
    BY <2>1, <2>2, <2>3
<1>10. IsChain(other, g, t)
  BY <1>7, <1>8, <1>9 DEF IsChain
<1>11. Members(t) \subseteq Members(s) \cup {x}
  <2> SUFFICES ASSUME NEW i \in 1..n PROVE t[i] \in Members(s) \cup {x}
    BY <1>7 DEF Members
  <2> QED
    BY <1>2, <1>7
<1>12. \A h \in Heads \ {g} : /\ Members(t) \cap Members(c[h]) = {}
                              /\ Members(c[h]) \subseteq L \cup {x}
  BY <1>11 DEF Chained, s
<1>13. \A h \in Heads \ {g} : \A i \in 0..Len(c[h]) :
         other[At(h, c[h], i)] = to[At(h, c[h], i)]
  BY <1>4
<1>14. Members(t) \subseteq L \cup {x}
  BY <1>1, <1>11
<1>15. Chained(other, L \cup {x}, WithChain(c, g, t))
  BY <1>10, <1>12, <1>13, <1>14, OneChainChanges
<1> QED
  BY <1>15 DEF t, s

\* When the chain of f becomes that of g.
WithHeads(c, f, g) ==
  [h \in Heads |-> IF h = g THEN c[f] ELSE IF h = f THEN <<>> ELSE c[h]]

\* hlist_rehead: the chain of f becomes the chain of g, which had none.
LEMMA ChangesHeads ==
  ASSUME NEW to, NEW L \in SUBSET Nodes, NEW c, Chained(to, L, c),
         NEW f \in Heads, NEW g \in Heads, f # g, to[g] = NULL,
         NEW other, other[g] = to[f], other[f] = NULL,
         SameBut(to, other, L, {f, g})
  PROVE  Chained(other, L, WithHeads(c, f, g))
<1> DEFINE d == WithHeads(c, f, g)
<1>1. DOMAIN d = Heads /\ d[g] = c[f] /\ d[f] = <<>>
      /\ \A h \in Heads \ {f, g} : d[h] = c[h]
  BY DEF WithHeads
<1> HIDE DEF d
<1>2. Members(<<>>) = {}
  BY DEF Members
<1>3. \A h \in Heads, p \in Heads \cup L : p \in Members(c[h]) => other[p] = to[p]
  <2> SUFFICES ASSUME NEW h \in Heads, NEW p \in Members(c[h]) PROVE other[p] = to[p]
    OBVIOUS
  <2>1. p \in L /\ p \notin Heads
    BY PlacesAssumption DEF Chained
  <2> QED
    BY <2>1 DEF SameBut
<1>4. ASSUME NEW h \in Heads \ {f, g} PROVE IsChain(other, h, c[h])
  <2>1. IsChain(to, h, c[h])
    BY DEF Chained
  <2>2. ASSUME NEW i \in 0..Len(c[h]) PROVE other[At(h, c[h], i)] = to[At(h, c[h], i)]
    <3>1. At(h, c[h], i) \in {h} \cup Members(c[h]) /\ Members(c[h]) \subseteq L
      BY <2>1, ChainFacts DEF Chained
    <3> QED
      BY <3>1, <1>3 DEF SameBut
  <2> QED
    BY <2>1, <2>2, ChainStays
<1>5. IsChain(other, g, c[f])
  <2> DEFINE s == c[f]
  <2>1. IsChain(to, f, s) /\ Members(s) \subseteq L
    BY DEF Chained
  <2>2. Len(s) \in Nat /\ \A i \in 1..Len(s) : s[i] \in Members(s)
    BY <2>1, ChainFacts
  <2>3. Once(s) /\ \A i \in 0..Len(s) :
          to[At(f, s, i)] = IF i < Len(s) THEN s[i + 1] ELSE NULL
    BY <2>1 DEF IsChain
  <2>4. \A i \in 1..Len(s) : other[s[i]] = to[s[i]]
    BY <2>1, <2>2, <1>3
  <2> HIDE DEF s
  <2>5. \A i \in 0..Len(s) : other[At(g, s, i)] = to[At(f, s, i)]
    BY <2>2, <2>4 DEF At
  <2>6. IsChain(other, g, s)
    BY <2>3, <2>5 DEF IsChain
  <2> QED
    BY <2>6 DEF s
<1>6. IsChain(other, f, <<>>)
  <2>1. <<>> \in Seq(Nodes) /\ Len(<<>>) = 0
    OBVIOUS
  <2>2. Once(<<>>)
    BY DEF Once
  <2> QED
    BY <2>1, <2>2 DEF IsChain, At
<1>7. Members(c[g]) = {}
  <2>1. IsChain(to, g, c[g])
    BY DEF Chained
  <2>2. Len(c[g]) \in Nat /\ \A i \in 1..Len(c[g]) : c[g][i] # NULL
    <3>1. Len(c[g]) \in Nat
      BY <2>1, ChainFacts
    <3>2. c[g] \in Seq(Nodes)
      BY <2>1, ChainFacts
    <3> QED
      BY <3>1, <3>2, PlacesAssumption
  <2>3. to[g] = IF 0 < Len(c[g]) THEN c[g][0 + 1] ELSE NULL
    BY <2>1, <2>2 DEF IsChain, At
  <2>4. ~(0 < Len(c[g]))
    BY <2>2, <2>3
  <2>5. 1..Len(c[g]) = {}
    BY <2>2, <2>4
  <2> QED
    BY <2>5 DEF Members
<1>8. \A h \in Heads : IsChain(other, h, d[h]) /\ Members(d[h]) \subseteq L
  BY <1>1, <1>2, <1>4, <1>5, <1>6 DEF Chained
<1>9. \A e, h \in Heads : e # h => Members(d[e]) \cap Members(d[h]) = {}
  <2> TAKE e, h \in Heads
  <2>1. Members(d[f]) = {}
    BY <1>1, <1>2
  <2>2. CASE e = f \/ h = f
    BY <2>1, <2>2
  <2>3. CASE e = g /\ h # f
    BY <2>3, <1>1 DEF Chained
  <2>4. CASE h = g /\ e # f
    BY <2>4, <1>1 DEF Chained
  <2>5. CASE e \notin {f, g} /\ h \notin {f, g}
    BY <2>5, <1>1 DEF Chained
  <2> QED
    BY <2>2, <2>3, <2>4, <2>5
<1>10. d \in [Heads -> Seq(Nodes)]
  <2>1. \A h \in Heads : d[h] \in Seq(Nodes)
    BY <1>8 DEF IsChain, Once
  <2> QED
    BY <2>1 DEF d, WithHeads
<1>11. Chained(other, L, d)
  BY <1>8, <1>9, <1>10 DEF Chained
<1> QED
  BY <1>11 DEF d

\* A call on nodes that are on no chain leaves the chains.
LEMMA ChainsStay ==
  ASSUME NEW to, NEW L, NEW c, Chained(to, L, c),
         NEW other, \A h \in Heads : \A i \in 0..Len(c[h]) :
                      other[At(h, c[h], i)] = to[At(h, c[h], i)],
         NEW M, \A h \in Heads : Members(c[h]) \subseteq M
  PROVE  Chained(other, M, c)
<1>1. ASSUME NEW h \in Heads PROVE IsChain(other, h, c[h])
  <2>1. IsChain(to, h, c[h])
    BY DEF Chained
  <2> QED
    BY <2>1, ChainStays
<1> QED
  BY <1>1 DEF Chained

\* A node on one chain is on no other.
LEMMA OnOneChain ==
  ASSUME NEW to, NEW L, NEW c, Chained(to, L, c),
         NEW g \in Heads, NEW k \in 1..Len(c[g]), NEW h \in Heads \ {g}
  PROVE  ~Contains(c[h], c[g][k])
<1>1. c[g][k] \in Members(c[g])
  BY DEF Members
<1>2. c[g][k] \notin Members(c[h])
  BY <1>1 DEF Chained
<1> QED
  BY <1>2 DEF Contains, Members

-----------------------------------------------------------------------------
(* The calls.                                                              *)

Chains == [h \in Heads |-> Chain(h)]

ChainInv == TypeOK /\ WellLinked /\ Chained(next, on, Chains)

\* What a walk finds after a step are the chains it arranges.
LEMMA NewChains ==
  ASSUME NEW d, Chained(next', on', d)
  PROVE  /\ \A h \in Heads : Chain(h)' = d[h]
         /\ Chained(next', on', Chains')
<1>1. \A h \in Heads : ChainIn(next', h) = d[h]
  BY ChainsAre
<1>2. \A h \in Heads : Chain(h)' = ChainIn(next', h)
  BY DEF Chain
<1>3. Chains' = [h \in Heads |-> ChainIn(next', h)]
  BY DEF Chains, Chain
<1>4. Chains' = [h \in Heads |-> d[h]]
  BY <1>1, <1>3
<1>5. Chains' = d
  BY <1>4 DEF Chained
<1> QED
  BY <1>1, <1>2, <1>5

LEMMA EmptyChains ==
  ASSUME Init
  PROVE  Chained(next, on, Chains)
<1> DEFINE d == [h \in Heads |-> <<>>]
<1>1. Members(<<>>) = {}
  BY DEF Members
<1>2. ASSUME NEW h \in Heads PROVE IsChain(next, h, <<>>)
  <2>1. <<>> \in Seq(Nodes) /\ Len(<<>>) = 0 /\ next[h] = NULL
    BY DEF Init, Places
  <2>2. Once(<<>>)
    BY DEF Once
  <2> QED
    BY <2>1, <2>2 DEF IsChain, At
<1>3. Chained(next, on, d)
  <2>1. d \in [Heads -> Seq(Nodes)]
    OBVIOUS
  <2> QED
    BY <2>1, <1>1, <1>2 DEF Chained
<1>4. \A h \in Heads : Chain(h) = <<>>
  BY <1>3, ChainsAre DEF Chain
<1>5. Chains = d
  BY <1>4 DEF Chains
<1> QED
  BY <1>3, <1>5

\* What hlist_add_head, hlist_add_next and hlist_add_prev assign to next.
LEMMA InsertAssigns ==
  ASSUME TypeOK, NEW x \in Nodes, x \notin on, NEW q, q \in Heads \cup on, NEW v,
         next' = [next EXCEPT ![x] = v, ![q] = x]
  PROVE  next'[q] = x /\ next'[x] = v /\ SameBut(next, next', on, {q})
<1>1. x # q /\ x \in Places /\ q \in Places /\ DOMAIN next = Places
  BY PlacesAssumption DEF TypeOK, Places
<1>2. \A p \in Heads \cup on : p \in Places /\ p # x
  BY PlacesAssumption DEF TypeOK, Places
<1>3. /\ next'[q] = x /\ next'[x] = v
      /\ \A p \in Places : p # q /\ p # x => next'[p] = next[p]
  BY <1>1
<1>4. SameBut(next, next', on, {q})
  BY <1>2, <1>3 DEF SameBut
<1> QED
  BY <1>3, <1>4

LEMMA AddHeadChains ==
  ASSUME ChainInv, NEW x \in Nodes, NEW g \in Heads, AddHead(x, g)
  PROVE  Chained(next', on', WithChain(Chains, g, <<x>> \o Chains[g]))
<1> DEFINE c == Chains
<1>1. Chained(next, on, c) /\ on \in SUBSET Nodes /\ TypeOK
  BY DEF ChainInv, TypeOK
<1>2. x \in Nodes \ on /\ g \in Heads \cup on /\ on' = on \cup {x}
      /\ next' = [next EXCEPT ![x] = next[g], ![g] = x]
  BY DEF AddHead
<1>3. next'[g] = x /\ next'[x] = next[g] /\ SameBut(next, next', on, {g})
  <2>1. x \in Nodes /\ x \notin on
    BY <1>2
  <2>2. next' = [next EXCEPT ![x] = next[g], ![g] = x]
    BY <1>2
  <2> QED
    BY <2>1, <2>2, <1>1, <1>2, InsertAssigns
<1> HIDE DEF c
<1>4. 0 \in 0..Len(c[g]) /\ g = At(g, c[g], 0) /\ c[g] \in Seq(Nodes)
  <2>1. c[g] \in Seq(Nodes) /\ Len(c[g]) \in Nat
    BY <1>1, ChainFacts DEF Chained
  <2> QED
    BY <2>1 DEF At
<1>5. Chained(next', on \cup {x}, WithChain(c, g, Put(c[g], 0, x)))
  BY <1>1, <1>2, <1>3, <1>4, PutsBehindPlace
<1>6. <<x>> \o c[g] = Put(c[g], 0, x)
  BY <1>4, PutFirst
<1> QED
  BY <1>2, <1>5, <1>6 DEF c

LEMMA AddNextChains ==
  ASSUME ChainInv, NEW x \in Nodes, NEW y \in Nodes, AddNext(x, y)
  PROVE  Chained(next', on', [h \in Heads |-> Behind(Chains[h], y, x)])
<1> DEFINE c == Chains
           d == [h \in Heads |-> Behind(c[h], y, x)]
<1>1. Chained(next, on, c) /\ on \in SUBSET Nodes /\ TypeOK
  BY DEF ChainInv, TypeOK
<1>2. x \in Nodes \ on /\ y \in Heads \cup on /\ on' = on \cup {x}
      /\ next' = [next EXCEPT ![x] = next[y], ![y] = x]
  BY DEF AddNext
<1>3. next'[y] = x /\ next'[x] = next[y] /\ SameBut(next, next', on, {y})
  <2>1. x \in Nodes /\ x \notin on
    BY <1>2
  <2>2. next' = [next EXCEPT ![x] = next[y], ![y] = x]
    BY <1>2
  <2> QED
    BY <2>1, <2>2, <1>1, <1>2, InsertAssigns
<1> HIDE DEF c
<1>4. CASE \E g \in Heads : \E k \in 1..Len(c[g]) : y = c[g][k]
  <2>0. PICK g \in Heads : \E k \in 1..Len(c[g]) : y = c[g][k]
    BY <1>4
  <2>1. PICK k \in 1..Len(c[g]) : y = c[g][k]
    BY <2>0
  <2>2. Once(c[g]) /\ c[g] \in Seq(Nodes) /\ Len(c[g]) \in Nat
    BY <1>1 DEF Chained, IsChain, Once
  <2>3. k \in 0..Len(c[g]) /\ y = At(g, c[g], k)
    BY <2>1, <2>2 DEF At
  <2>4. Chained(next', on \cup {x}, WithChain(c, g, Put(c[g], k, x)))
    BY <1>1, <1>2, <1>3, <2>3, PutsBehindPlace
  <2>5. Behind(c[g], y, x) = Put(c[g], k, x)
    <3>1. PlaceOf(c[g], y) = k /\ Contains(c[g], y)
      BY <2>1, <2>2, PlaceIs
    <3>2. InsertAt(c[g], k + 1, x) = Put(c[g], k, x)
      BY <2>2, <2>3, PutIs
    <3> QED
      BY <3>1, <3>2 DEF Behind
  <2>6. \A h \in Heads \ {g} : Behind(c[h], y, x) = c[h]
    BY <1>1, <2>1, OnOneChain DEF Behind
  <2>7. d = WithChain(c, g, Put(c[g], k, x))
    BY <2>5, <2>6 DEF WithChain
  <2> QED
    BY <1>2, <2>4, <2>7 DEF c
<1>5. CASE ~ \E g \in Heads : \E k \in 1..Len(c[g]) : y = c[g][k]
  <2>1. \A h \in Heads : Behind(c[h], y, x) = c[h]
    BY <1>5 DEF Behind, Contains
  <2>2. d = c
    BY <2>1, <1>1 DEF Chained
  <2>3. ASSUME NEW h \in Heads, NEW i \in 0..Len(c[h])
        PROVE  next'[At(h, c[h], i)] = next[At(h, c[h], i)]
    <3>1. At(h, c[h], i) \in Heads \cup on
      BY <1>1, ChainFacts DEF Chained
    <3>2. At(h, c[h], i) # y
      <4>1. Len(c[h]) \in Nat
        BY <1>1, ChainFacts DEF Chained
      <4> QED
        BY <4>1, <1>5, PlacesAssumption DEF At
    <3> QED
      BY <3>1, <3>2, <1>3 DEF SameBut
  <2>4. \A h \in Heads : Members(c[h]) \subseteq on \cup {x}
    BY <1>1 DEF Chained
  <2>5. Chained(next', on \cup {x}, c)
    BY <1>1, <2>3, <2>4, ChainsStay
  <2> QED
    BY <1>2, <2>2, <2>5 DEF c
<1> QED
  BY <1>4, <1>5

\* A node that is on a chain is behind the place its pprev names, and one that is
\* on none hangs on no place of a chain.
LEMMA PprevIsBefore ==
  ASSUME ChainInv, ~prevUsed, NEW y \in on, NEW c, Chained(next, on, c),
         NEW g \in Heads, NEW k \in 0..Len(c[g])
  PROVE  /\ k # 0 /\ y = c[g][k] => pprev[y] = At(g, c[g], k - 1)
         /\ pprev[y] = At(g, c[g], k) => k < Len(c[g]) /\ y = c[g][k + 1]
<1>1. /\ IsChain(next, g, c[g])
      /\ Len(c[g]) \in Nat
      /\ \A i \in 0..Len(c[g]) : At(g, c[g], i) \in Heads \cup on
  BY ChainFacts DEF Chained
<1>2. \A i \in 0..Len(c[g]) :
        next[At(g, c[g], i)] = IF i < Len(c[g]) THEN c[g][i + 1] ELSE NULL
  BY <1>1 DEF IsChain
<1>3. next[pprev[y]] = y /\ y # NULL
  BY PlacesAssumption DEF ChainInv, WellLinked, TypeOK
<1>4. ASSUME k # 0, y = c[g][k] PROVE pprev[y] = At(g, c[g], k - 1)
  <2>1. k - 1 \in 0..Len(c[g]) /\ k - 1 < Len(c[g]) /\ (k - 1) + 1 = k
    BY <1>1, <1>4
  <2>2. next[At(g, c[g], k - 1)] = y
    BY <2>1, <1>2, <1>4
  <2> QED
    BY <2>1, <2>2, <1>1, <1>3 DEF ChainInv, WellLinked
<1>5. ASSUME pprev[y] = At(g, c[g], k) PROVE k < Len(c[g]) /\ y = c[g][k + 1]
  BY <1>2, <1>3, <1>5
<1> QED
  BY <1>4, <1>5

LEMMA AddPrevChains ==
  ASSUME ChainInv, ~prevUsed, NEW x \in Nodes, NEW y \in Nodes, AddPrev(x, y)
  PROVE  Chained(next', on', [h \in Heads |-> ReplaceAll(Chains[h], y, x)])
<1> DEFINE c == Chains
           d == [h \in Heads |-> ReplaceAll(c[h], y, x)]
           q == pprev[y]
<1>1. Chained(next, on, c) /\ on \in SUBSET Nodes /\ TypeOK
  BY DEF ChainInv, TypeOK
<1>2. x \in Nodes \ on /\ y \in on /\ on' = on \cup {x}
      /\ next' = [next EXCEPT ![x] = next[y], ![q] = x]
  BY DEF AddPrev
<1>3. q \in Heads \cup on
  BY <1>2 DEF ChainInv, WellLinked
<1>4. next'[q] = x /\ next'[x] = next[y] /\ SameBut(next, next', on, {q})
  <2>1. x \in Nodes /\ x \notin on
    BY <1>2
  <2>2. next' = [next EXCEPT ![x] = next[y], ![q] = x]
    BY <1>2
  <2> HIDE DEF q
  <2> QED
    BY <2>1, <2>2, <1>1, <1>2, <1>3, InsertAssigns
<1> HIDE DEF c, q
<1>5. \A h \in Heads : ~Contains(c[h], y) => ReplaceAll(c[h], y, x) = c[h]
  <2> SUFFICES ASSUME NEW h \in Heads, ~Contains(c[h], y)
               PROVE  ReplaceAll(c[h], y, x) = c[h]
    OBVIOUS
  <2>1. c[h] \in Seq(Nodes)
    BY <1>1 DEF Chained, IsChain, Once
  <2>2. ReplaceAll(c[h], y, x) = [i \in 1..Len(c[h]) |-> c[h][i]]
    BY DEF ReplaceAll, Contains
  <2> QED
    BY <2>1, <2>2
<1>6. CASE \E g \in Heads : \E k \in 1..Len(c[g]) : y = c[g][k]
  <2>0. PICK g \in Heads : \E k \in 1..Len(c[g]) : y = c[g][k]
    BY <1>6
  <2>1. PICK k \in 1..Len(c[g]) : y = c[g][k]
    BY <2>0
  <2>2. q = At(g, c[g], k - 1)
    <3>1. Len(c[g]) \in Nat
      BY <1>1, ChainFacts DEF Chained
    <3>2. k \in 0..Len(c[g]) /\ k # 0
      BY <3>1
    <3> QED
      BY <1>1, <1>2, <2>1, <3>2, PprevIsBefore DEF q
  <2>3. Chained(next', on \cup {x}, WithChain(c, g, ReplaceAll(c[g], y, x)))
    BY <1>1, <1>2, <1>4, <2>1, <2>2, TakesPlace
  <2>4. \A h \in Heads \ {g} : ReplaceAll(c[h], y, x) = c[h]
    BY <1>1, <1>5, <2>1, OnOneChain
  <2>5. d = WithChain(c, g, ReplaceAll(c[g], y, x))
    BY <2>4 DEF WithChain
  <2> QED
    BY <1>2, <2>3, <2>5 DEF c
<1>7. CASE ~ \E g \in Heads : \E k \in 1..Len(c[g]) : y = c[g][k]
  <2>1. \A h \in Heads : ReplaceAll(c[h], y, x) = c[h]
    BY <1>5, <1>7 DEF Contains
  <2>2. d = c
    BY <2>1, <1>1 DEF Chained
  <2>3. ASSUME NEW h \in Heads, NEW i \in 0..Len(c[h])
        PROVE  next'[At(h, c[h], i)] = next[At(h, c[h], i)]
    <3>1. At(h, c[h], i) \in Heads \cup on /\ Len(c[h]) \in Nat
      BY <1>1, ChainFacts DEF Chained
    <3>2. At(h, c[h], i) # q
      <4> SUFFICES ASSUME q = At(h, c[h], i) PROVE FALSE
        OBVIOUS
      <4>1. i < Len(c[h]) /\ y = c[h][i + 1]
        BY <1>1, <1>2, PprevIsBefore DEF q
      <4>2. i + 1 \in 1..Len(c[h])
        BY <3>1, <4>1
      <4> QED
        BY <4>1, <4>2, <1>7
    <3> QED
      BY <3>1, <3>2, <1>4 DEF SameBut
  <2>4. \A h \in Heads : Members(c[h]) \subseteq on \cup {x}
    BY <1>1 DEF Chained
  <2>5. Chained(next', on \cup {x}, c)
    BY <1>1, <2>3, <2>4, ChainsStay
  <2> QED
    BY <1>2, <2>2, <2>5 DEF c
<1> QED
  BY <1>6, <1>7

LEMMA DelChains ==
  ASSUME ChainInv, ~prevUsed, NEW x \in Nodes, Del(x)
  PROVE  Chained(next', on', [h \in Heads |-> Without(Chains[h], x)])
<1> DEFINE c == Chains
           d == [h \in Heads |-> Without(c[h], x)]
           q == pprev[x]
<1>1. Chained(next, on, c) /\ on \in SUBSET Nodes /\ TypeOK
  BY DEF ChainInv, TypeOK
<1>2. x \in on /\ on' = on \ {x} /\ next' = [next EXCEPT ![q] = next[x]]
  BY DEF Del
<1>3. q \in Heads \cup on
  BY <1>2 DEF ChainInv, WellLinked
<1>4. next'[q] = next[x] /\ SameBut(next, next', on, {q})
  <2>1. q \in Places /\ \A p \in Heads \cup on : p \in Places
    BY <1>1, <1>3 DEF Places
  <2> HIDE DEF q
  <2> QED
    BY <2>1, <1>1, <1>2 DEF TypeOK, SameBut
<1> HIDE DEF c, q
<1>5. CASE \E g \in Heads : \E k \in 1..Len(c[g]) : x = c[g][k]
  <2>0. PICK g \in Heads : \E k \in 1..Len(c[g]) : x = c[g][k]
    BY <1>5
  <2>1. PICK k \in 1..Len(c[g]) : x = c[g][k]
    BY <2>0
  <2>2. Once(c[g]) /\ c[g] \in Seq(Nodes) /\ Len(c[g]) \in Nat
    BY <1>1 DEF Chained, IsChain, Once
  <2>3. q = At(g, c[g], k - 1)
    <3>1. k \in 0..Len(c[g]) /\ k # 0
      BY <2>2
    <3> QED
      BY <1>1, <1>2, <2>1, <3>1, PprevIsBefore DEF q
  <2>4. Chained(next', on \ {x}, WithChain(c, g, Drop(c[g], k)))
    BY <1>1, <1>4, <2>1, <2>3, TakesOutPlace
  <2>5. Without(c[g], x) = Drop(c[g], k)
    <3>1. PlaceOf(c[g], x) = k /\ Contains(c[g], x)
      BY <2>1, <2>2, PlaceIs
    <3>2. RemoveAt(c[g], k) = Drop(c[g], k)
      BY <2>2, DropIs
    <3> QED
      BY <3>1, <3>2 DEF Without
  <2>6. \A h \in Heads \ {g} : Without(c[h], x) = c[h]
    BY <1>1, <2>1, OnOneChain DEF Without
  <2>7. d = WithChain(c, g, Drop(c[g], k))
    BY <2>5, <2>6 DEF WithChain
  <2> QED
    BY <1>2, <2>4, <2>7 DEF c
<1>6. CASE ~ \E g \in Heads : \E k \in 1..Len(c[g]) : x = c[g][k]
  <2>1. \A h \in Heads : Without(c[h], x) = c[h]
    BY <1>6 DEF Without, Contains
  <2>2. d = c
    BY <2>1, <1>1 DEF Chained
  <2>3. ASSUME NEW h \in Heads, NEW i \in 0..Len(c[h])
        PROVE  next'[At(h, c[h], i)] = next[At(h, c[h], i)]
    <3>1. At(h, c[h], i) \in Heads \cup on /\ Len(c[h]) \in Nat
      BY <1>1, ChainFacts DEF Chained
    <3>2. At(h, c[h], i) # q
      <4> SUFFICES ASSUME q = At(h, c[h], i) PROVE FALSE
        OBVIOUS
      <4>1. i < Len(c[h]) /\ x = c[h][i + 1]
        BY <1>1, <1>2, PprevIsBefore DEF q
      <4>2. i + 1 \in 1..Len(c[h])
        BY <3>1, <4>1
      <4> QED
        BY <4>1, <4>2, <1>6
    <3> QED
      BY <3>1, <3>2, <1>4 DEF SameBut
  <2>4. \A h \in Heads : Members(c[h]) \subseteq on \ {x}
    <3> SUFFICES ASSUME NEW h \in Heads PROVE Members(c[h]) \subseteq on \ {x}
      OBVIOUS
    <3>1. x \notin Members(c[h])
      BY <1>6 DEF Members
    <3> QED
      BY <3>1, <1>1 DEF Chained
  <2>5. Chained(next', on \ {x}, c)
    BY <1>1, <2>3, <2>4, ChainsStay
  <2> QED
    BY <1>2, <2>2, <2>5 DEF c
<1> QED
  BY <1>5, <1>6

LEMMA ReheadChains ==
  ASSUME ChainInv, NEW f \in Heads, NEW g \in Heads, Rehead(f, g)
  PROVE  Chained(next', on', WithHeads(Chains, f, g))
<1> DEFINE c == Chains
<1>1. Chained(next, on, c) /\ on \in SUBSET Nodes /\ TypeOK
  BY DEF ChainInv, TypeOK
<1>2. f # g /\ next[g] = NULL /\ on' = on
      /\ next' = [next EXCEPT ![g] = next[f], ![f] = NULL]
  BY DEF Rehead
<1>3. \A p \in Heads \cup on : p \in Places
  BY <1>1 DEF Places
<1>4. next'[g] = next[f] /\ next'[f] = NULL /\ SameBut(next, next', on, {f, g})
  BY <1>1, <1>2, <1>3 DEF TypeOK, SameBut
<1> HIDE DEF c
<1>5. Chained(next', on, WithHeads(c, f, g))
  BY <1>1, <1>2, <1>4, ChangesHeads
<1> QED
  BY <1>2, <1>5 DEF c

\* Each call does to the chains what its name says.
CallChangesChains(h) ==
  /\ \A x \in Nodes, g \in Heads :
       AddHead(x, g) => Chain(h)' = IF h = g THEN <<x>> \o Chain(h) ELSE Chain(h)
  /\ \A x, y \in Nodes :
       /\ AddNext(x, y) => Chain(h)' = Behind(Chain(h), y, x)
       /\ AddPrev(x, y) => Chain(h)' = ReplaceAll(Chain(h), y, x)
  /\ \A x \in Nodes : Del(x) => Chain(h)' = Without(Chain(h), x)
  /\ \A f, g \in Heads :
       Rehead(f, g) => Chain(h)' = IF h = g THEN Chain(f)
                                   ELSE IF h = f THEN <<>> ELSE Chain(h)

LEMMA CallsDo ==
  ASSUME ChainInv, ~prevUsed, NEW h \in Heads
  PROVE  CallChangesChains(h)
<1>0. \A g \in Heads : Chains[g] = Chain(g)
  BY DEF Chains
<1>1. ASSUME NEW x \in Nodes, NEW g \in Heads, AddHead(x, g)
      PROVE  Chain(h)' = IF h = g THEN <<x>> \o Chain(h) ELSE Chain(h)
  <2> DEFINE d == WithChain(Chains, g, <<x>> \o Chains[g])
  <2>1. Chained(next', on', d)
    BY <1>1, AddHeadChains
  <2>2. d[h] = IF h = g THEN <<x>> \o Chain(h) ELSE Chain(h)
    BY <1>0 DEF WithChain
  <2> HIDE DEF d
  <2> QED
    BY <2>1, <2>2, NewChains
<1>2. ASSUME NEW x \in Nodes, NEW y \in Nodes, AddNext(x, y)
      PROVE  Chain(h)' = Behind(Chain(h), y, x)
  <2> DEFINE d == [e \in Heads |-> Behind(Chains[e], y, x)]
  <2>1. Chained(next', on', d)
    BY <1>2, AddNextChains
  <2>2. d[h] = Behind(Chain(h), y, x)
    BY <1>0
  <2> HIDE DEF d
  <2> QED
    BY <2>1, <2>2, NewChains
<1>3. ASSUME NEW x \in Nodes, NEW y \in Nodes, AddPrev(x, y)
      PROVE  Chain(h)' = ReplaceAll(Chain(h), y, x)
  <2> DEFINE d == [e \in Heads |-> ReplaceAll(Chains[e], y, x)]
  <2>1. Chained(next', on', d)
    BY <1>3, AddPrevChains
  <2>2. d[h] = ReplaceAll(Chain(h), y, x)
    BY <1>0
  <2> HIDE DEF d
  <2> QED
    BY <2>1, <2>2, NewChains
<1>4. ASSUME NEW x \in Nodes, Del(x)
      PROVE  Chain(h)' = Without(Chain(h), x)
  <2> DEFINE d == [e \in Heads |-> Without(Chains[e], x)]
  <2>1. Chained(next', on', d)
    BY <1>4, DelChains
  <2>2. d[h] = Without(Chain(h), x)
    BY <1>0
  <2> HIDE DEF d
  <2> QED
    BY <2>1, <2>2, NewChains
<1>5. ASSUME NEW f \in Heads, NEW g \in Heads, Rehead(f, g)
      PROVE  Chain(h)' = IF h = g THEN Chain(f) ELSE IF h = f THEN <<>> ELSE Chain(h)
  <2> DEFINE d == WithHeads(Chains, f, g)
  <2>1. Chained(next', on', d)
    BY <1>5, ReheadChains
  <2>2. d[h] = IF h = g THEN Chain(f) ELSE IF h = f THEN <<>> ELSE Chain(h)
    BY <1>0 DEF WithHeads
  <2> HIDE DEF d
  <2> QED
    BY <2>1, <2>2, NewChains
<1> QED
  BY <1>1, <1>2, <1>3, <1>4, <1>5 DEF CallChangesChains

LEMMA NextChains ==
  ASSUME ChainInv, Next
  PROVE  Chained(next', on', Chains')
<1>0. ~prevUsed
  BY DEF Next
<1>1. ASSUME NEW x \in Nodes, NEW g \in Heads, AddHead(x, g)
      PROVE  Chained(next', on', Chains')
  BY <1>1, AddHeadChains, NewChains
<1>2. ASSUME NEW x \in Nodes, NEW y \in Nodes, AddNext(x, y)
      PROVE  Chained(next', on', Chains')
  BY <1>2, AddNextChains, NewChains
<1>3. ASSUME NEW x \in Nodes, NEW y \in Nodes, AddPrev(x, y)
      PROVE  Chained(next', on', Chains')
  BY <1>0, <1>3, AddPrevChains, NewChains
<1>4. ASSUME NEW x \in Nodes, Del(x)
      PROVE  Chained(next', on', Chains')
  BY <1>0, <1>4, DelChains, NewChains
<1>5. ASSUME NEW f \in Heads, NEW g \in Heads, Rehead(f, g)
      PROVE  Chained(next', on', Chains')
  BY <1>5, ReheadChains, NewChains
<1> QED
  BY <1>1, <1>2, <1>3, <1>4, <1>5 DEF Next

LEMMA InitChainInv == Init => ChainInv
BY InitTypeOK, EmptyChains DEF ChainInv

LEMMA NextChainInv == ChainInv /\ [Next]_vars => ChainInv'
<1> SUFFICES ASSUME ChainInv, [Next]_vars PROVE ChainInv'
  OBVIOUS
<1>1. TypeOK' /\ WellLinked'
  BY NextKeepsLinks DEF ChainInv
<1>2. Chained(next', on', Chains')
  <2>1. CASE Next
    BY <2>1, NextChains
  <2>2. CASE UNCHANGED vars
    <3>1. next' = next /\ on' = on /\ Chains' = Chains
      BY <2>2 DEF vars, Chains, Chain
    <3> QED
      BY <3>1 DEF ChainInv
  <2> QED
    BY <2>1, <2>2
<1> QED
  BY <1>1, <1>2 DEF ChainInv

\* Every head leads to a chain that ends and meets no node twice, and no node is on
\* the chains of two heads, after hlist_add_prev as well.
THEOREM HeadsKeepApart == Spec => []Chained(next, on, Chains)
<1>1. ChainInv => Chained(next, on, Chains)
  BY DEF ChainInv
<1> QED
  BY <1>1, InitChainInv, NextChainInv, PTL DEF Spec

\* Every call does its own to the chain of the head or node it is called on, and
\* nothing to the others: hlist_add_head puts in front, hlist_add_next behind the
\* node, hlist_add_prev in the place of the node; hlist_del takes the node out, and
\* hlist_rehead moves the whole chain.
THEOREM CallsDoToChains == Spec => CallsChangeChains
<1>1. ChainInv /\ [Next]_vars => [\A h \in Heads : CallChangesChains(h)]_vars
  <2> SUFFICES ASSUME ChainInv, Next PROVE \A h \in Heads : CallChangesChains(h)
    OBVIOUS
  <2>1. ~prevUsed
    BY DEF Next
  <2> QED
    BY <2>1, CallsDo
<1>2. Spec => [][\A h \in Heads : CallChangesChains(h)]_vars
  BY <1>1, InitChainInv, NextChainInv, PTL DEF Spec
<1> QED
  BY <1>2 DEF CallsChangeChains, CallChangesChains
=============================================================================
