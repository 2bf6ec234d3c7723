----------------------------- MODULE HeapProofs -----------------------------
(***************************************************************************)
(* Theorems about Heap, for every array size, set of elements and order:   *)
(* between calls the array is a min-heap, and heap_pop takes an element     *)
(* that no other is less than.  While a call sifts an element, the order   *)
(* fails at that element only, and the element's parent is not greater     *)
(* than its children; that is what the invariant adds.  And Heap            *)
(* implements PriorityQueue: a sift only swaps elements, which leaves the   *)
(* number of each as it is; heap_add counts one more of the element it is   *)
(* given, and heap_pop one less of the one on top.                         *)
(***************************************************************************)
EXTENDS Heap, FiniteSetTheorems, WellFoundedInduction, TLAPS

\* heap_up at index x: only x may be less than its parent.
RisingAt(x, m) ==
  /\ \A j \in 1..m - 1 : j # x => ~Less(base[j], base[Parent(j)])
  /\ \A j \in 1..m - 1 :
       Parent(j) = x /\ x > 0 => ~Less(base[j], base[Parent(x)])

\* heap_down at index x: only children of x may be less than their parent.
SinkingAt(x, m) ==
  /\ \A j \in 1..m - 1 : Parent(j) # x => ~Less(base[j], base[Parent(j)])
  /\ \A j \in 1..m - 1 :
       Parent(j) = x /\ x > 0 => ~Less(base[j], base[Parent(x)])

SiftInv ==
  /\ op = "heapify" => i <= k /\ k < n /\ RisingAt(i, k + 1)
  /\ op = "add"     => i < n /\ RisingAt(i, n)
  /\ op = "pop"     => i < n /\ SinkingAt(i, n)

IInv == TypeOK /\ HeapOrder /\ SiftInv

-----------------------------------------------------------------------------
LEMMA ParentFacts ==
  ASSUME NEW j \in Nat, j > 0
  PROVE  /\ Parent(j) \in Nat /\ Parent(j) < j
         /\ j = Left(Parent(j)) \/ j = Right(Parent(j))
BY DEF Parent, Left, Right

LEMMA ChildFacts ==
  ASSUME NEW j \in Nat
  PROVE  /\ Left(j) \in Nat /\ Right(j) \in Nat
         /\ Left(j) > j /\ Right(j) = Left(j) + 1
         /\ Parent(Left(j)) = j /\ Parent(Right(j)) = j
BY DEF Parent, Left, Right

\* Every set of naturals that is not empty has a least member.
LEMMA LeastNatural ==
  ASSUME NEW T \in SUBSET Nat, T # {}
  PROVE  \E x \in T : \A y \in T : x <= y
<1> DEFINE R == {ss \in Nat \X Nat : ss[1] < ss[2]}
<1>1. OpToRel(<, Nat) = R
  BY DEF OpToRel
<1>2. IsWellFoundedOn(R, Nat)
  BY <1>1, NatLessThanWellFounded
<1>3. \A x, y \in Nat : y < x => <<y, x>> \in R
  OBVIOUS
<1>4. PICK x \in T : \A y \in T : <<y, x>> \notin R
  <2> HIDE DEF R
  <2> QED
    BY <1>2, WFMin
<1> HIDE DEF R
<1>5. \A y \in T : ~(y < x)
  BY <1>3, <1>4
<1> QED
  BY <1>5

\* In a min-heap the element at the top is one that no other is less than.
LEMMA TopIsLeast ==
  ASSUME TypeOK, NEW m \in 0..Cap, m > 0, HeapUpTo(m), NEW j \in 0..m - 1
  PROVE  ~Less(base[j], base[0])
<1> DEFINE T == {x \in 0..m - 1 : Less(base[x], base[0])}
<1> SUFFICES ASSUME T # {} PROVE FALSE
  OBVIOUS
<1>1. T \in SUBSET Nat
  OBVIOUS
<1>2. PICK x \in T : \A y \in T : x <= y
  BY <1>1, LeastNatural
<1>3. x \in 0..m - 1 /\ Less(base[x], base[0]) /\ 0 \in Indices /\ x \in Indices
  BY CapAssumption DEF Indices
<1>4. base[x] \in Elems /\ base[0] \in Elems
  BY <1>3 DEF TypeOK
<1>5. x # 0
  BY <1>3, <1>4, KeyAssumption DEF Less
<1>6. Parent(x) \in 0..m - 1 /\ Parent(x) < x /\ Parent(x) \in Indices
  BY <1>3, <1>5, ParentFacts, CapAssumption DEF Indices
<1>7. ~Less(base[x], base[Parent(x)])
  BY <1>3, <1>5 DEF HeapUpTo
<1>8. base[Parent(x)] \in Elems
  BY <1>6 DEF TypeOK
<1>9. Less(base[Parent(x)], base[0])
  BY <1>3, <1>4, <1>7, <1>8, KeyAssumption DEF Less
<1> QED
  BY <1>2, <1>6, <1>9

-----------------------------------------------------------------------------
LEMMA InitIInv == Init => IInv
BY CapAssumption DEF Init, IInv, TypeOK, HeapOrder, SiftInv, Indices

\* An element that rises leaves order behind: its old parent, put in its place,
\* is less than nothing below it.
LEMMA RisePreserves ==
  ASSUME TypeOK, NEW m \in 0..Cap, i < m, RisingAt(i, m), Rises(i),
         base' = Memswap(base, i, Parent(i)), i' = Parent(i)
  PROVE  RisingAt(i, m)' /\ base' \in [Indices -> Elems] /\ i' \in 0..Cap /\ i' < m
<1> DEFINE p == Parent(i)
<1>1. i \in Nat /\ i > 0 /\ p \in Nat /\ p < i /\ i \in Indices /\ p \in Indices
  BY ParentFacts, CapAssumption DEF TypeOK, Rises, Indices
<1>2. \A j \in Indices : base'[j] = IF j = p THEN base[i]
                                    ELSE IF j = i THEN base[p] ELSE base[j]
  BY <1>1 DEF TypeOK, Memswap
<1>3. base' \in [Indices -> Elems]
  BY <1>1 DEF TypeOK, Memswap
<1>4. Less(base[i], base[p])
  BY DEF Rises
<1>5. \A j \in 1..m - 1 : j \in Indices /\ Parent(j) \in Indices /\ Parent(j) < j
                          /\ Parent(j) \in Nat
  BY ParentFacts, CapAssumption DEF Indices
<1>6. \A x \in Indices : Key[base[x]] \in Int
  BY KeyAssumption DEF TypeOK
<1>7. \A j \in 1..m - 1 : j # p => ~Less(base'[j], base'[Parent(j)])
  <2> SUFFICES ASSUME NEW j \in 1..m - 1, j # p
               PROVE  ~Less(base'[j], base'[Parent(j)])
    OBVIOUS
  <2>1. CASE j = i
    BY <1>1, <1>2, <1>4, <1>6, <2>1 DEF Less
  <2>2. CASE j # i /\ Parent(j) = i
    BY <1>1, <1>2, <1>5, <2>2 DEF RisingAt
  <2>3. CASE j # i /\ Parent(j) = p
    <3>1. ~Less(base[j], base[p])
      BY <2>3 DEF RisingAt
    <3> QED
      BY <1>1, <1>2, <1>4, <1>5, <1>6, <2>3, <3>1 DEF Less
  <2>4. CASE j # i /\ Parent(j) # i /\ Parent(j) # p
    BY <1>1, <1>2, <1>5, <2>4 DEF RisingAt
  <2> QED
    BY <2>1, <2>2, <2>3, <2>4
<1>8. \A j \in 1..m - 1 :
        Parent(j) = p /\ p > 0 => ~Less(base'[j], base'[Parent(p)])
  <2> SUFFICES ASSUME NEW j \in 1..m - 1, Parent(j) = p, p > 0
               PROVE  ~Less(base'[j], base'[Parent(p)])
    OBVIOUS
  <2>1. p \in 1..m - 1
    BY <1>1, <1>5
  <2>2. ~Less(base[p], base[Parent(p)])
    BY <1>1, <2>1 DEF RisingAt
  <2>3. Parent(p) \in Indices /\ Parent(p) # p /\ Parent(p) # i
    BY <1>1, <1>5, <2>1
  <2>4. CASE j = i
    BY <1>1, <1>2, <2>2, <2>3, <2>4
  <2>5. CASE j # i
    <3>1. ~Less(base[j], base[p])
      BY <2>5 DEF RisingAt
    <3>2. j # p
      BY <1>5
    <3> QED
      BY <1>1, <1>2, <1>5, <1>6, <2>2, <2>3, <2>5, <3>1, <3>2 DEF Less
  <2> QED
    BY <2>4, <2>5
<1> QED
  BY <1>1, <1>3, <1>7, <1>8, CapAssumption DEF RisingAt, TypeOK

\* An element that need not rise is in order.
LEMMA RiseDone ==
  ASSUME TypeOK, NEW m \in 0..Cap, i < m, RisingAt(i, m), ~Rises(i)
  PROVE  HeapUpTo(m)
BY DEF TypeOK, RisingAt, Rises, HeapUpTo

\* Sinks(j) is j when no child of j is less than j; otherwise it is a child,
\* less than j and not greater than the other child.
LEMMA SinksChoice ==
  ASSUME TypeOK, NEW j \in Nat, j < n
  PROVE  \/ /\ Sinks(j) = j
            /\ \A c \in 1..n - 1 : Parent(c) = j => ~Less(base[c], base[j])
         \/ /\ Sinks(j) \in 1..n - 1 /\ Parent(Sinks(j)) = j /\ Sinks(j) # j
            /\ Less(base[Sinks(j)], base[j])
            /\ \A c \in 1..n - 1 :
                 Parent(c) = j => ~Less(base[c], base[Sinks(j)])
<1>1. \A c \in 1..n - 1 : Parent(c) = j => c = Left(j) \/ c = Right(j)
  BY ParentFacts DEF TypeOK
<1>2. /\ Left(j) \in Nat /\ Left(j) > j /\ Right(j) = Left(j) + 1
      /\ Parent(Left(j)) = j /\ Parent(Right(j)) = j
  BY ChildFacts
<1>3. \A x \in 0..n - 1 : Key[base[x]] \in Int
  BY KeyAssumption, CapAssumption DEF TypeOK, Indices
<1> QED
  BY <1>1, <1>2, <1>3 DEF TypeOK, Sinks, Less

LEMMA SinkPreserves ==
  ASSUME TypeOK, i < n, SinkingAt(i, n), Sinks(i) # i,
         base' = Memswap(base, i, Sinks(i)), i' = Sinks(i), n' = n
  PROVE  SinkingAt(i, n)' /\ base' \in [Indices -> Elems] /\ i' \in 0..Cap /\ i' < n
<1> DEFINE s == Sinks(i)
<1>1. /\ s \in 1..n - 1 /\ Parent(s) = i
      /\ Less(base[s], base[i])
      /\ \A c \in 1..n - 1 : Parent(c) = i => ~Less(base[c], base[s])
  BY SinksChoice DEF TypeOK
<1>2. i \in Nat /\ i < s /\ i \in Indices /\ s \in Indices
  BY <1>1, ParentFacts, CapAssumption DEF TypeOK, Indices
<1>3. \A j \in Indices : base'[j] = IF j = s THEN base[i]
                                    ELSE IF j = i THEN base[s] ELSE base[j]
  BY <1>2 DEF TypeOK, Memswap
<1>4. base' \in [Indices -> Elems]
  BY <1>2 DEF TypeOK, Memswap
<1>5. \A j \in 1..n - 1 : j \in Indices /\ Parent(j) \in Indices /\ Parent(j) < j
                          /\ Parent(j) \in Nat
  BY ParentFacts, CapAssumption DEF TypeOK, Indices
<1>6. \A x \in Indices : Key[base[x]] \in Int
  BY KeyAssumption DEF TypeOK
<1>7. \A j \in 1..n - 1 : Parent(j) # s => ~Less(base'[j], base'[Parent(j)])
  <2> SUFFICES ASSUME NEW j \in 1..n - 1, Parent(j) # s
               PROVE  ~Less(base'[j], base'[Parent(j)])
    OBVIOUS
  <2>1. CASE Parent(j) = i
    BY <1>1, <1>2, <1>3, <1>5, <1>6, <2>1 DEF Less
  <2>2. CASE j = i
    BY <1>1, <1>2, <1>3, <1>5, <2>2 DEF SinkingAt
  <2>3. CASE Parent(j) # i /\ j # i
    <3>1. j # s
      BY <1>1, <2>3
    <3> QED
      BY <1>2, <1>3, <1>5, <2>3, <3>1 DEF SinkingAt
  <2> QED
    BY <2>1, <2>2, <2>3
<1>8. \A j \in 1..n - 1 :
        Parent(j) = s => ~Less(base'[j], base'[Parent(s)])
  BY <1>1, <1>2, <1>3, <1>5 DEF SinkingAt
<1> QED
  BY <1>1, <1>2, <1>4, <1>7, <1>8, CapAssumption DEF SinkingAt, TypeOK

LEMMA SinkDone ==
  ASSUME TypeOK, i < n, SinkingAt(i, n), Sinks(i) = i
  PROVE  HeapUpTo(n)
<1>1. \A c \in 1..n - 1 : Parent(c) = i => ~Less(base[c], base[i])
  BY SinksChoice DEF TypeOK
<1> QED
  BY <1>1 DEF SinkingAt, HeapUpTo

\* Every loop iteration and every call keeps the invariant.
LEMMA NextIInv == IInv /\ [Next]_vars => IInv'
<1> SUFFICES ASSUME IInv, [Next]_vars PROVE IInv'
  OBVIOUS
<1>0. TypeOK /\ HeapOrder /\ SiftInv
  BY DEF IInv
<1>1. CASE UpSwap
  <2>1. CASE op = "heapify"
    <3>1. k + 1 \in 0..Cap /\ i < k + 1 /\ RisingAt(i, k + 1)
      BY <1>0, <2>1, CapAssumption DEF SiftInv, TypeOK
    <3>2. /\ RisingAt(i, k + 1)' /\ base' \in [Indices -> Elems]
          /\ i' \in 0..Cap /\ i' < k + 1
      BY <1>0, <1>1, <3>1, RisePreserves DEF UpSwap, RisingAt
    <3> QED
      BY <1>0, <1>1, <2>1, <3>1, <3>2
         DEF UpSwap, IInv, TypeOK, HeapOrder, SiftInv
  <2>2. CASE op = "add"
    <3>1. n \in 0..Cap /\ i < n /\ RisingAt(i, n)
      BY <1>0, <2>2 DEF SiftInv, TypeOK
    <3>2. /\ RisingAt(i, n)' /\ base' \in [Indices -> Elems]
          /\ i' \in 0..Cap /\ i' < n
      BY <1>0, <1>1, <3>1, RisePreserves DEF UpSwap, RisingAt
    <3> QED
      BY <1>0, <1>1, <2>2, <3>1, <3>2
         DEF UpSwap, IInv, TypeOK, HeapOrder, SiftInv
  <2> QED
    BY <1>1, <2>1, <2>2 DEF UpSwap
<1>2. CASE DownSwap
  <2>1. /\ SinkingAt(i, n)' /\ base' \in [Indices -> Elems]
        /\ i' \in 0..Cap /\ i' < n
    BY <1>0, <1>2, SinkPreserves DEF DownSwap, SiftInv
  <2> QED
    BY <1>0, <1>2, <2>1 DEF DownSwap, IInv, TypeOK, HeapOrder, SiftInv
<1>3. CASE DownDone
  <2>1. HeapUpTo(n)
    BY <1>0, <1>3, SinkDone DEF DownDone, SiftInv
  <2> QED
    BY <1>0, <1>3, <2>1 DEF DownDone, IInv, TypeOK, HeapOrder, SiftInv, HeapUpTo
<1>4. CASE Heapify
  BY <1>0, <1>4, CapAssumption DEF Heapify, IInv, TypeOK, HeapOrder, SiftInv, HeapUpTo, RisingAt
<1>5. CASE HeapifyNext
  <2>1. k + 1 \in 0..Cap /\ i < k + 1 /\ RisingAt(i, k + 1) /\ k < n
    BY <1>0, <1>5, CapAssumption DEF SiftInv, TypeOK, HeapifyNext
  <2>2. HeapUpTo(k + 1)
    BY <1>0, <1>5, <2>1, RiseDone DEF HeapifyNext
  <2>3. CASE k + 1 < n
    <3>1. RisingAt(i, k + 1)'
      <4>1. i' = k + 1 /\ k' = k + 1 /\ base' = base
        BY <1>5, <2>3 DEF HeapifyNext
      <4>2. \A j \in 1..k + 1 : Parent(j) # k + 1
        BY <1>0, ParentFacts DEF TypeOK
      <4> QED
        BY <1>0, <2>2, <4>1, <4>2 DEF RisingAt, HeapUpTo, TypeOK
    <3> QED
      BY <1>0, <1>5, <2>1, <2>3, <3>1
         DEF HeapifyNext, IInv, TypeOK, HeapOrder, SiftInv
  <2>4. CASE ~(k + 1 < n)
    <3>1. k + 1 = n
      BY <1>0, <2>1, <2>4 DEF TypeOK
    <3> QED
      BY <1>0, <1>5, <2>2, <2>4, <3>1
         DEF HeapifyNext, IInv, TypeOK, HeapOrder, SiftInv, HeapUpTo
  <2> QED
    BY <2>3, <2>4
<1>6. ASSUME NEW e \in Elems, HeapAdd(e) PROVE IInv'
  <2>1. HeapUpTo(n)
    BY <1>0, <1>6 DEF HeapOrder, HeapAdd
  <2>2. n \in Indices /\ n + 1 \in 0..Cap
    BY <1>0, <1>6, CapAssumption DEF HeapAdd, TypeOK, Indices
  <2>3. base' \in [Indices -> Elems]
    BY <1>0, <1>6, <2>2 DEF HeapAdd, TypeOK
  <2>4. \A j \in 0..n - 1 : base'[j] = base[j]
    BY <1>0, <1>6, <2>2 DEF HeapAdd, TypeOK, Indices
  <2>5. RisingAt(i, n)'
    <3>1. i' = n /\ n' = n + 1 /\ n \in Nat
      BY <1>0, <1>6 DEF HeapAdd, TypeOK
    <3>2. \A j \in 1..n : Parent(j) \in 0..n - 1
      BY <3>1, ParentFacts
    <3> QED
      BY <2>1, <2>4, <3>1, <3>2 DEF RisingAt, HeapUpTo
  <2> QED
    BY <1>0, <1>6, <2>2, <2>3, <2>5 DEF HeapAdd, IInv, TypeOK, HeapOrder, SiftInv
<1>7. CASE AddDone
  <2>1. HeapUpTo(n)
    BY <1>0, <1>7, RiseDone DEF AddDone, SiftInv, TypeOK
  <2> QED
    BY <1>0, <1>7, <2>1 DEF AddDone, IInv, TypeOK, HeapOrder, SiftInv, HeapUpTo
<1>8. ASSUME NEW w \in BOOLEAN, HeapPop(w) PROVE IInv'
  <2>1. HeapUpTo(n) /\ n \in 1..Cap /\ 0 \in Indices /\ n - 1 \in Indices
    BY <1>0, <1>8, CapAssumption DEF HeapOrder, HeapPop, TypeOK, Indices
  <2>2. out' \in Elems \cup {NoElem}
    BY <1>0, <1>8, <2>1 DEF HeapPop, TypeOK
  <2>3. CASE n = 1
    BY <1>0, <1>8, <2>1, <2>2, <2>3, CapAssumption
       DEF HeapPop, IInv, TypeOK, HeapOrder, SiftInv, HeapUpTo
  <2>4. CASE n # 1
    <3>1. base' = [base EXCEPT ![0] = base[n - 1]] /\ op' = "pop" /\ i' = 0
          /\ n' = n - 1 /\ UNCHANGED <<k, elem>>
      BY <1>8, <2>4 DEF HeapPop
    <3>2. base' \in [Indices -> Elems]
      BY <1>0, <2>1, <3>1 DEF TypeOK
    <3>3. \A j \in 1..n - 1 : base'[j] = base[j]
      BY <1>0, <2>1, <3>1 DEF TypeOK, Indices
    <3>4. SinkingAt(i, n)'
      <4>1. \A j \in 1..n - 1 : Parent(j) \in 0..n - 1
        BY <2>1, ParentFacts
      <4> QED
        BY <2>1, <3>1, <3>3, <4>1 DEF SinkingAt, HeapUpTo
    <3> QED
      BY <1>0, <2>1, <2>2, <2>4, <3>1, <3>2, <3>4, CapAssumption
         DEF IInv, TypeOK, HeapOrder, SiftInv
  <2> QED
    BY <2>3, <2>4
<1>9. CASE UNCHANGED vars
  BY <1>0, <1>9
     DEF vars, IInv, TypeOK, HeapOrder, SiftInv, HeapUpTo, RisingAt, SinkingAt
<1> QED
  BY <1>1, <1>2, <1>3, <1>4, <1>5, <1>6, <1>7, <1>8, <1>9 DEF Next

\* Once heapify has run, the array is a min-heap between any two calls.
THEOREM HeapStaysOrdered == Spec => [](TypeOK /\ HeapOrder)
<1>1. IInv => TypeOK /\ HeapOrder
  BY DEF IInv
<1> QED
  BY <1>1, InitIInv, NextIInv, PTL DEF Spec

\* heap_pop takes, and copies out, an element that no other in the heap is less
\* than.
THEOREM PopsTakeLeast == Spec => PopTakesLeast
<1>1. IInv /\ [Next]_vars =>
        [\A w \in BOOLEAN : HeapPop(w) =>
           /\ w => out' = base[0]
           /\ \A j \in 0..n - 1 : ~Less(base[j], base[0])]_vars
  <2> SUFFICES ASSUME IInv, NEW w \in BOOLEAN, HeapPop(w)
               PROVE  /\ w => out' = base[0]
                      /\ \A j \in 0..n - 1 : ~Less(base[j], base[0])
    OBVIOUS
  <2>1. TypeOK /\ HeapUpTo(n) /\ n \in 0..Cap /\ n > 0
    BY DEF IInv, HeapOrder, HeapPop, TypeOK
  <2> QED
    BY <2>1, TopIsLeast DEF HeapPop
<1> QED
  BY <1>1, InitIInv, NextIInv, PTL DEF Spec, PopTakesLeast

-----------------------------------------------------------------------------
\* While heap_add lifts the new element, the loop variable stays with it.
LEMMA NextAddInv ==
  IInv /\ AddReturnsPosition /\ [Next]_vars => AddReturnsPosition'
<1> SUFFICES ASSUME IInv, AddReturnsPosition, [Next]_vars, op' = "add"
             PROVE  base'[i'] = elem'
  BY DEF AddReturnsPosition
<1>1. TypeOK /\ (op = "add" => i \in 0..Cap - 1 /\ base[i] = elem)
  BY CapAssumption DEF IInv, SiftInv, TypeOK, AddReturnsPosition
<1>2. CASE UNCHANGED vars
  BY <1>1, <1>2 DEF vars
<1>3. CASE UpSwap
  <2>1. op = "add" /\ elem' = elem /\ i' = Parent(i) /\ i > 0
    BY <1>3 DEF UpSwap, Rises
  <2>2. Parent(i) \in Nat /\ Parent(i) < i
    BY <1>1, <2>1, ParentFacts
  <2>3. base' = [base EXCEPT ![i] = base[Parent(i)], ![Parent(i)] = base[i]]
    BY <1>3 DEF UpSwap, Memswap
  <2>4. base \in [0..Cap - 1 -> Elems] /\ Parent(i) \in 0..Cap - 1
    BY <1>1, <2>1, <2>2, CapAssumption DEF TypeOK, Indices
  <2>5. base'[Parent(i)] = base[i]
    BY <2>3, <2>4
  <2> QED
    BY <1>1, <2>1, <2>5
<1>4. ASSUME NEW e \in Elems, HeapAdd(e) PROVE base'[i'] = elem'
  <2>1. n \in 0..Cap - 1 /\ i' = n /\ elem' = e /\ base' = [base EXCEPT ![n] = e]
    BY <1>1, <1>4, CapAssumption DEF HeapAdd, TypeOK
  <2> QED
    BY <1>1, <2>1 DEF TypeOK, Indices
<1>5. ~(DownSwap \/ DownDone \/ Heapify \/ HeapifyNext \/ AddDone)
  BY DEF DownSwap, DownDone, Heapify, HeapifyNext, AddDone
<1>6. \A w \in BOOLEAN : ~HeapPop(w)
  BY DEF HeapPop
<1> QED
  BY <1>2, <1>3, <1>4, <1>5, <1>6 DEF Next

\* When heap_add returns, the position it returns holds the element added, equal
\* elements or not (hlibc/heap.c, heap_add and heap_up).
THEOREM AddsAtPosition == Spec => []AddReturnsPosition
<1>1. Init => AddReturnsPosition
  BY DEF Init, AddReturnsPosition
<1> QED
  BY <1>1, InitIInv, NextIInv, NextAddInv, PTL DEF Spec

\* is_minheap takes a heap exactly when no child equals its parent, whatever the
\* array and the ranking (hlibc/heap.c, is_minheap).
THEOREM MinheapsAreStrict == Spec => []IsMinheapStrict
<1>1. ASSUME TypeOK PROVE IsMinheapStrict
  <2> DEFINE Above(j) == Key[base[j]] > Key[base[Parent(j)]]
  <2>1. n \in 0..Cap /\ n <= Cap /\ \A j \in 0..n - 1 : Key[base[j]] \in Int
    BY <1>1, KeyAssumption, CapAssumption DEF TypeOK, Indices
  <2>2. IsMinheap <=> \A j \in 1..n - 1 : Above(j)
    <3>1. ASSUME IsMinheap, NEW j \in 1..n - 1 PROVE Above(j)
      <4>1. Parent(j) \in 0..n - 1 /\ j \in {Left(Parent(j)), Right(Parent(j))}
        BY <2>1, <3>1, ParentFacts
      <4> QED
        BY <2>1, <3>1, <4>1 DEF IsMinheap, Less
    <3>2. ASSUME \A j \in 1..n - 1 : Above(j), NEW j \in 0..n - 1,
                 NEW c \in {Left(j), Right(j)}, c < n
          PROVE  Less(base[j], base[c])
      <4>1. c \in 1..n - 1 /\ Parent(c) = j
        BY <2>1, <3>2, ChildFacts
      <4>2. Above(c)
        BY <3>2, <4>1
      <4> QED
        BY <2>1, <4>1, <4>2 DEF Less
    <3> QED
      BY <3>1, <3>2 DEF IsMinheap
  <2>3. ASSUME NEW j \in 1..n - 1
        PROVE  Above(j) <=> /\ ~Less(base[j], base[Parent(j)])
                            /\ Key[base[j]] # Key[base[Parent(j)]]
    <3>1. Parent(j) \in 0..n - 1 /\ j \in 0..n - 1
      BY <2>1, ParentFacts
    <3>2. Key[base[j]] \in Int /\ Key[base[Parent(j)]] \in Int
      BY <2>1, <3>1
    <3> QED
      BY <3>2 DEF Less
  <2> HIDE DEF Above
  <2> QED
    BY <2>2, <2>3 DEF IsMinheapStrict, HeapUpTo
<1> QED
  BY <1>1, HeapStaysOrdered, PTL
-----------------------------------------------------------------------------
(* The refinement of PriorityQueue. *)

\* Where e is among the first m elements of f.
Places(f, m, e) == {j \in 0..m - 1 : f[j] = e}

LEMMA PlacesFinite ==
  ASSUME NEW f, NEW m \in Nat, NEW e
  PROVE  /\ IsFiniteSet(Places(f, m, e))
         /\ Cardinality(Places(f, m, e)) \in Nat
<1>1. IsFiniteSet(0..m - 1) /\ Places(f, m, e) \in SUBSET (0..m - 1)
  BY FS_Interval DEF Places
<1>2. IsFiniteSet(Places(f, m, e))
  BY <1>1, FS_Subset
<1> QED
  BY <1>2, FS_CardinalityType

\* One more element at the end.
LEMMA OneMorePlace ==
  ASSUME NEW f, NEW m \in Nat, NEW e
  PROVE  Cardinality(Places(f, m + 1, e)) =
           Cardinality(Places(f, m, e)) + (IF f[m] = e THEN 1 ELSE 0)
<1>1. IsFiniteSet(Places(f, m, e)) /\ Cardinality(Places(f, m, e)) \in Nat
  BY PlacesFinite
<1>2. m \notin Places(f, m, e)
  BY DEF Places
<1>3. CASE f[m] = e
  <2>1. Places(f, m + 1, e) = Places(f, m, e) \cup {m}
    BY <1>3 DEF Places
  <2> QED
    BY <1>1, <1>2, <1>3, <2>1, FS_AddElement
<1>4. CASE f[m] # e
  <2>1. Places(f, m + 1, e) = Places(f, m, e)
    BY <1>4 DEF Places
  <2> QED
    BY <1>1, <1>4, <2>1
<1> QED
  BY <1>3, <1>4

\* An element that leaves a place for another.
LEMMA MovedPlace ==
  ASSUME NEW S, IsFiniteSet(S), NEW x \in S, NEW y, y \notin S
  PROVE  Cardinality((S \ {x}) \cup {y}) = Cardinality(S)
<1>1. IsFiniteSet(S \ {x}) /\ Cardinality(S \ {x}) = Cardinality(S) - 1
  BY FS_RemoveElement
<1>2. Cardinality(S) \in Nat
  BY FS_CardinalityType
<1>3. Cardinality((S \ {x}) \cup {y}) = Cardinality(S \ {x}) + 1
  BY <1>1, FS_AddElement
<1> QED
  BY <1>1, <1>2, <1>3

\* memswap moves elements about and makes none.
LEMMA SwapKeepsPlaces ==
  ASSUME NEW m \in 0..Cap, NEW f \in [Indices -> Elems],
         NEW p \in 0..m - 1, NEW q \in 0..m - 1, NEW e
  PROVE  Cardinality(Places(Memswap(f, p, q), m, e)) = Cardinality(Places(f, m, e))
<1> DEFINE g == Memswap(f, p, q)
<1>1. /\ g[p] = f[q] /\ g[q] = f[p]
      /\ \A j \in 0..m - 1 : j # p /\ j # q => g[j] = f[j]
  BY CapAssumption DEF Memswap, Indices
<1>2. IsFiniteSet(Places(f, m, e))
  BY PlacesFinite
<1> HIDE DEF g
<1>3. CASE f[p] = e <=> f[q] = e
  <2>1. Places(g, m, e) = Places(f, m, e)
    BY <1>1, <1>3 DEF Places
  <2> QED
    BY <2>1 DEF g
<1>4. CASE f[p] = e /\ f[q] # e
  <2>1. Places(g, m, e) = (Places(f, m, e) \ {p}) \cup {q}
    BY <1>1, <1>4 DEF Places
  <2>2. p \in Places(f, m, e) /\ q \notin Places(f, m, e)
    BY <1>4 DEF Places
  <2> QED
    BY <1>2, <2>1, <2>2, MovedPlace DEF g
<1>5. CASE f[p] # e /\ f[q] = e
  <2>1. Places(g, m, e) = (Places(f, m, e) \ {q}) \cup {p}
    BY <1>1, <1>5 DEF Places
  <2>2. q \in Places(f, m, e) /\ p \notin Places(f, m, e)
    BY <1>5 DEF Places
  <2> QED
    BY <1>2, <2>1, <2>2, MovedPlace DEF g
<1> QED
  BY <1>3, <1>4, <1>5

\* heap_pop: the element on top is the one that goes.
LEMMA PopCounts ==
  ASSUME NEW m \in 1..Cap, NEW f \in [Indices -> Elems], NEW e
  PROVE  Cardinality(Places([f EXCEPT ![0] = f[m - 1]], m - 1, e)) =
           Cardinality(Places(f, m, e)) - (IF f[0] = e THEN 1 ELSE 0)
<1> DEFINE g == Memswap(f, 0, m - 1)
           h == [f EXCEPT ![0] = f[m - 1]]
<1>1. /\ g[m - 1] = f[0] /\ \A j \in 0..m - 2 : g[j] = h[j]
  BY CapAssumption DEF Memswap, Indices
<1>2. Cardinality(Places(g, m, e)) = Cardinality(Places(f, m, e))
  BY SwapKeepsPlaces, CapAssumption
<1> HIDE DEF g, h
<1>3. Places(h, m - 1, e) = Places(g, m - 1, e)
  BY <1>1 DEF Places
<1>4. Cardinality(Places(g, m, e)) =
        Cardinality(Places(g, m - 1, e)) + (IF g[m - 1] = e THEN 1 ELSE 0)
  <2>1. m - 1 \in Nat /\ (m - 1) + 1 = m
    BY CapAssumption
  <2> QED
    BY <2>1, OneMorePlace
<1>5. Cardinality(Places(g, m - 1, e)) \in Nat
  BY PlacesFinite, CapAssumption
<1>6. Cardinality(Places(h, m - 1, e)) =
        Cardinality(Places(f, m, e)) - (IF f[0] = e THEN 1 ELSE 0)
  BY <1>1, <1>2, <1>3, <1>4, <1>5
<1> QED
  BY <1>6 DEF h

-----------------------------------------------------------------------------
CountIs == Count = [e \in Elems |-> Cardinality(Places(base, n, e))]

LEMMA CountPlaces == CountIs
BY DEF CountIs, Count, Places

LEMMA InitQueue == Init => PQ!PQInit
<1> SUFFICES ASSUME Init PROVE PQ!PQInit
  OBVIOUS
<1>1. n \in Nat /\ out = NoElem
  BY CapAssumption DEF Init
<1>2. Count \in [Elems -> Nat]
  BY <1>1, CountPlaces, PlacesFinite DEF CountIs
<1> QED
  BY <1>1, <1>2 DEF PQ!PQInit

\* A step of a sift is none of the queue.
LEMMA SiftStutters ==
  ASSUME IInv, UpSwap \/ DownSwap
  PROVE  UNCHANGED <<Count, out>>
<1>1. /\ n \in 0..Cap /\ base \in [Indices -> Elems] /\ n' = n /\ out' = out
  BY DEF IInv, TypeOK, UpSwap, DownSwap
<1>2. \E p, q \in 0..n - 1 : base' = Memswap(base, p, q)
  <2>1. CASE UpSwap
    <3>1. i \in 0..n - 1 /\ i > 0 /\ base' = Memswap(base, i, Parent(i))
      BY <1>1, <2>1, CapAssumption DEF IInv, TypeOK, SiftInv, UpSwap, Rises
    <3>2. Parent(i) \in 0..n - 1
      BY <1>1, <3>1, ParentFacts, CapAssumption
    <3> QED
      BY <3>1, <3>2
  <2>2. CASE DownSwap
    <3>1. i \in 0..n - 1 /\ Sinks(i) # i /\ base' = Memswap(base, i, Sinks(i))
      BY <1>1, <2>2, CapAssumption DEF IInv, TypeOK, SiftInv, DownSwap
    <3>2. Sinks(i) \in 0..n - 1
      BY <1>1, <3>1, SinksChoice, CapAssumption DEF IInv
    <3> QED
      BY <3>1, <3>2
  <2> QED
    BY <2>1, <2>2
<1>3. PICK p \in 0..n - 1, q \in 0..n - 1 : base' = Memswap(base, p, q)
  BY <1>2
<1>4. ASSUME NEW e \in Elems
      PROVE  Cardinality(Places(base', n', e)) = Cardinality(Places(base, n, e))
  BY <1>1, <1>3, SwapKeepsPlaces
<1>5. Count' = [e \in Elems |-> Cardinality(Places(base', n', e))]
  BY DEF Count, Places
<1> QED
  BY <1>1, <1>4, <1>5, CountPlaces DEF CountIs

LEMMA AddInserts ==
  ASSUME IInv, NEW e \in Elems, HeapAdd(e)
  PROVE  PQ!Insert(e)
<1>1. /\ n \in Nat /\ n \in Indices /\ base \in [Indices -> Elems]
      /\ base' = [base EXCEPT ![n] = e] /\ n' = n + 1 /\ out' = out
  BY CapAssumption DEF IInv, TypeOK, HeapAdd, Indices
<1>2. ASSUME NEW x \in Elems
      PROVE  Cardinality(Places(base', n', x)) =
               Cardinality(Places(base, n, x)) + (IF x = e THEN 1 ELSE 0)
  <2>1. base'[n] = e /\ Places(base', n, x) = Places(base, n, x)
    BY <1>1 DEF Places, Indices
  <2>2. Cardinality(Places(base', n + 1, x)) =
          Cardinality(Places(base', n, x)) + (IF base'[n] = x THEN 1 ELSE 0)
    BY <1>1, OneMorePlace
  <2> QED
    BY <1>1, <2>1, <2>2
<1>3. Count' = [x \in Elems |-> Cardinality(Places(base', n', x))]
  BY DEF Count, Places
<1>4. \A x \in Elems : Count[x] \in Nat /\ Count[x] = Cardinality(Places(base, n, x))
  BY <1>1, CountPlaces, PlacesFinite DEF CountIs
<1>5. Count' = [Count EXCEPT ![e] = @ + 1]
  <2>1. Count = [x \in Elems |-> Cardinality(Places(base, n, x))]
    BY CountPlaces DEF CountIs
  <2> QED
    BY <1>2, <1>3, <1>4, <2>1
<1> QED
  BY <1>1, <1>5 DEF PQ!Insert

LEMMA PopDeletes ==
  ASSUME IInv, NEW w \in BOOLEAN, HeapPop(w)
  PROVE  base[0] \in Elems /\ PQ!DeleteMin(base[0])
<1> DEFINE e == base[0]
<1>1. /\ n \in 1..Cap /\ n - 1 \in Nat /\ base \in [Indices -> Elems] /\ e \in Elems
      /\ HeapUpTo(n) /\ n' = n - 1 /\ out' \in {e, out}
  BY CapAssumption DEF IInv, HeapOrder, TypeOK, HeapPop, Indices
<1>2. \A x \in 0..n' - 1 : base'[x] = [base EXCEPT ![0] = base[n - 1]][x]
  <2>1. CASE n = 1
    BY <1>1, <2>1
  <2>2. CASE n # 1
    BY <2>2 DEF HeapPop
  <2> QED
    BY <2>1, <2>2
<1>3. ASSUME NEW x \in Elems
      PROVE  Cardinality(Places(base', n', x)) =
               Cardinality(Places(base, n, x)) - (IF x = e THEN 1 ELSE 0)
  <2>1. Places(base', n', x) = Places([base EXCEPT ![0] = base[n - 1]], n - 1, x)
    BY <1>1, <1>2 DEF Places
  <2> QED
    BY <1>1, <2>1, PopCounts
<1>4. \A x \in Elems : Count[x] \in Nat /\ Count[x] = Cardinality(Places(base, n, x))
  <2>1. n \in Nat
    BY <1>1, CapAssumption
  <2> QED
    BY <2>1, CountPlaces, PlacesFinite DEF CountIs
<1>5. Count' = [Count EXCEPT ![e] = @ - 1]
  <2>1. Count = [x \in Elems |-> Cardinality(Places(base, n, x))]
    BY CountPlaces DEF CountIs
  <2>2. Count' = [x \in Elems |-> Cardinality(Places(base', n', x))]
    BY DEF Count, Places
  <2> QED
    BY <1>1, <1>3, <1>4, <2>1, <2>2
<1>6. Count[e] > 0
  <2>1. n \in Nat /\ 0 \in Places(base, n, e)
    BY <1>1, CapAssumption DEF Places
  <2>2. Cardinality(Places(base, n, e)) # 0
    BY <2>1, PlacesFinite, FS_EmptySet
  <2> QED
    BY <1>1, <1>4, <2>2
<1>7. ASSUME NEW x \in Elems, PQ!LessElem(x, e) PROVE Count[x] = 0
  <2>1. ASSUME NEW j \in 0..n - 1 PROVE base[j] # x
    <3>1. ~Less(base[j], base[0])
      BY <1>1, TopIsLeast, CapAssumption DEF IInv
    <3> QED
      BY <1>7, <3>1 DEF Less, PQ!LessElem
  <2>2. Places(base, n, x) = {}
    BY <2>1 DEF Places
  <2> QED
    BY <1>4, <2>2, FS_EmptySet
<1> HIDE DEF e
<1>8. PQ!DeleteMin(e)
  BY <1>1, <1>5, <1>6, <1>7 DEF PQ!DeleteMin
<1> QED
  BY <1>1, <1>8 DEF e

LEMMA NextQueue == IInv /\ [Next]_vars => [PQ!PQNext]_<<Count, out>>
<1> SUFFICES ASSUME IInv, [Next]_vars PROVE PQ!PQNext \/ UNCHANGED <<Count, out>>
  OBVIOUS
<1>1. CASE UpSwap \/ DownSwap
  BY <1>1, SiftStutters
<1>2. ASSUME UNCHANGED <<base, n, out>> PROVE UNCHANGED <<Count, out>>
  BY <1>2 DEF Count
<1>3. CASE UNCHANGED vars
  BY <1>2, <1>3 DEF vars
<1>4. CASE DownDone \/ Heapify \/ HeapifyNext \/ AddDone
  BY <1>2, <1>4 DEF DownDone, Heapify, HeapifyNext, AddDone
<1>5. ASSUME NEW e \in Elems, HeapAdd(e) PROVE PQ!PQNext
  BY <1>5, AddInserts DEF PQ!PQNext
<1>6. ASSUME NEW w \in BOOLEAN, HeapPop(w) PROVE PQ!PQNext
  BY <1>6, PopDeletes DEF PQ!PQNext
<1> QED
  BY <1>1, <1>3, <1>4, <1>5, <1>6 DEF Next

\* The calls of heap.c implement a priority queue: they lose and duplicate no
\* element, and heap_pop removes one that no other is less than.
THEOREM HeapImplementsQueue == Spec => ImplementsQueue
<1>1. Spec => PQ!PQInit /\ [][PQ!PQNext]_<<Count, out>>
  BY InitQueue, InitIInv, NextIInv, NextQueue, PTL DEF Spec
<1> QED
  BY <1>1 DEF ImplementsQueue, PQ!PQSpec
=============================================================================
