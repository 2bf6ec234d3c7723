-------------------------------- MODULE Heap --------------------------------
(***************************************************************************)
(* The binary min-heap of hlibc/heap.c, one loop iteration per step.        *)
(*                                                                         *)
(* The caller owns the array and the count n: it passes n to heap_add and   *)
(* then counts one more, and one less after heap_pop.  `less' is the        *)
(* caller's strict weak order; elements it does not tell apart have the     *)
(* same Key.                                                               *)
(***************************************************************************)
EXTENDS Integers, FiniteSets

CONSTANTS
  Elems,        \* the values of an element
  Key,          \* the rank `less' compares
  NoElem,       \* the copy before anything was copied
  Cap           \* elements the caller's array has room for

ASSUME KeyAssumption == Key \in [Elems -> Int]
ASSUME CapAssumption == Cap \in Nat \ {0}
ASSUME NoElemAssumption == NoElem \notin Elems

VARIABLES
  base,         \* the array
  n,            \* elements in use
  op,           \* the call in progress, "raw" before the first heapify
  i,            \* the loop variable of heap_up or heap_down
  k,            \* the loop variable of heapify
  elem,         \* ghost: the element being added
  out           \* *copy after heap_pop
vars == <<base, n, op, i, k, elem, out>>

Indices  == 0..Cap - 1
Less(x, y) == Key[x] < Key[y]
Parent(j) == (j - 1) \div 2
Left(j)   == 2 * j + 1
Right(j)  == 2 * j + 2
Memswap(f, p, q) == [f EXCEPT ![p] = f[q], ![q] = f[p]]

Init ==
  /\ base \in [Indices -> Elems] /\ n \in 0..Cap
  /\ op = "raw" /\ i = 0 /\ k = 0
  /\ elem = NoElem /\ out = NoElem

-----------------------------------------------------------------------------
\* heap_up swaps when there is a parent that the element is less than.
Rises(j) == j > 0 /\ Less(base[j], base[Parent(j)])

\* Mutant of UpSwap: the position stays behind.
UpSwapStays ==
  /\ op \in {"heapify", "add"} /\ Rises(i)
  /\ base' = Memswap(base, i, Parent(i))
  /\ UNCHANGED <<i, n, op, k, elem, out>>

UpSwap ==
  /\ op \in {"heapify", "add"} /\ Rises(i)
  /\ base' = Memswap(base, i, Parent(i))
  /\ i' = Parent(i)
  /\ UNCHANGED <<n, op, k, elem, out>>

\* The child heap_down swaps with: the lesser one, the right one when neither
\* is less than the other; j itself when that child is not less than j.
Sinks(j) ==
  LET c == IF Right(j) < n /\ ~Less(base[Left(j)], base[Right(j)])
           THEN Right(j) ELSE Left(j)
  IN IF c < n /\ Less(base[c], base[j]) THEN c ELSE j

DownSwap ==
  /\ op = "pop" /\ Sinks(i) # i
  /\ base' = Memswap(base, i, Sinks(i))
  /\ i' = Sinks(i)
  /\ UNCHANGED <<n, op, k, elem, out>>

DownDone ==
  /\ op = "pop" /\ Sinks(i) = i
  /\ op' = "idle"
  /\ UNCHANGED <<base, n, i, k, elem, out>>

-----------------------------------------------------------------------------
(* heapify(base, n): heap_up on every index in turn.                       *)

Heapify ==
  /\ op \in {"raw", "idle"}
  /\ op' = IF n = 0 THEN "idle" ELSE "heapify"
  /\ i' = 0 /\ k' = 0
  /\ UNCHANGED <<base, n, elem, out>>

\* Mutant of HeapifyNext: the last index is left out.
HeapifyNextShort ==
  /\ op = "heapify" /\ ~Rises(i)
  /\ IF k + 2 < n THEN k' = k + 1 /\ i' = k + 1 /\ UNCHANGED op
                  ELSE op' = "idle" /\ UNCHANGED <<i, k>>
  /\ UNCHANGED <<base, n, elem, out>>

\* Mutant of HeapifyNext: the index is not advanced.
HeapifyNextStuck ==
  /\ op = "heapify" /\ ~Rises(i)
  /\ IF k + 1 < n THEN i' = k /\ UNCHANGED <<k, op>>
                  ELSE op' = "idle" /\ UNCHANGED <<i, k>>
  /\ UNCHANGED <<base, n, elem, out>>

HeapifyNext ==
  /\ op = "heapify" /\ ~Rises(i)
  /\ IF k + 1 < n THEN k' = k + 1 /\ i' = k + 1 /\ UNCHANGED op
                  ELSE op' = "idle" /\ UNCHANGED <<i, k>>
  /\ UNCHANGED <<base, n, elem, out>>

HeapAdd(e) ==
  /\ op = "idle" /\ n < Cap
  /\ op' = "add"
  /\ base' = [base EXCEPT ![n] = e] /\ elem' = e
  /\ i' = n /\ n' = n + 1
  /\ UNCHANGED <<k, out>>

\* The caller gets the address of base[i].
AddDone ==
  /\ op = "add" /\ ~Rises(i)
  /\ op' = "idle"
  /\ UNCHANGED <<base, n, i, k, elem, out>>

\* Mutant of HeapPop: the copy is made after the last element has moved.
HeapPopCopiesLate(wanted) ==
  /\ op = "idle" /\ n > 0
  /\ out' = IF wanted THEN base[n - 1] ELSE out
  /\ n' = n - 1
  /\ IF n = 1 THEN UNCHANGED <<base, op, i>>
              ELSE base' = [base EXCEPT ![0] = base[n - 1]] /\ op' = "pop" /\ i' = 0
  /\ UNCHANGED <<k, elem>>

\* The last element moves to the top and sinks; its old slot keeps its value.
HeapPop(wanted) ==
  /\ op = "idle" /\ n > 0
  /\ out' = IF wanted THEN base[0] ELSE out
  /\ n' = n - 1
  /\ IF n = 1 THEN UNCHANGED <<base, op, i>>
              ELSE base' = [base EXCEPT ![0] = base[n - 1]] /\ op' = "pop" /\ i' = 0
  /\ UNCHANGED <<k, elem>>

Next ==
  \/ UpSwap \/ DownSwap \/ DownDone
  \/ Heapify \/ HeapifyNext \/ AddDone
  \/ \E e \in Elems : HeapAdd(e)
  \/ \E wanted \in BOOLEAN : HeapPop(wanted)

\* A call that has been made runs to its end; nobody has to make one.
Spec == Init /\ [][Next]_vars
             /\ WF_vars(UpSwap \/ DownSwap \/ DownDone \/ HeapifyNext \/ AddDone)

-----------------------------------------------------------------------------
TypeOK ==
  /\ base \in [Indices -> Elems] /\ n \in 0..Cap
  /\ op \in {"raw", "idle", "heapify", "add", "pop"}
  /\ i \in 0..Cap /\ k \in 0..Cap
  /\ {elem, out} \subseteq Elems \cup {NoElem}

\* The first m elements are a min-heap: no element is less than its parent.
HeapUpTo(m) == \A j \in 1..m - 1 : ~Less(base[j], base[Parent(j)])

\* Between calls, once heapify has run, the array is a min-heap.
HeapOrder == op = "idle" => HeapUpTo(n)

\* Mutant of IsMinheap: only the left children are compared.
IsMinheapLeft == \A j \in 0..n - 1 : Left(j) < n => Less(base[j], base[Left(j)])

\* is_minheap, as it is: a child has to be greater than its parent.
IsMinheap ==
  \A j \in 0..n - 1 : \A c \in {Left(j), Right(j)} :
    c < n => Less(base[j], base[c])

\* is_minheap takes a min-heap in which no two elements are equal, and of those in
\* which some are, none where a child equals its parent, which the calls do leave.
IsMinheapStrict ==
  IsMinheap <=> HeapUpTo(n) /\ \A j \in 1..n - 1 : Key[base[j]] # Key[base[Parent(j)]]

\* heap_pop takes, and copies out when asked to, an element that no other in
\* the heap is less than.
PopTakesLeast ==
  [][\A w \in BOOLEAN : HeapPop(w) =>
       /\ w => out' = base[0]
       /\ \A j \in 0..n - 1 : ~Less(base[j], base[0])]_vars

\* When heap_add returns, the position it returns holds the element, even with
\* equal elements around.
AddReturnsPosition == op = "add" => base[i] = elem

\* Every call ends.
CallsEnd == op \in {"heapify", "add", "pop"} ~> op = "idle"

Count == [e \in Elems |-> Cardinality({j \in 0..n - 1 : base[j] = e})]
PQ == INSTANCE PriorityQueue WITH count <- Count

\* The calls implement a priority queue: they lose and duplicate nothing, and
\* heap_pop removes, and copies out, an element that no other is less than.
ImplementsQueue == PQ!PQSpec
=============================================================================
