--------------------------- MODULE PriorityQueue ----------------------------
(***************************************************************************)
(* What include/hlibc/heap.h promises: a bag of elements from which the    *)
(* top, an element no other is less than, can be removed.                  *)
(***************************************************************************)
EXTENDS Naturals

CONSTANTS Elems, Key, NoElem
VARIABLES count,      \* how often the queue holds each element
          out         \* the last element copied out

\* Elements that are equal for `less' may still be different elements.
LessElem(x, y) == Key[x] < Key[y]

PQInit == count \in [Elems -> Nat] /\ out = NoElem

Insert(e) == count' = [count EXCEPT ![e] = @ + 1] /\ UNCHANGED out

DeleteMin(e) ==
  /\ count[e] > 0
  /\ \A x \in Elems : LessElem(x, e) => count[x] = 0
  /\ count' = [count EXCEPT ![e] = @ - 1]
  /\ out' \in {e, out}                    \* copied out only when asked for

PQNext == \E e \in Elems : Insert(e) \/ DeleteMin(e)

PQSpec == PQInit /\ [][PQNext]_<<count, out>>
=============================================================================
