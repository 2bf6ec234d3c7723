------------------------------- MODULE MCHeap -------------------------------
(* Heap with three levels, four elements and two of them of equal rank.    *)
EXTENDS Heap, TLC
CONSTANTS e1, e2, e3, e4
MCElems == {e1, e2, e3, e4}
MCKey == e1 :> 1 @@ e2 :> 1 @@ e3 :> 2 @@ e4 :> 3
=============================================================================
