------------------------------- MODULE MCList -------------------------------
(* List and its refinement of RingLists on four nodes.                     *)
EXTENDS ListRings
CONSTANTS a, b, c, d
MCNodes == {a, b, c, d}
=============================================================================
