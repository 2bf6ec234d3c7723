--------------------------- MODULE MCKqueueTable ----------------------------
(* KqueueTable up to seven changes: capacities 0, 2, 3, 4, 6 and 9.        *)
EXTENDS KqueueTable
=============================================================================
