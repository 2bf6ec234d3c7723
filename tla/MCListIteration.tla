--------------------------- MODULE MCListIteration --------------------------
(* ListIteration on four nodes: a head and up to three items, or two lists. *)
EXTENDS ListIteration
CONSTANTS a, b, c, d
MCNodes == {a, b, c, d}
=============================================================================
