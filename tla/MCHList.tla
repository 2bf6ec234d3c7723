------------------------------ MODULE MCHList -------------------------------
(* HList with two heads and four nodes.                                    *)
EXTENDS HList
CONSTANTS h1, h2, a, b, c, d
MCHeads == {h1, h2}
MCNodes == {a, b, c, d}
=============================================================================
