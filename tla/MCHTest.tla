------------------------------ MODULE MCHTest -------------------------------
(* HTest with two suites of two units, hooks or none, and two resources.   *)
EXTENDS HTest
CONSTANTS s1, s2
MCSuites == {s1, s2}
=============================================================================
