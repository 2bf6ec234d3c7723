----------------------------- MODULE MCSpinlock -----------------------------
(* Spinlock with three threads and a spin limit that is reached.           *)
EXTENDS Spinlock
CONSTANTS t1, t2, t3
MCThreads == {t1, t2, t3}
=============================================================================
