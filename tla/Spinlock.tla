------------------------------ MODULE Spinlock ------------------------------
(***************************************************************************)
(* hlibc/spinlock.c: a lock made of one C11 atomic_flag, used by threads   *)
(* that lock (or try to), work, and unlock.                                *)
(*                                                                         *)
(* atomic_flag_test_and_set returns the value the flag had.  Both callers   *)
(* take TRUE for success, so that a thread is let in when another has set   *)
(* the flag.  The ghosts first and later keep what callers were answered    *)
(* since the flag was last cleared: "in" by a return of 0, "away" by EBUSY  *)
(* or by another round of the loop.                                         *)
(***************************************************************************)
EXTENDS Naturals, FiniteSets

CONSTANTS
  Threads,
  SpinLimit      \* iterations of the inner loop before sched_yield: 100000

ASSUME SpinLimitAssumption == SpinLimit \in Nat \ {0}

VARIABLES
  flag,          \* lock->flag
  pc,            \* where each thread is
  spins,         \* the variable i of each thread inside spinlock_lock
  first,         \* ghost: the first answer given since the flag was cleared
  later          \* ghost: the answers given after it
answers == <<first, later>>
lockVars == <<flag, pc, spins, first, later>>

LockInit ==                        \* SPINLOCK_INIT, or spinlock_init before any use
  /\ flag = FALSE
  /\ pc = [t \in Threads |-> "idle"]
  /\ spins = [t \in Threads |-> 0]
  /\ first = "none" /\ later = {}

\* `was' is the value atomic_flag_test_and_set returns.
TestAndSet(was) == was = flag /\ flag' = TRUE

Clear == flag' = FALSE /\ first' = "none" /\ later' = {}

Answer(a) ==
  /\ first' = IF first = "none" THEN a ELSE first
  /\ later' = IF first = "none" THEN later ELSE later \union {a}

LetIn(t) ==
  /\ pc' = [pc EXCEPT ![t] = "critical"]
  /\ Answer("in")

CallLock(t) ==
  /\ pc[t] = "idle"
  /\ pc' = [pc EXCEPT ![t] = "spin"]
  /\ spins' = [spins EXCEPT ![t] = 0]
  /\ UNCHANGED <<flag, answers>>

\* Mutant of Spin: the result is read the other way round.
SpinUntilClear(t) ==
  /\ pc[t] = "spin" /\ spins[t] < SpinLimit
  /\ \E was \in BOOLEAN :
       /\ TestAndSet(was)
       /\ \/ ~was /\ LetIn(t) /\ UNCHANGED spins
          \/ was /\ Answer("away") /\ spins' = [spins EXCEPT ![t] = @ + 1] /\ UNCHANGED pc

Spin(t) ==
  /\ pc[t] = "spin" /\ spins[t] < SpinLimit
  /\ \E was \in BOOLEAN :
       /\ TestAndSet(was)
       /\ \/ was /\ LetIn(t) /\ UNCHANGED spins
          \/ ~was /\ Answer("away") /\ spins' = [spins EXCEPT ![t] = @ + 1] /\ UNCHANGED pc

Yield(t) ==                        \* sched_yield, and the outer loop again
  /\ pc[t] = "spin" /\ spins[t] = SpinLimit
  /\ spins' = [spins EXCEPT ![t] = 0]
  /\ UNCHANGED <<flag, pc, answers>>

\* Mutant of TryLock: it succeeds when it was the one to set the flag.
TryLockIfClear(t) ==
  /\ pc[t] = "idle"
  /\ \E was \in BOOLEAN :
       /\ TestAndSet(was)
       /\ \/ ~was /\ LetIn(t)
          \/ was /\ Answer("away") /\ UNCHANGED pc
  /\ UNCHANGED spins

\* spinlock_trylock: 0 when the flag was set, EBUSY when it was clear.
TryLock(t) ==
  /\ pc[t] = "idle"
  /\ \E was \in BOOLEAN :
       /\ TestAndSet(was)
       /\ \/ was /\ LetIn(t)
          \/ ~was /\ Answer("away") /\ UNCHANGED pc
  /\ UNCHANGED spins

Unlock(t) ==
  /\ pc[t] = "critical"
  /\ Clear
  /\ pc' = [pc EXCEPT ![t] = "idle"]
  /\ UNCHANGED spins

\* spinlock_destroy or spinlock_init, when no thread uses the lock.
Reinit ==
  /\ \A t \in Threads : pc[t] = "idle"
  /\ Clear
  /\ UNCHANGED <<pc, spins>>

LockNext ==
  \/ \E t \in Threads : \/ CallLock(t) \/ Spin(t) \/ Yield(t)
                        \/ TryLock(t)  \/ Unlock(t)
  \/ Reinit

\* A thread inside spinlock_lock keeps running.  Nobody has to call it, and a
\* thread that holds the lock need not ever give it back.
LockSpec == LockInit /\ [][LockNext]_lockVars
                     /\ \A t \in Threads : WF_lockVars(Spin(t) \/ Yield(t))

-----------------------------------------------------------------------------
LockTypeOK ==
  /\ flag \in BOOLEAN
  /\ pc \in [Threads -> {"idle", "spin", "critical"}]
  /\ spins \in [Threads -> 0..SpinLimit]
  /\ first \in {"none", "in", "away"} /\ later \subseteq {"in", "away"}

\* Whom the lock lets in, of all that ask between two clears of the flag: never the
\* first to ask, and every one that asks after it (the first too, asking again).  A lock does the opposite of both.
OnlyTheFirstIsTurnedAway == first # "in" /\ "away" \notin later

\* A call of spinlock_lock waits for no unlock: once the flag is no longer
\* cleared, every caller is let in, though the holders never give the lock back.
LockDoesNotWait ==
  \A t \in Threads : <>[]flag => (pc[t] = "spin" ~> pc[t] = "critical")

\* What a lock is for: two threads are never both let in.  It does not hold.
MutualExclusion ==
  Cardinality({t \in Threads : pc[t] = "critical"}) <= 1
=============================================================================
