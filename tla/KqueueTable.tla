---------------------------- MODULE KqueueTable -----------------------------
(***************************************************************************)
(* The change list of hlibc/kqueue.c: a growing array of changes for the   *)
(* kernel's event queue.  realloc may refuse memory at any call.  The      *)
(* kernel is external: it gives a table its descriptor and takes the       *)
(* changes a commit passes to it.                                          *)
(***************************************************************************)
EXTENDS Integers, Sequences, FiniteSets

CONSTANTS
  MaxCalls,       \* bound on the calls of kqueue_table_change
  MaxEvents       \* greatest nevents passed to kqueue_table_commit

ASSUME BoundsAssumption == MaxCalls \in Nat /\ MaxEvents \in Nat

ENOMEM == 12
EFAULT == -1      \* what kevent returns when it is given no memory

VARIABLES
  life,           \* "unset", "ready", "crashed" or "destroyed"
  kq,             \* the descriptor of the table, -1 before it has one
  changelist_cap, nchanges,
  changelist,     \* what kt->changelist points to: "NULL" or "block"
  slots,          \* the contents of that block, [1..changelist_cap -> Nat]
  eventlist,      \* what kt->eventlist points to
  ret,            \* what the last call returned
  live,           \* ghost: blocks allocated and not freed
  open,           \* ghost: the descriptors that are open
  calls,          \* ghost: calls of kqueue_table_change
  accepted,       \* ghost: the calls that returned 0, in order
  submitted,      \* ghost: the changes the last commit passed to the kernel
  refused         \* ghost: whether realloc has failed
table == <<kq, changelist_cap, nchanges, changelist, slots, eventlist>>
ghosts == <<live, open, calls, accepted, submitted, refused>>
vars == <<life, table, ret, ghosts>>

Init ==
  /\ life = "unset" /\ kq = -1 /\ changelist_cap = 0 /\ nchanges = 0
  /\ changelist = "NULL" /\ slots = <<>> /\ eventlist = "NULL"
  /\ live = 0 /\ open = {} /\ ret = 0 /\ calls = 0 /\ accepted = <<>> /\ submitted = <<>>
  /\ refused = FALSE

\* kqueue() may refuse a descriptor; the table is then left alone.
InitTable(fd) ==
  /\ life = "unset"
  /\ \/ fd < 0 /\ ret' = fd /\ UNCHANGED <<life, kq, open>>
     \/ fd >= 0 /\ ret' = 0 /\ life' = "ready" /\ kq' = fd /\ open' = open \union {fd}
  /\ UNCHANGED <<changelist_cap, nchanges, changelist, slots, eventlist>>
  /\ UNCHANGED <<live, calls, accepted, submitted, refused>>

Grown(cap) == IF (cap * 3) \div 2 > 2 THEN (cap * 3) \div 2 ELSE 2

Full == changelist_cap = nchanges

\* Mutant of Stored: the slot is the last one used.
StoredOver(s) == [s EXCEPT ![IF nchanges = 0 THEN 1 ELSE nchanges] = calls + 1]

\* A change is told apart by the call that made it.
Stored(s) == [s EXCEPT ![nchanges + 1] = calls + 1]

Accept ==
  /\ nchanges' = nchanges + 1 /\ ret' = 0
  /\ accepted' = Append(accepted, calls + 1)

Call == life = "ready" /\ calls < MaxCalls /\ calls' = calls + 1

ChangeFits ==
  /\ Call /\ ~Full /\ changelist # "NULL"
  /\ slots' = Stored(slots) /\ Accept
  /\ UNCHANGED <<life, kq, changelist_cap, changelist, eventlist, live, open, submitted, refused>>

\* realloc gives a block with what was in the old one.
ChangeGrows ==
  /\ Call /\ Full
  /\ changelist_cap' = Grown(changelist_cap) /\ changelist' = "block"
  /\ live' = IF changelist = "NULL" THEN live + 1 ELSE live
  /\ slots' = Stored([x \in 1..changelist_cap' |-> IF x \in DOMAIN slots THEN slots[x]
                                                                        ELSE 0])
  /\ Accept
  /\ UNCHANGED <<life, kq, eventlist, open, submitted, refused>>

\* Mutant of ChangeRefused: the capacity grows only when there is a block.
ChangeRefusedUngrown ==
  /\ Call /\ Full
  /\ changelist' = "NULL" /\ slots' = <<>> /\ ret' = ENOMEM /\ refused' = TRUE
  /\ UNCHANGED <<life, kq, changelist_cap, nchanges, eventlist, live, open, accepted, submitted>>

\* realloc returns NULL, which replaces the only pointer to the old block; the
\* capacity has grown already, as if there were room.
ChangeRefused ==
  /\ Call /\ Full
  /\ changelist_cap' = Grown(changelist_cap) /\ changelist' = "NULL"
  /\ slots' = <<>> /\ ret' = ENOMEM /\ refused' = TRUE
  /\ UNCHANGED <<life, kq, nchanges, eventlist, live, open, accepted, submitted>>

\* There seems to be room, but no block: the program writes through NULL.
ChangeThroughNull ==
  /\ Call /\ ~Full /\ changelist = "NULL"
  /\ life' = "crashed"
  /\ UNCHANGED <<table, ret, live, open, accepted, submitted, refused>>

\* kevent: the changes are taken when there is a list to read them from, and
\* events need a list to be written to.
Kevent(nevents, result) ==
  IF nchanges > 0 /\ changelist = "NULL" THEN result = EFAULT
  ELSE \/ result = 0
       \/ result \in 1..nevents /\ eventlist # "NULL"
       \/ result = EFAULT /\ nevents > 0 /\ eventlist = "NULL"

\* Mutant of Submission: the change added last is left out.
SubmissionShort == [x \in 1..nchanges - 1 |-> slots[x]]

Submission == [x \in 1..nchanges |-> slots[x]]

\* nchanges is not reset: the next commit passes the same changes again.
Commit(nevents) ==
  /\ life = "ready"
  /\ \E result \in EFAULT..nevents : Kevent(nevents, result) /\ ret' = result
  /\ submitted' = IF nchanges > 0 /\ changelist = "NULL" THEN submitted ELSE Submission
  /\ UNCHANGED <<life, table, live, open, calls, accepted, refused>>

\* Mutant of Destroy: the lists are not freed.
DestroyKeeping ==
  /\ life = "ready" /\ life' = "destroyed"
  /\ UNCHANGED <<table, ret, ghosts>>

\* Frees the lists, and leaves the descriptor as it is.
Destroy ==
  /\ life = "ready" /\ life' = "destroyed"
  /\ live' = IF changelist = "NULL" THEN live ELSE live - 1
  /\ UNCHANGED <<table, ret, open, calls, accepted, submitted, refused>>

Next ==
  \/ \E fd \in {-1, 3} : InitTable(fd)
  \/ ChangeFits \/ ChangeGrows \/ ChangeRefused \/ ChangeThroughNull
  \/ \E nevents \in 0..MaxEvents : Commit(nevents)
  \/ Destroy

Spec == Init /\ [][Next]_vars

-----------------------------------------------------------------------------
TypeOK ==
  /\ life \in {"unset", "ready", "crashed", "destroyed"}
  /\ changelist_cap \in Nat /\ nchanges \in Nat /\ live \in Nat /\ calls \in Nat
  /\ changelist \in {"NULL", "block"} /\ eventlist \in {"NULL", "block"}
  /\ ret \in Int /\ refused \in BOOLEAN /\ kq \in Int /\ open \subseteq Int

\* While realloc gives memory, every change is written inside the block and kept
\* there, in order, however often the block has moved.
ListHoldsChanges ==
  life = "ready" /\ ~refused =>
    /\ nchanges <= changelist_cap /\ Len(slots) = changelist_cap
    /\ nchanges = Len(accepted)
    /\ \A x \in 1..nchanges : slots[x] = accepted[x]

\* A commit passes to the kernel all the changes ever accepted, those of earlier
\* commits again.
CommitsEverything ==
  [][\A e \in 0..MaxEvents : Commit(e) /\ ~refused => submitted' = accepted]_vars

\* What a table leaves behind when it is destroyed: its descriptor, and the block
\* that realloc refused to move, if it held a change.  Nothing is written through
\* NULL unless realloc has refused memory before.
LeavesBehind ==
  /\ life = "destroyed" => /\ open = {kq}
                           /\ live = IF refused /\ accepted # <<>> THEN 1 ELSE 0
  /\ life = "crashed" => refused

\* Every call of kqueue_table_change is accepted until realloc refuses one memory;
\* that one is told so, and the next one, whatever comes between, ends the program.
RefusalsAreFinal ==
  calls = Len(accepted) + IF ~refused THEN 0 ELSE IF life = "crashed" THEN 2 ELSE 1

\* How a table ends, with refusals or without: by Destroy, or through NULL.
TableEnds == LeavesBehind /\ RefusalsAreFinal
=============================================================================
