---------------------------- MODULE SystemProofs ----------------------------
(***************************************************************************)
(* Theorems about the two parts of hlibc that stand between their callers  *)
(* and the system.  About KqueueTable, for every number of calls: as long  *)
(* as realloc gives memory the change list loses nothing; what a refusal   *)
(* does to it, and what it leaves behind in either case.  About Spinlock,  *)
(* for every set of threads and every spin limit: what the lock does to    *)
(* its callers, in place of excluding them.                                *)
(***************************************************************************)
EXTENDS KqueueTable, Spinlock, SequenceTheorems, TLAPS

\* The list while realloc has never failed, whatever has been called.
ListInv ==
  /\ life # "crashed"
  /\ slots \in [1..changelist_cap -> Nat]
  /\ nchanges <= changelist_cap
  /\ accepted \in Seq(Nat) /\ nchanges = Len(accepted)
  /\ \A x \in 1..nchanges : slots[x] = accepted[x]
  /\ changelist = "NULL" <=> changelist_cap = 0
  /\ live = IF life = "destroyed" \/ changelist = "NULL" THEN 0 ELSE 1

\* The list after the refusal: there seems to be room, and there is no block.
LostInv ==
  /\ changelist = "NULL" /\ nchanges < changelist_cap
  /\ accepted \in Seq(Nat) /\ nchanges = Len(accepted)
  /\ live = IF accepted # <<>> THEN 1 ELSE 0

OpenInv == open = IF life = "unset" THEN {} ELSE {kq}

TableInv == TypeOK /\ OpenInv /\ (~refused => ListInv) /\ (refused => LostInv)

-----------------------------------------------------------------------------
\* The list grows at each growth, from nothing too.
LEMMA GrownMore ==
  ASSUME NEW cap \in Nat
  PROVE  Grown(cap) \in Nat /\ Grown(cap) > cap
<1> DEFINE half == (cap * 3) \div 2
<1>1. half \in Nat /\ 2 * half <= 3 * cap /\ 3 * cap <= 2 * half + 1
  OBVIOUS
<1>2. Grown(cap) = IF half > 2 THEN half ELSE 2
  BY DEF Grown
<1> HIDE DEF half
<1> QED
  BY <1>1, <1>2

\* What a change that is stored does to a list with room for it.
LEMMA StoreKeeps ==
  ASSUME NEW cap \in Nat, NEW s \in [1..cap -> Nat], NEW n \in Nat, n < cap,
         NEW a \in Seq(Nat), n = Len(a), \A x \in 1..n : s[x] = a[x],
         NEW c \in Nat
  PROVE  /\ [s EXCEPT ![n + 1] = c] \in [1..cap -> Nat]
         /\ Append(a, c) \in Seq(Nat) /\ Len(Append(a, c)) = n + 1
         /\ \A x \in 1..n + 1 : [s EXCEPT ![n + 1] = c][x] = Append(a, c)[x]
OBVIOUS

LEMMA InitTableInv == Init => TableInv
<1> SUFFICES ASSUME Init PROVE TableInv
  OBVIOUS
<1>1. slots \in [1..0 -> Nat] /\ accepted \in Seq(Nat) /\ Len(accepted) = 0
  BY DEF Init
<1>2. refused \in BOOLEAN /\ ~refused
  BY DEF Init
<1>3. TypeOK /\ OpenInv
  BY <1>2 DEF Init, TypeOK, OpenInv
<1>4. ListInv
  BY <1>1 DEF Init, ListInv
<1> QED
  BY <1>2, <1>3, <1>4 DEF TableInv

LEMMA InitTableKeeps == ASSUME TableInv, NEW fd \in {-1, 3}, InitTable(fd) PROVE TableInv'
<1>1. TypeOK' /\ OpenInv'
  BY DEF InitTable, TableInv, TypeOK, OpenInv
<1>2. life # "crashed" /\ life' # "crashed" /\ life # "destroyed" /\ life' # "destroyed"
  BY DEF InitTable
<1> QED
  BY <1>1, <1>2 DEF InitTable, TableInv, ListInv, LostInv

LEMMA FitsKeeps == ASSUME TableInv, ChangeFits PROVE TableInv'
<1> USE DEF ChangeFits, Call, Full, Accept
<1>1. TypeOK' /\ OpenInv'
  BY DEF TableInv, TypeOK, OpenInv
<1>2. ~refused /\ ListInv'
  <2>0. ~refused
    BY DEF TableInv, LostInv
  <2>1. ListInv /\ nchanges < changelist_cap
    BY <2>0 DEF TableInv, ListInv, TypeOK
  <2>2. /\ slots' \in [1..changelist_cap -> Nat]
        /\ accepted' \in Seq(Nat) /\ Len(accepted') = nchanges + 1
        /\ \A x \in 1..nchanges + 1 : slots'[x] = accepted'[x]
    BY <2>1, StoreKeeps DEF ListInv, Stored, TableInv, TypeOK
  <2>3. nchanges' = nchanges + 1 /\ nchanges + 1 <= changelist_cap
    BY <2>1 DEF TableInv, TypeOK
  <2>4. /\ life' = life /\ changelist_cap' = changelist_cap
        /\ changelist' = changelist /\ live' = live
    OBVIOUS
  <2> QED
    BY <2>0, <2>1, <2>2, <2>3, <2>4 DEF ListInv
<1> QED
  BY <1>1, <1>2 DEF TableInv

LEMMA GrowsKeeps == ASSUME TableInv, ChangeGrows PROVE TableInv'
<1> USE DEF ChangeGrows, Call, Full, Accept
<1>1. changelist_cap \in Nat /\ changelist_cap' \in Nat /\ changelist_cap' > changelist_cap
  BY GrownMore DEF TableInv, TypeOK
<1>2. TypeOK' /\ OpenInv'
  BY <1>1 DEF TableInv, TypeOK, OpenInv
<1>3. ~refused /\ ListInv'
  <2> DEFINE moved == [x \in 1..changelist_cap' |-> IF x \in DOMAIN slots THEN slots[x] ELSE 0]
  <2>0. ~refused
    BY <1>1 DEF TableInv, LostInv, TypeOK
  <2>1. ListInv /\ nchanges = changelist_cap
    BY <2>0 DEF TableInv
  <2>2. moved \in [1..changelist_cap' -> Nat] /\ \A x \in 1..nchanges : moved[x] = accepted[x]
    BY <2>1, <1>1 DEF ListInv
  <2>3. slots' = [moved EXCEPT ![nchanges + 1] = calls + 1]
    BY DEF Stored
  <2> HIDE DEF moved
  <2>4. /\ nchanges \in Nat /\ nchanges < changelist_cap' /\ calls + 1 \in Nat
        /\ accepted \in Seq(Nat) /\ nchanges = Len(accepted)
    BY <1>1, <2>1 DEF ListInv, TableInv, TypeOK
  <2>5. accepted' = Append(accepted, calls + 1)
    OBVIOUS
  <2>6. /\ slots' \in [1..changelist_cap' -> Nat]
        /\ accepted' \in Seq(Nat) /\ Len(accepted') = nchanges + 1
        /\ \A x \in 1..nchanges + 1 : slots'[x] = accepted'[x]
    <3> DEFINE cap == changelist_cap'
               stored == [moved EXCEPT ![nchanges + 1] = calls + 1]
               all == Append(accepted, calls + 1)
    <3>1. cap \in Nat /\ moved \in [1..cap -> Nat] /\ nchanges < cap
      BY <1>1, <2>2, <2>4
    <3> HIDE DEF cap
    <3>2. /\ stored \in [1..cap -> Nat] /\ all \in Seq(Nat) /\ Len(all) = nchanges + 1
          /\ \A x \in 1..nchanges + 1 : stored[x] = all[x]
      <4>1. stored \in [1..cap -> Nat]
        BY <2>4, <3>1
      <4>2. all \in Seq(Nat) /\ Len(all) = nchanges + 1
        BY <2>4
      <4>3. ASSUME NEW x \in 1..nchanges PROVE stored[x] = all[x]
        BY <2>2, <2>4, <3>1
      <4>4. stored[nchanges + 1] = all[nchanges + 1]
        BY <2>4, <3>1
      <4>5. ASSUME NEW x \in 1..nchanges + 1 PROVE stored[x] = all[x]
        <5>1. x \in 1..nchanges \/ x = nchanges + 1
          BY <2>4
        <5> QED
          BY <4>3, <4>4, <5>1
      <4> HIDE DEF stored, all
      <4> QED
        BY <4>1, <4>2, <4>5
    <3> QED
      BY <2>3, <2>5, <3>2 DEF cap
  <2>7. nchanges' = nchanges + 1 /\ nchanges + 1 <= changelist_cap' /\ changelist_cap' # 0
    BY <1>1, <2>1 DEF TableInv, TypeOK
  <2>8. changelist' = "block" /\ life' = life /\ life = "ready" /\ live' = 1
    BY <2>1 DEF ListInv, TableInv, TypeOK
  <2> QED
    BY <2>0, <2>6, <2>7, <2>8 DEF ListInv
<1> QED
  BY <1>2, <1>3 DEF TableInv

\* A refusal meets a full list, so it is the first; it loses a block if there is
\* a change in the list.
LEMMA RefusedKeeps == ASSUME TableInv, ChangeRefused PROVE TableInv'
<1>1. /\ changelist_cap \in Nat /\ nchanges = changelist_cap
      /\ changelist_cap' \in Nat /\ changelist_cap' > changelist_cap
  BY GrownMore DEF ChangeRefused, Full, TableInv, TypeOK
<1>2. TypeOK' /\ OpenInv'
  BY <1>1 DEF ChangeRefused, Call, ENOMEM, TableInv, TypeOK, OpenInv
<1>3. ListInv /\ life = "ready"
  BY <1>1 DEF ChangeRefused, Call, TableInv, LostInv
<1>4. /\ accepted' = accepted /\ nchanges' = nchanges /\ live' = live
      /\ changelist' = "NULL" /\ refused'
  BY DEF ChangeRefused
<1>5. accepted \in Seq(Nat) /\ nchanges = Len(accepted) /\ (nchanges = 0 <=> accepted = <<>>)
  BY <1>3 DEF ListInv
<1>6. live = IF accepted # <<>> THEN 1 ELSE 0
  BY <1>1, <1>3, <1>5 DEF ListInv
<1> QED
  BY <1>1, <1>2, <1>4, <1>5, <1>6 DEF TableInv, LostInv

\* Nothing is written through NULL unless realloc has failed.
LEMMA ThroughNullKeeps == ASSUME TableInv, ChangeThroughNull PROVE refused /\ TableInv'
<1>1. refused
  BY DEF ChangeThroughNull, Call, Full, TableInv, TypeOK, ListInv
<1>2. TypeOK' /\ OpenInv'
  BY DEF ChangeThroughNull, Call, table, TableInv, TypeOK, OpenInv
<1> QED
  BY <1>1, <1>2 DEF ChangeThroughNull, table, TableInv, LostInv

LEMMA CommitKeeps == ASSUME TableInv, NEW e \in 0..MaxEvents, Commit(e) PROVE TableInv'
<1>1. ret' \in Int
  BY BoundsAssumption DEF Commit, EFAULT
<1>2. TypeOK' /\ OpenInv'
  BY <1>1 DEF Commit, table, TableInv, TypeOK, OpenInv
<1> QED
  BY <1>2 DEF Commit, table, TableInv, ListInv, LostInv

LEMMA DestroyKeeps == ASSUME TableInv, Destroy PROVE TableInv'
<1>1. live' \in Nat
  BY DEF Destroy, TableInv, TypeOK, ListInv, LostInv
<1>2. TypeOK' /\ OpenInv'
  BY <1>1 DEF Destroy, table, TableInv, TypeOK, OpenInv
<1> QED
  BY <1>2 DEF Destroy, table, TableInv, ListInv, LostInv

LEMMA NextKeeps == TableInv /\ [Next]_vars => TableInv'
<1> SUFFICES ASSUME TableInv, [Next]_vars PROVE TableInv'
  OBVIOUS
<1>1. CASE UNCHANGED vars
  BY <1>1 DEF vars, table, ghosts, TableInv, TypeOK, OpenInv, ListInv, LostInv
<1>2. ASSUME NEW fd \in {-1, 3}, InitTable(fd) PROVE TableInv'
  BY <1>2, InitTableKeeps
<1>3. CASE ChangeFits
  BY <1>3, FitsKeeps
<1>4. CASE ChangeGrows
  BY <1>4, GrowsKeeps
<1>5. CASE ChangeRefused
  BY <1>5, RefusedKeeps
<1>6. CASE ChangeThroughNull
  BY <1>6, ThroughNullKeeps
<1>7. ASSUME NEW e \in 0..MaxEvents, Commit(e) PROVE TableInv'
  BY <1>7, CommitKeeps
<1>8. CASE Destroy
  BY <1>8, DestroyKeeps
<1> QED
  BY <1>1, <1>2, <1>3, <1>4, <1>5, <1>6, <1>7, <1>8 DEF Next

LEMMA SpecTableInv == Spec => []TableInv
BY InitTableInv, NextKeeps, PTL DEF Spec

-----------------------------------------------------------------------------
\* However the list grows, all changes accepted are in it, in order, inside its
\* block (kqueue_table_change, hlibc/kqueue.c:33-48).
THEOREM ListKeepsChanges == Spec => [](TypeOK /\ ListHoldsChanges)
<1>1. TableInv => TypeOK /\ ListHoldsChanges
  BY DEF TableInv, ListInv, ListHoldsChanges, TypeOK
<1> QED
  BY <1>1, SpecTableInv, PTL

\* Whether realloc refuses memory or not: what a destroyed table leaves behind is
\* its descriptor and the block realloc refused to move, if it held a change, and
\* nothing is written through NULL before the refusal (hlibc/kqueue.c:38, :58-62).
THEOREM LeavesOnlyThis == Spec => []LeavesBehind
<1>1. TableInv => LeavesBehind
  BY DEF TableInv, OpenInv, ListInv, LostInv, LeavesBehind
<1> QED
  BY <1>1, SpecTableInv, PTL

\* A change is accepted or refused only while nothing has been refused before.
LEMMA ChangesMeetNoRefusal ==
  ASSUME TableInv, ChangeFits \/ ChangeGrows \/ ChangeRefused
  PROVE  ~refused /\ accepted \in Seq(Nat) /\ life = "ready"
<1>1. ~refused /\ life = "ready"
  BY DEF ChangeFits, ChangeGrows, ChangeRefused, Call, Full, TableInv, LostInv, TypeOK
<1>2. ListInv
  BY <1>1 DEF TableInv
<1> QED
  BY <1>1, <1>2 DEF ListInv

LEMMA RefusalsStayFinal ==
  TableInv /\ RefusalsAreFinal /\ [Next]_vars => RefusalsAreFinal'
<1> SUFFICES ASSUME TableInv, RefusalsAreFinal, [Next]_vars PROVE RefusalsAreFinal'
  OBVIOUS
<1> calls \in Nat
  BY DEF TableInv, TypeOK
<1>1. CASE UNCHANGED vars
  BY <1>1 DEF vars, ghosts, RefusalsAreFinal
<1>2. ASSUME NEW fd \in {-1, 3}, InitTable(fd) PROVE RefusalsAreFinal'
  BY <1>2 DEF InitTable, RefusalsAreFinal
<1>3. CASE ChangeFits \/ ChangeGrows
  <2>1. ~refused /\ accepted \in Seq(Nat) /\ calls = Len(accepted)
    BY <1>3, ChangesMeetNoRefusal DEF RefusalsAreFinal
  <2>2. accepted' = Append(accepted, calls + 1) /\ calls' = calls + 1 /\ refused' = refused
    BY <1>3 DEF ChangeFits, ChangeGrows, Accept, Call
  <2>3. Len(accepted') = Len(accepted) + 1
    BY <2>1, <2>2
  <2> QED
    BY <2>1, <2>2, <2>3 DEF RefusalsAreFinal
<1>4. CASE ChangeRefused
  <2>1. ~refused /\ life = "ready" /\ calls = Len(accepted)
    BY <1>4, ChangesMeetNoRefusal DEF RefusalsAreFinal
  <2> QED
    BY <1>4, <2>1 DEF ChangeRefused, Call, RefusalsAreFinal
<1>5. CASE ChangeThroughNull
  <2>1. refused /\ life = "ready" /\ calls = Len(accepted) + 1
    BY <1>5, ThroughNullKeeps DEF ChangeThroughNull, Call, RefusalsAreFinal
  <2> QED
    BY <1>5, <2>1 DEF ChangeThroughNull, Call, RefusalsAreFinal
<1>6. ASSUME NEW e \in 0..MaxEvents, Commit(e) PROVE RefusalsAreFinal'
  BY <1>6 DEF Commit, RefusalsAreFinal
<1>7. CASE Destroy
  BY <1>7 DEF Destroy, RefusalsAreFinal
<1> QED
  BY <1>1, <1>2, <1>3, <1>4, <1>5, <1>6, <1>7 DEF Next

\* What LeavesOnlyThis says; and after the refusal the list seems to have room and
\* has no block, so that the next call of kqueue_table_change writes through NULL
\* (hlibc/kqueue.c:37-46).
THEOREM TablesEndLikeThis == Spec => []TableEnds
<1>1. Init => RefusalsAreFinal
  BY DEF Init, RefusalsAreFinal
<1>2. Spec => []RefusalsAreFinal
  BY <1>1, RefusalsStayFinal, SpecTableInv, PTL DEF Spec
<1>3. LeavesBehind /\ RefusalsAreFinal => TableEnds
  BY DEF TableEnds
<1> QED
  BY <1>2, <1>3, LeavesOnlyThis, PTL

\* Every commit passes the kernel all changes accepted so far, and none else
\* (kqueue_table_commit, hlibc/kqueue.c:50-56).
THEOREM CommitsPassAll == Spec => CommitsEverything
<1>1. ASSUME TableInv, [Next]_vars
      PROVE  [\A e \in 0..MaxEvents : Commit(e) /\ ~refused => submitted' = accepted]_vars
  <2> SUFFICES ASSUME NEW e \in 0..MaxEvents, Commit(e), ~refused
               PROVE  submitted' = accepted
    OBVIOUS
  <2>1. ListInv /\ nchanges \in Nat
    BY <1>1 DEF TableInv, TypeOK
  <2>2. submitted' = Submission
    BY <2>1 DEF Commit, ListInv
  <2>3. accepted \in Seq(Nat)
    BY <2>1 DEF ListInv
  <2>4. Submission \in Seq(Nat) /\ Len(Submission) = Len(accepted)
    BY <2>1 DEF ListInv, Submission
  <2>5. \A x \in 1..Len(Submission) : Submission[x] = accepted[x]
    BY <2>1, <2>4 DEF ListInv, Submission
  <2>6. Submission = accepted
    BY <2>3, <2>4, <2>5, SeqEqual, Zenon
  <2> QED
    BY <2>2, <2>6
<1> QED
  BY <1>1, SpecTableInv, PTL DEF Spec, CommitsEverything

-----------------------------------------------------------------------------
\* What is answered, and that a first answer has been given when the flag is set.
AnswersInv == OnlyTheFirstIsTurnedAway /\ (flag <=> first # "none")

LEMMA InitAnswers == LockInit => LockTypeOK /\ AnswersInv
<1> SUFFICES ASSUME LockInit PROVE LockTypeOK /\ AnswersInv
  OBVIOUS
<1>1. flag = FALSE /\ first = "none" /\ later = {}
  BY DEF LockInit
<1>2. spins \in [Threads -> 0..SpinLimit]
  BY SpinLimitAssumption DEF LockInit
<1>3. pc \in [Threads -> {"idle", "spin", "critical"}]
  BY DEF LockInit
<1> QED
  BY <1>1, <1>2, <1>3 DEF LockTypeOK, AnswersInv, OnlyTheFirstIsTurnedAway

\* An answer fits the flag it was given upon.
LEMMA AnswerFits ==
  ASSUME LockTypeOK, AnswersInv, NEW was \in BOOLEAN, TestAndSet(was),
         Answer(IF was THEN "in" ELSE "away")
  PROVE  /\ flag' \in BOOLEAN
         /\ first' \in {"none", "in", "away"} /\ later' \subseteq {"in", "away"}
         /\ AnswersInv'
<1>1. CASE was
  <2>1. flag /\ first # "none" /\ flag' = TRUE
    BY <1>1 DEF TestAndSet, AnswersInv
  <2>2. first' = first /\ later' = later \union {"in"}
    BY <1>1, <2>1 DEF Answer
  <2> QED
    BY <2>1, <2>2 DEF LockTypeOK, AnswersInv, OnlyTheFirstIsTurnedAway
<1>2. CASE ~was
  <2>1. ~flag /\ first = "none" /\ flag' = TRUE
    BY <1>2 DEF TestAndSet, AnswersInv, LockTypeOK
  <2>2. first' = "away" /\ later' = later
    BY <1>2, <2>1 DEF Answer
  <2> QED
    BY <2>1, <2>2 DEF LockTypeOK, AnswersInv, OnlyTheFirstIsTurnedAway
<1> QED
  BY <1>1, <1>2

LEMMA ClearFits ==
  ASSUME Clear
  PROVE  /\ flag' \in BOOLEAN
         /\ first' \in {"none", "in", "away"} /\ later' \subseteq {"in", "away"}
         /\ AnswersInv'
BY DEF Clear, AnswersInv, OnlyTheFirstIsTurnedAway

\* Of the answers given between two clears of the flag, to any threads, the first
\* lets nobody in and none after it turns away (hlibc/spinlock.c:10, :20).
THEOREM LetsInAllButTheFirst == LockSpec => [](LockTypeOK /\ OnlyTheFirstIsTurnedAway)
<1>1. LockTypeOK /\ AnswersInv /\ [LockNext]_lockVars => LockTypeOK' /\ AnswersInv'
  <2> SUFFICES ASSUME LockTypeOK, AnswersInv, [LockNext]_lockVars
               PROVE  LockTypeOK' /\ AnswersInv'
    OBVIOUS
  <2> USE SpinLimitAssumption
  <2>1. CASE UNCHANGED lockVars
    BY <2>1 DEF lockVars, LockTypeOK, AnswersInv, OnlyTheFirstIsTurnedAway
  <2>2. ASSUME NEW t \in Threads, CallLock(t)
        PROVE  LockTypeOK' /\ AnswersInv'
    BY <2>2 DEF CallLock, answers, LockTypeOK, AnswersInv, OnlyTheFirstIsTurnedAway
  <2>3. ASSUME NEW t \in Threads, Spin(t)
        PROVE  LockTypeOK' /\ AnswersInv'
    <3>1. PICK was \in BOOLEAN :
            /\ TestAndSet(was)
            /\ \/ was /\ LetIn(t) /\ UNCHANGED spins
               \/ ~was /\ Answer("away") /\ spins' = [spins EXCEPT ![t] = @ + 1] /\ UNCHANGED pc
      BY <2>3 DEF Spin
    <3>2. pc' \in [Threads -> {"idle", "spin", "critical"}]
      BY <3>1 DEF LockTypeOK, LetIn
    <3>3. spins' \in [Threads -> 0..SpinLimit]
      BY <3>1, <2>3 DEF LockTypeOK, Spin
    <3>4. Answer(IF was THEN "in" ELSE "away")
      BY <3>1 DEF LetIn
    <3> QED
      BY <3>1, <3>2, <3>3, <3>4, AnswerFits DEF LockTypeOK
  <2>4. ASSUME NEW t \in Threads, Yield(t)
        PROVE  LockTypeOK' /\ AnswersInv'
    BY <2>4 DEF Yield, answers, LockTypeOK, AnswersInv, OnlyTheFirstIsTurnedAway
  <2>5. ASSUME NEW t \in Threads, TryLock(t)
        PROVE  LockTypeOK' /\ AnswersInv'
    <3>1. PICK was \in BOOLEAN :
            /\ TestAndSet(was)
            /\ \/ was /\ LetIn(t)
               \/ ~was /\ Answer("away") /\ UNCHANGED pc
      BY <2>5 DEF TryLock
    <3>2. pc' \in [Threads -> {"idle", "spin", "critical"}]
      BY <3>1 DEF LockTypeOK, LetIn
    <3>3. Answer(IF was THEN "in" ELSE "away")
      BY <3>1 DEF LetIn
    <3> QED
      BY <2>5, <3>1, <3>2, <3>3, AnswerFits DEF LockTypeOK, TryLock
  <2>6. ASSUME NEW t \in Threads, Unlock(t)
        PROVE  LockTypeOK' /\ AnswersInv'
    BY <2>6, ClearFits DEF Unlock, LockTypeOK
  <2>7. CASE Reinit
    BY <2>7, ClearFits DEF Reinit, LockTypeOK
  <2> QED
    BY <2>1, <2>2, <2>3, <2>4, <2>5, <2>6, <2>7 DEF LockNext
<1>2. AnswersInv => OnlyTheFirstIsTurnedAway
  BY DEF AnswersInv
<1> QED
  BY <1>1, <1>2, InitAnswers, PTL DEF LockSpec
=============================================================================
