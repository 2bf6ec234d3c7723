---------------------------- MODULE HTestProofs -----------------------------
(***************************************************************************)
(* Theorems about HTest, for every set of suites, any number of units and  *)
(* of resources, and whatever units and hooks do: the hooks, the resources *)
(* and the statistics of a run.                                            *)
(***************************************************************************)
EXTENDS HTest, FiniteSetTheorems, TLAPS

\* Between suites nothing is left to release or to count; in a suite there is one.
PlaceInv ==
  /\ pc \in {"declare", "done"} => unit = 0 /\ stats = NoStats
  /\ pc \notin {"declare", "done"} => at \in DOMAIN suites
  /\ pc \notin {"declare", "done", "units"} => unit \in 1..UnitCount

\* Where the destroy hook has been called, and where there is a place to jump to.
HookInv ==
  /\ pc = "init" => hooks[Suite].init /\ ~ran
  /\ pc \in {"run", "destroy"} => jmp
  /\ pc = "destroy" => destroyed > 0
  /\ DestroyFollowsRun /\ OnlyInitCrashes

\* Resources are counted from one: those released are the upper ones, downwards,
\* and those left the lower ones, the last at the head.
ResourceInv ==
  /\ \A x \in 1..Len(created) : created[x] = x
  /\ Len(resources) + Len(released) = Len(created)
  /\ \A x \in 1..Len(resources) : resources[x] = Len(resources) + 1 - x
  /\ \A x \in 1..Len(released) : released[x] = Len(created) + 1 - x
  /\ pc \in {"init", "setjmp", "run", "destroy", "record"} => released = <<>>
  /\ pc \in {"declare", "done", "units"} => resources = <<>>

\* How many units of the suite the counters count.
Counted == IF pc \in {"declare", "done", "units", "cleanup"} THEN unit ELSE unit - 1

Where(f, v, n) == {x \in 1..n : f[x] = v}
Saying(v, n) == Where(said, v, n)

StatsInv ==
  /\ pc \in {"init", "setjmp", "run", "destroy", "record"} => said[unit] = status
  /\ \A v \in Verdicts : stats[v] = Cardinality(Saying(v, Counted))

-----------------------------------------------------------------------------
LEMMA InitTypes == Init => TypeOK /\ PlaceInv
<1> SUFFICES ASSUME Init PROVE TypeOK /\ PlaceInv
  OBVIOUS
<1>1. /\ suites \in Seq(Suites) /\ {resources, created, released} \subseteq Seq(Nat)
      /\ stats \in [Verdicts -> Nat] /\ said \in [1..UnitCount -> Verdicts]
  BY DEF Init, NoStats, NothingSaid, Verdicts
<1>2. /\ hooks \in [Suites -> Hooks] /\ unit \in 0..UnitCount
      /\ at \in Nat /\ destroyed \in 0..2 /\ status \in Verdicts /\ pc \in Places
  BY BoundsAssumption DEF Init, Hooks, Verdicts, Places
<1>3. jmp \in BOOLEAN /\ ran \in BOOLEAN
  BY DEF Init
<1>4. PlaceInv
  BY DEF Init, PlaceInv
<1> QED
  BY <1>1, <1>2, <1>3, <1>4 DEF TypeOK

LEMMA LeaveTypes ==
  ASSUME TypeOK, Leave
  PROVE  pc' \in {"destroy", "record"} /\ destroyed' \in 0..2
BY DEF TypeOK, Leave

LEMMA NextTypes == TypeOK /\ PlaceInv /\ [Next]_vars => TypeOK' /\ PlaceInv'
<1> SUFFICES ASSUME TypeOK, PlaceInv, [Next]_vars PROVE TypeOK' /\ PlaceInv'
  OBVIOUS
<1> USE BoundsAssumption DEF PlaceInv, Places
<1>1. CASE UNCHANGED vars
  BY <1>1 DEF vars, testVars, TypeOK
<1>2. ASSUME NEW s \in Suites, DeclareSuite(s) PROVE TypeOK' /\ PlaceInv'
  <2>1. suites' \in Seq(Suites)
    BY <1>2 DEF DeclareSuite, TypeOK
  <2> QED
    BY <1>2, <2>1 DEF DeclareSuite, testVars, TypeOK
<1>3. CASE RunSuite
  <2>1. stats' \in [Verdicts -> Nat] /\ said' \in [1..UnitCount -> Verdicts]
    BY <1>3 DEF RunSuite, NoStats, NothingSaid, Verdicts
  <2> QED
    BY <1>3, <2>1 DEF RunSuite, testVars, TypeOK
<1>4. CASE BeginUnit
  <2>1. unit' \in 1..UnitCount
    BY <1>4 DEF BeginUnit, TypeOK
  <2>2. status' \in Verdicts /\ said' \in [1..UnitCount -> Verdicts]
    BY <1>4, <2>1 DEF BeginUnit, TypeOK, Verdicts
  <2>3. {resources', created', released'} \subseteq Seq(Nat)
    BY <1>4 DEF BeginUnit
  <2>4. pc' \in {"record", "init", "setjmp"}
    BY <1>4 DEF BeginUnit
  <2>5. jmp' \in BOOLEAN /\ ran' \in BOOLEAN
    BY <1>4 DEF BeginUnit
  <2>6. destroyed' \in 0..2
    BY <1>4 DEF BeginUnit
  <2>7. UNCHANGED <<suites, hooks, at, stats>> /\ pc = "units"
    BY <1>4 DEF BeginUnit
  <2> QED
    BY <2>1, <2>2, <2>3, <2>4, <2>5, <2>6, <2>7 DEF TypeOK
<1>5. CASE InitReturns
  BY <1>5 DEF InitReturns, TypeOK
<1>6. CASE Setjmp
  BY <1>6 DEF Setjmp, TypeOK
<1>7. CASE UnitReturns
  BY <1>7, LeaveTypes DEF UnitReturns, TypeOK
<1>8. ASSUME NEW v \in Verdicts, Verdict(v) PROVE TypeOK' /\ PlaceInv'
  <2>1. pc' \in {"destroy", "record", "crashed"} /\ destroyed' \in 0..2
    BY <1>8, LeaveTypes DEF Verdict, Longjmp, TypeOK
  <2>2. said' \in [1..UnitCount -> Verdicts]
    BY <1>8 DEF Verdict, TypeOK
  <2> QED
    BY <1>8, <2>1, <2>2 DEF Verdict, TypeOK
<1>9. CASE CreateResourceFails
  BY <1>8, <1>9 DEF CreateResourceFails, Verdicts
<1>10. CASE CreateResource
  <2>1. {resources', created', released'} \subseteq Seq(Nat)
    BY <1>10 DEF CreateResource, Attach, TypeOK
  <2> QED
    BY <1>10, <2>1 DEF CreateResource, TypeOK
<1>11. CASE DestroyReturns
  BY <1>11 DEF DestroyReturns, testVars, TypeOK
<1>12. CASE Record
  <2>1. stats' \in [Verdicts -> Nat]
    BY <1>12 DEF Record, TypeOK
  <2> QED
    BY <1>12, <2>1 DEF Record, testVars, TypeOK
<1>13. CASE ReleaseResource
  <2>1. {resources', created', released'} \subseteq Seq(Nat)
    BY <1>13 DEF ReleaseResource, TypeOK
  <2> QED
    BY <1>13, <2>1 DEF ReleaseResource, TypeOK
<1>14. CASE EndUnit
  BY <1>14 DEF EndUnit, testVars, TypeOK
<1> QED
  BY <1>1, <1>2, <1>3, <1>4, <1>5, <1>6, <1>7, <1>8, <1>9, <1>10, <1>11, <1>12, <1>13,
     <1>14 DEF Next, Runner, Tests

LEMMA SpecTypes == Spec => [](TypeOK /\ PlaceInv)
BY InitTypes, NextTypes, PTL DEF Spec

-----------------------------------------------------------------------------
LEMMA InitHooks == Init => HookInv
BY DEF Init, HookInv, DestroyFollowsRun, OnlyInitCrashes

\* After the if statement around unit->run: through the destroy hook if there is one.
LEMMA LeaveHooks ==
  ASSUME TypeOK, HookInv, Leave, jmp, UNCHANGED <<suites, hooks, at, jmp, ran>>
  PROVE  HookInv'
<1>1. Suite' = Suite
  BY DEF Suite
<1>2. CASE hooks[Suite].destroy
  <2>1. pc' = "destroy" /\ destroyed' > 0
    BY <1>2 DEF Leave, TypeOK
  <2> QED
    BY <2>1 DEF HookInv, DestroyFollowsRun, OnlyInitCrashes
<1>3. CASE ~hooks[Suite].destroy
  <2>1. pc' = "record" /\ ~hooks'[Suite'].destroy
    BY <1>1, <1>3 DEF Leave
  <2> QED
    BY <2>1 DEF HookInv, DestroyFollowsRun, OnlyInitCrashes
<1> QED
  BY <1>2, <1>3

LEMMA NextHooks == TypeOK /\ HookInv /\ [Next]_vars => HookInv'
<1> SUFFICES ASSUME TypeOK, HookInv, [Next]_vars PROVE HookInv'
  OBVIOUS
<1> USE DEF DestroyFollowsRun, OnlyInitCrashes
<1>1. CASE UNCHANGED vars
  BY <1>1 DEF vars, testVars, HookInv, Suite
<1>2. ASSUME NEW s \in Suites, DeclareSuite(s) PROVE HookInv'
  BY <1>2 DEF DeclareSuite, HookInv
<1>3. CASE RunSuite
  BY <1>3 DEF RunSuite, HookInv
<1>4. CASE BeginUnit
  <2>1. Suite' = Suite /\ hooks' = hooks /\ ~ran'
    BY <1>4 DEF BeginUnit, Suite
  <2>2. /\ pc' \in {"record", "init", "setjmp"}
        /\ pc' = "init" => hooks[Suite].init
    BY <1>4 DEF BeginUnit
  <2> QED
    BY <2>1, <2>2 DEF HookInv
<1>5. CASE InitReturns
  BY <1>5 DEF InitReturns, HookInv
<1>6. CASE Setjmp
  BY <1>6 DEF Setjmp, HookInv
<1>7. CASE UnitReturns
  BY <1>7, LeaveHooks DEF UnitReturns, HookInv
<1>8. ASSUME NEW v \in Verdicts, Verdict(v) PROVE HookInv'
  <2>1. CASE jmp
    <3>1. Leave /\ UNCHANGED <<suites, hooks, at, jmp, ran>>
      BY <1>8, <2>1 DEF Verdict, Longjmp
    <3> QED
      BY <2>1, <3>1, LeaveHooks
  <2>2. CASE ~jmp
    <3>1. pc = "init" /\ pc' = "crashed" /\ UNCHANGED <<suites, hooks, at, ran>>
      BY <1>8, <2>2 DEF Verdict, Longjmp, HookInv
    <3>2. hooks'[Suite'].init /\ ~ran'
      BY <3>1 DEF HookInv, Suite
    <3> QED
      BY <3>1, <3>2 DEF HookInv
  <2> QED
    BY <2>1, <2>2
<1>9. CASE CreateResourceFails
  BY <1>8, <1>9 DEF CreateResourceFails, Verdicts
<1>10. CASE CreateResource
  BY <1>10 DEF CreateResource, HookInv, Suite
<1>11. CASE DestroyReturns
  BY <1>11 DEF DestroyReturns, testVars, HookInv
<1>12. CASE Record
  BY <1>12 DEF Record, testVars, HookInv, Suite
<1>13. CASE ReleaseResource
  BY <1>13 DEF ReleaseResource, HookInv, Suite
<1>14. CASE EndUnit
  BY <1>14 DEF EndUnit, HookInv
<1> QED
  BY <1>1, <1>2, <1>3, <1>4, <1>5, <1>6, <1>7, <1>8, <1>9, <1>10, <1>11, <1>12, <1>13,
     <1>14 DEF Next, Runner, Tests

LEMMA SpecHooks == Spec => []HookInv
<1>1. Init /\ [][Next]_vars /\ []TypeOK => []HookInv
  BY InitHooks, NextHooks, PTL
<1> QED
  BY <1>1, SpecTypes, PTL DEF Spec

\* A unit that has begun to run gets its destroy hook before its test is recorded,
\* whether it returns or jumps (htest_run_suite, htest/htest.c:81-87).
THEOREM HooksFollow == Spec => []DestroyFollowsRun
<1>1. HookInv => DestroyFollowsRun
  BY DEF HookInv
<1> QED
  BY <1>1, SpecHooks, PTL

\* A verdict has a place to jump to everywhere but in an init hook (htest_return,
\* htest/htest.c, with the setjmp of htest_run_suite).
THEOREM OnlyInitLosesTheProgram == Spec => [](TypeOK /\ OnlyInitCrashes)
<1>1. HookInv => OnlyInitCrashes
  BY DEF HookInv
<1> QED
  BY <1>1, SpecTypes, SpecHooks, PTL

\* Both together: where the jumps of htest_return land.
THEOREM JumpsLandSafely == Spec => []JumpsLand
<1>1. DestroyFollowsRun /\ OnlyInitCrashes => JumpsLand
  BY DEF JumpsLand
<1> QED
  BY <1>1, HooksFollow, OnlyInitLosesTheProgram, PTL

-----------------------------------------------------------------------------
LEMMA InitResources == Init => ResourceInv
<1> SUFFICES ASSUME Init PROVE ResourceInv
  OBVIOUS
<1>1. created = <<>> /\ resources = <<>> /\ released = <<>>
  BY DEF Init
<1>2. Len(<<>>) = 0
  OBVIOUS
<1> QED
  BY <1>1, <1>2 DEF ResourceInv

\* htest_create_resource puts the next number at the head.
LEMMA CreateKeeps ==
  ASSUME TypeOK, ResourceInv, CreateResource
  PROVE  ResourceInv'
<1> DEFINE n == Len(created)
<1>1. /\ created \in Seq(Nat) /\ resources \in Seq(Nat) /\ n \in Nat
      /\ released = <<>> /\ Len(released) = 0 /\ Len(resources) = n
  BY DEF TypeOK, ResourceInv, CreateResource
<1>2. /\ created' = Append(created, n + 1) /\ resources' = <<n + 1>> \o resources
      /\ released' = released /\ pc' = pc
  BY DEF CreateResource, Attach
<1> HIDE DEF n
<1>3. Len(created') = n + 1 /\ \A x \in 1..n + 1 : created'[x] = x
  BY <1>1, <1>2 DEF ResourceInv, n
<1>4. Len(resources') = n + 1
  BY <1>1, <1>2
<1>5. ASSUME NEW x \in 1..n + 1 PROVE resources'[x] = n + 2 - x
  <2>1. CASE x = 1
    BY <1>1, <1>2, <2>1
  <2>2. CASE x # 1
    <3>1. x - 1 \in 1..Len(resources) /\ resources'[x] = resources[x - 1]
      BY <1>1, <1>2, <2>2
    <3>2. resources[x - 1] = Len(resources) + 1 - (x - 1)
      BY <3>1 DEF ResourceInv
    <3> QED
      BY <1>1, <3>1, <3>2
  <2> QED
    BY <2>1, <2>2
<1>6. \A x \in 1..Len(resources') : resources'[x] = Len(resources') + 1 - x
  BY <1>1, <1>4, <1>5
<1>7. pc' \notin {"declare", "done", "units"}
  BY <1>2 DEF CreateResource
<1> QED
  BY <1>1, <1>2, <1>3, <1>4, <1>6, <1>7 DEF ResourceInv

\* An iteration of htest_destroy releases the last one that is left.
LEMMA ReleaseKeeps ==
  ASSUME TypeOK, ResourceInv, ReleaseResource
  PROVE  ResourceInv'
<1> DEFINE n == Len(created)
           k == Len(resources)
           m == Len(released)
<1>1. /\ created \in Seq(Nat) /\ resources \in Seq(Nat) /\ released \in Seq(Nat)
      /\ n \in Nat /\ m \in Nat /\ k \in Nat /\ k + m = n /\ k >= 1
  BY DEF TypeOK, ResourceInv, ReleaseResource
<1>2. /\ created' = created /\ resources' = Tail(resources)
      /\ released' = Append(released, Head(resources)) /\ pc' = pc /\ pc = "cleanup"
  BY DEF ReleaseResource
<1>3. Head(resources) = n - m
  <2>1. Head(resources) = resources[1] /\ 1 \in 1..k
    BY <1>1
  <2> QED
    BY <1>1, <2>1 DEF ResourceInv
<1>4. Len(resources') = k - 1 /\ Len(released') = m + 1
  BY <1>1, <1>2
<1>5. ASSUME NEW x \in 1..k - 1 PROVE resources'[x] = k - x
  <2>1. resources'[x] = resources[x + 1] /\ x + 1 \in 1..k
    BY <1>1, <1>2
  <2> QED
    BY <1>1, <2>1 DEF ResourceInv
<1>6. ASSUME NEW x \in 1..m + 1 PROVE released'[x] = n + 1 - x
  <2>1. CASE x = m + 1
    BY <1>1, <1>2, <1>3, <2>1
  <2>2. CASE x # m + 1
    <3>1. x \in 1..m /\ released'[x] = released[x]
      BY <1>1, <1>2, <2>2
    <3> QED
      BY <3>1 DEF ResourceInv
  <2> QED
    BY <2>1, <2>2
<1>7. \A x \in 1..Len(created') : created'[x] = x
  BY <1>2 DEF ResourceInv
<1> HIDE DEF n, k, m
<1>8. \A x \in 1..Len(resources') : resources'[x] = Len(resources') + 1 - x
  BY <1>1, <1>4, <1>5
<1>9. \A x \in 1..Len(released') : released'[x] = n + 1 - x
  BY <1>4, <1>6
<1>10. Len(created') = n
  BY <1>2 DEF n
<1>11. Len(resources') + Len(released') = n
  BY <1>1, <1>4
<1> QED
  BY <1>2, <1>7, <1>8, <1>9, <1>10, <1>11 DEF ResourceInv

LEMMA NextResources ==
  ASSUME TypeOK, ResourceInv, [Next]_vars
  PROVE  ResourceInv'
<1> DEFINE lists == <<created, resources, released>>
<1>1. CASE UNCHANGED vars
  BY <1>1 DEF vars, testVars, ResourceInv
<1>2. ASSUME NEW s \in Suites, DeclareSuite(s) PROVE ResourceInv'
  BY <1>2 DEF DeclareSuite, testVars, ResourceInv
<1>3. CASE RunSuite
  BY <1>3 DEF RunSuite, testVars, ResourceInv
<1>4. CASE BeginUnit
  <2>1. created' = <<>> /\ resources' = <<>> /\ released' = <<>>
    BY <1>4 DEF BeginUnit
  <2>2. Len(<<>>) = 0
    OBVIOUS
  <2> QED
    BY <2>1, <2>2 DEF ResourceInv
<1>5. ASSUME pc \in {"init", "setjmp", "run", "destroy", "record"}, UNCHANGED lists,
             pc' \in {"setjmp", "run", "destroy", "record", "cleanup", "crashed"}
      PROVE  ResourceInv'
  BY <1>5 DEF ResourceInv
<1>6. CASE InitReturns
  BY <1>5, <1>6 DEF InitReturns
<1>7. CASE Setjmp
  BY <1>5, <1>7 DEF Setjmp
<1>8. CASE UnitReturns
  <2>1. pc = "run" /\ pc' \in {"destroy", "record"} /\ UNCHANGED lists
    BY <1>8, LeaveTypes DEF UnitReturns
  <2> QED
    BY <1>5, <2>1
<1>9. ASSUME NEW v \in Verdicts, Verdict(v) PROVE ResourceInv'
  <2>1. /\ pc \in {"init", "run", "destroy"} /\ UNCHANGED lists
        /\ pc' \in {"destroy", "record", "crashed"}
    BY <1>9, LeaveTypes DEF Verdict, Longjmp
  <2> QED
    BY <1>5, <2>1
<1>10. CASE CreateResourceFails
  BY <1>9, <1>10 DEF CreateResourceFails, Verdicts
<1>11. CASE CreateResource
  BY <1>11, CreateKeeps
<1>12. CASE DestroyReturns
  BY <1>5, <1>12 DEF DestroyReturns, testVars
<1>13. CASE Record
  BY <1>5, <1>13 DEF Record, testVars
<1>14. CASE ReleaseResource
  BY <1>14, ReleaseKeeps
<1>15. CASE EndUnit
  BY <1>15 DEF EndUnit, testVars, ResourceInv
<1> QED
  BY <1>1, <1>2, <1>3, <1>4, <1>6, <1>7, <1>8, <1>9, <1>10, <1>11, <1>12, <1>13,
     <1>14, <1>15 DEF Next, Runner, Tests

LEMMA SpecResources == Spec => []ResourceInv
<1>1. TypeOK /\ ResourceInv /\ [Next]_vars => ResourceInv'
  BY NextResources
<1>2. Init /\ [][Next]_vars /\ []TypeOK => []ResourceInv
  BY <1>1, InitResources, PTL
<1> QED
  BY <1>2, SpecTypes, PTL DEF Spec

\* Whatever way a test ends, all it created is released, once each and the last
\* created first (htest_create_resource and htest_destroy, htest/htest.c:27-54).
THEOREM TestsReleaseResources == Spec => []ResourcesReleased
<1>1. ASSUME TypeOK, ResourceInv PROVE ResourcesReleased
  <2> SUFFICES ASSUME pc = "units" PROVE resources = <<>> /\ released = Reverse(created)
    BY DEF ResourcesReleased
  <2>1. resources = <<>> /\ released \in Seq(Nat) /\ created \in Seq(Nat)
    BY <1>1 DEF TypeOK, ResourceInv
  <2>2. Len(released) = Len(created)
    BY <1>1, <2>1 DEF ResourceInv
  <2>3. ASSUME NEW x \in 1..Len(created) PROVE released[x] = created[Len(created) - x + 1]
    <3>1. Len(created) - x + 1 \in 1..Len(created)
      BY <2>1
    <3> QED
      BY <1>1, <2>1, <2>2, <3>1 DEF ResourceInv
  <2>4. released = [x \in 1..Len(created) |-> created[Len(created) - x + 1]]
    BY <2>1, <2>2, <2>3
  <2> QED
    BY <2>1, <2>4 DEF Reverse
<1> QED
  BY <1>1, SpecTypes, SpecResources, PTL

-----------------------------------------------------------------------------
\* One more unit says something.
LEMMA OneMoreSaying ==
  ASSUME NEW f, NEW n \in Nat, NEW v
  PROVE  Cardinality(Where(f, v, n + 1)) =
           Cardinality(Where(f, v, n)) + (IF f[n + 1] = v THEN 1 ELSE 0)
<1>1. IsFiniteSet(1..n) /\ Where(f, v, n) \subseteq 1..n
  BY FS_Interval DEF Where
<1>2. IsFiniteSet(Where(f, v, n)) /\ n + 1 \notin Where(f, v, n) /\ Cardinality(Where(f, v, n)) \in Nat
  <2>1. IsFiniteSet(Where(f, v, n))
    BY <1>1, FS_Subset
  <2> QED
    BY <2>1, FS_CardinalityType DEF Where
<1>3. CASE f[n + 1] = v
  <2>1. Where(f, v, n + 1) = Where(f, v, n) \cup {n + 1}
    BY <1>3 DEF Where
  <2> QED
    BY <1>2, <1>3, <2>1, FS_AddElement
<1>4. CASE f[n + 1] # v
  <2>1. Where(f, v, n + 1) = Where(f, v, n)
    BY <1>4 DEF Where
  <2> QED
    BY <1>2, <1>4, <2>1
<1> QED
  BY <1>3, <1>4

LEMMA NobodySays ==
  ASSUME NEW f, NEW v
  PROVE  Cardinality(Where(f, v, 0)) = 0
<1>1. Where(f, v, 0) = {}
  BY DEF Where
<1> QED
  BY <1>1, FS_EmptySet

LEMMA InitStats == Init => StatsInv
<1> SUFFICES ASSUME Init PROVE StatsInv
  OBVIOUS
<1>1. pc = "declare" /\ Counted = 0 /\ stats = NoStats
  BY DEF Init, Counted
<1> QED
  BY <1>1, NobodySays DEF StatsInv, Saying, NoStats

LEMMA BeginKeepsStats ==
  ASSUME TypeOK, StatsInv, BeginUnit
  PROVE  StatsInv'
<1>1. /\ unit \in Nat /\ unit' = unit + 1 /\ unit' \in 1..UnitCount
      /\ pc = "units" /\ stats' = stats
  BY BoundsAssumption DEF TypeOK, BeginUnit
<1>2. said' = [said EXCEPT ![unit'] = status'] /\ said \in [1..UnitCount -> Verdicts]
  BY DEF TypeOK, BeginUnit
<1>3. pc' \in {"record", "init", "setjmp"}
  BY DEF BeginUnit
<1>4. Counted = unit /\ Counted' = unit
  BY <1>1, <1>3 DEF Counted
<1>5. said'[unit'] = status'
  BY <1>1, <1>2
<1>6. \A x \in 1..unit : said'[x] = said[x]
  BY <1>1, <1>2, BoundsAssumption
<1>7. ASSUME NEW v \in Verdicts PROVE Cardinality(Where(said', v, unit)) = stats[v]
  <2>1. Where(said', v, unit) = Saying(v, unit)
    BY <1>6 DEF Saying, Where
  <2> QED
    BY <1>4, <2>1 DEF StatsInv
<1> QED
  BY <1>1, <1>4, <1>5, <1>7 DEF StatsInv, Saying

LEMMA VerdictKeepsStats ==
  ASSUME TypeOK, PlaceInv, StatsInv, NEW w \in Verdicts, Verdict(w)
  PROVE  StatsInv'
<1>1. /\ unit \in 1..UnitCount /\ unit' = unit /\ stats' = stats
      /\ pc \in {"init", "run", "destroy"}
  BY DEF PlaceInv, Verdict
<1>2. /\ said' = [said EXCEPT ![unit] = w] /\ status' = w
      /\ said \in [1..UnitCount -> Verdicts]
  BY DEF TypeOK, Verdict
<1>3. pc' \in {"destroy", "record", "crashed"}
  BY LeaveTypes DEF Verdict, Longjmp
<1>4. Counted = unit - 1 /\ Counted' = unit - 1
  BY <1>1, <1>3 DEF Counted
<1>5. said'[unit'] = status'
  BY <1>1, <1>2
<1>6. \A x \in 1..unit - 1 : said'[x] = said[x]
  BY <1>1, <1>2, BoundsAssumption
<1>7. ASSUME NEW v \in Verdicts
      PROVE  Cardinality(Where(said', v, unit - 1)) = stats[v]
  <2>1. Where(said', v, unit - 1) = Saying(v, unit - 1)
    BY <1>6 DEF Saying, Where
  <2> QED
    BY <1>4, <2>1 DEF StatsInv
<1> QED
  BY <1>1, <1>4, <1>5, <1>7 DEF StatsInv, Saying

LEMMA RecordKeepsStats ==
  ASSUME TypeOK, PlaceInv, StatsInv, Record
  PROVE  StatsInv'
<1>1. /\ unit \in 1..UnitCount /\ unit' = unit /\ said' = said
      /\ pc = "record" /\ pc' = "cleanup"
  BY DEF PlaceInv, Record
<1>2. stats' = [stats EXCEPT ![status] = @ + 1] /\ stats \in [Verdicts -> Nat]
  BY DEF Record, TypeOK
<1>3. Counted = unit - 1 /\ Counted' = unit
  BY <1>1 DEF Counted
<1>4. said[unit] = status /\ status \in Verdicts
  BY <1>1 DEF StatsInv, TypeOK
<1>5. unit - 1 \in Nat /\ (unit - 1) + 1 = unit
  BY <1>1, BoundsAssumption
<1>6. ASSUME NEW v \in Verdicts PROVE stats'[v] = Cardinality(Saying(v, unit))
  <2>1. Cardinality(Saying(v, unit)) =
          Cardinality(Saying(v, unit - 1)) + (IF said[unit] = v THEN 1 ELSE 0)
    BY <1>5, OneMoreSaying DEF Saying
  <2>2. stats[v] = Cardinality(Saying(v, unit - 1))
    BY <1>3 DEF StatsInv
  <2>3. stats'[v] = IF status = v THEN stats[v] + 1 ELSE stats[v]
    BY <1>2, <1>4
  <2>4. stats[v] \in Nat
    BY <1>2
  <2> QED
    BY <1>4, <2>1, <2>2, <2>3, <2>4
<1> QED
  BY <1>1, <1>3, <1>6 DEF StatsInv, Saying

LEMMA NextStats ==
  ASSUME TypeOK, PlaceInv, StatsInv, [Next]_vars
  PROVE  StatsInv'
<1> DEFINE counts == <<unit, stats, said, status>>
           Within == {"init", "setjmp", "run", "destroy", "record"}
           Between == {"declare", "done", "units", "cleanup"}
<1>1. ASSUME UNCHANGED counts, \/ pc \in Within /\ pc' \in Within
                               \/ pc \in Between /\ pc' \in Between
      PROVE  StatsInv'
  <2>1. Counted' = Counted
    BY <1>1 DEF Counted
  <2> QED
    BY <1>1, <2>1 DEF StatsInv, Saying
<1>2. CASE UNCHANGED vars
  BY <1>2 DEF vars, testVars, StatsInv, Saying, Counted
<1>3. ASSUME NEW s \in Suites, DeclareSuite(s) PROVE StatsInv'
  BY <1>1, <1>3 DEF DeclareSuite, testVars
<1>4. CASE RunSuite
  <2>1. /\ unit' = 0 /\ stats' = NoStats /\ pc' \in {"units", "done"} /\ Counted' = 0
    BY <1>4 DEF RunSuite, Counted
  <2> QED
    BY <2>1, NobodySays DEF StatsInv, Saying, NoStats
<1>5. CASE BeginUnit
  BY <1>5, BeginKeepsStats
<1>6. CASE InitReturns
  BY <1>1, <1>6 DEF InitReturns
<1>7. CASE Setjmp
  BY <1>1, <1>7 DEF Setjmp
<1>8. CASE UnitReturns
  <2>1. pc = "run" /\ pc' \in {"destroy", "record"} /\ UNCHANGED counts
    BY <1>8, LeaveTypes DEF UnitReturns
  <2> QED
    BY <1>1, <2>1
<1>9. ASSUME NEW v \in Verdicts, Verdict(v) PROVE StatsInv'
  BY <1>9, VerdictKeepsStats
<1>10. CASE CreateResourceFails
  BY <1>9, <1>10 DEF CreateResourceFails, Verdicts
<1>11. CASE CreateResource
  BY <1>1, <1>11 DEF CreateResource
<1>12. CASE DestroyReturns
  BY <1>1, <1>12 DEF DestroyReturns, testVars
<1>13. CASE Record
  BY <1>13, RecordKeepsStats
<1>14. CASE ReleaseResource
  BY <1>1, <1>14 DEF ReleaseResource
<1>15. CASE EndUnit
  BY <1>1, <1>15 DEF EndUnit, testVars
<1> QED
  BY <1>2, <1>3, <1>4, <1>5, <1>6, <1>7, <1>8, <1>9, <1>10, <1>11, <1>12, <1>13,
     <1>14, <1>15 DEF Next, Runner, Tests

\* The counters of a suite count every unit that is over by what its test last
\* said of itself (the switch of htest_run_suite, htest/htest.c:90-113).
THEOREM StatsAreTrue == Spec => []StatsMatch
<1>1. StatsInv => StatsMatch
  BY DEF StatsInv, StatsMatch, Counted, Saying, Where
<1>2. TypeOK /\ PlaceInv /\ StatsInv /\ [Next]_vars => StatsInv'
  BY NextStats
<1>3. Init /\ [][Next]_vars /\ [](TypeOK /\ PlaceInv) => []StatsInv
  BY <1>2, InitStats, PTL
<1> QED
  BY <1>1, <1>3, SpecTypes, PTL DEF Spec
=============================================================================
