------------------------------- MODULE HTest --------------------------------
(***************************************************************************)
(* The test runner of htest/htest.c: suites declared on a global list, the *)
(* units of each run one after the other under setjmp, hooks around them,  *)
(* resources attached to a test and released when it ends.                 *)
(*                                                                         *)
(* Units and hooks are the tests' own code.  They may create resources and *)
(* end by returning or by a verdict (htest_pass, htest_skip, htest_fail, a *)
(* failed assertion), which jumps to wherever setjmp was last called.      *)
(* A list of list.h is a sequence here, head first (see List).             *)
(***************************************************************************)
EXTENDS Naturals, Sequences, FiniteSets, SequencesExt

CONSTANTS
  Suites,
  NoSuite,        \* no suite is running
  UnitCount,      \* units in the array of every suite
  MaxResources    \* bound on the resources one test creates

ASSUME NoSuiteAssumption == NoSuite \notin Suites
ASSUME BoundsAssumption == {UnitCount, MaxResources} \subseteq Nat

Verdicts == {"passed", "skipped", "failed"}

VARIABLES
  suites,         \* __htest_global_suite_list
  hooks,          \* hooks[s]: whether suite s skips, has an init, a destroy hook
  pc,             \* where the runner is
  at,             \* position in the global list
  unit,           \* units of the suite begun, the last one being run
  status,         \* test.status
  resources,      \* test.resources
  jmp,            \* whether test.return_jmp has been set
  stats,
  said,           \* ghost: what each unit's test last said of itself
  created, released,  \* ghosts: resources of the test, in the order of the calls
  ran,            \* ghost: whether the unit's run has been called
  destroyed       \* ghost: 0 before a call of the destroy hook for the test, then
                  \*   1 and 2 by turns, so that no call of it is a stuttering step
testVars == <<status, resources, jmp, created, released, ran, destroyed>>
vars == <<suites, hooks, pc, at, unit, stats, said, testVars>>

Suite == IF at \in DOMAIN suites THEN suites[at] ELSE NoSuite
NoStats == [v \in Verdicts |-> 0]
NothingSaid == [x \in 1..UnitCount |-> "passed"]

Init ==
  /\ suites = <<>> /\ pc = "declare" /\ at = 0 /\ unit = 0
  /\ hooks \in [Suites -> [skip : BOOLEAN, init : BOOLEAN, destroy : BOOLEAN]]
  /\ status = "passed" /\ resources = <<>> /\ jmp = FALSE /\ stats = NoStats
  /\ said = NothingSaid /\ created = <<>> /\ released = <<>>
  /\ ran = FALSE /\ destroyed = 0

-----------------------------------------------------------------------------
\* __htest_declare_suites, from a constructor: list_add puts it at the head.
DeclareSuite(s) ==
  /\ pc = "declare" /\ s \notin ToSet(suites)
  /\ suites' = <<s>> \o suites
  /\ UNCHANGED <<hooks, pc, at, unit, stats, said, testVars>>

\* Mutant of RunSuite: the cursor stays at the first suite.
RunSuiteAgain ==
  /\ \/ pc = "declare"
     \/ pc = "units" /\ unit = UnitCount
  /\ at' = 1
  /\ pc' = IF at' \in DOMAIN suites THEN "units" ELSE "done"
  /\ unit' = 0 /\ stats' = NoStats /\ said' = NothingSaid
  /\ UNCHANGED <<suites, hooks, testVars>>

\* htest_run_global_suites, before the first suite and after each.
RunSuite ==
  /\ \/ pc = "declare"
     \/ pc = "units" /\ unit = UnitCount
  /\ at' = at + 1
  /\ pc' = IF at' \in DOMAIN suites THEN "units" ELSE "done"
  /\ unit' = 0 /\ stats' = NoStats /\ said' = NothingSaid
  /\ UNCHANGED <<suites, hooks, testVars>>

\* The head of the loop over the units, with htest_init.
BeginUnit ==
  /\ pc = "units" /\ unit < UnitCount
  /\ unit' = unit + 1
  /\ resources' = <<>> /\ jmp' = FALSE
  /\ created' = <<>> /\ released' = <<>>
  /\ ran' = FALSE /\ destroyed' = 0
  /\ status' = IF hooks[Suite].skip THEN "skipped" ELSE "passed"
  /\ said' = [said EXCEPT ![unit'] = status']
  /\ pc' = CASE hooks[Suite].skip -> "record"
             [] ~hooks[Suite].skip /\ hooks[Suite].init -> "init"
             [] OTHER -> "setjmp"
  /\ UNCHANGED <<suites, hooks, at, stats>>

\* The hook returns: the unit runs, whatever the value, which is dropped.
InitReturns ==
  /\ pc = "init" /\ pc' = "setjmp"
  /\ UNCHANGED <<suites, hooks, at, unit, stats, said, status, resources, jmp,
                 created, released, ran, destroyed>>

\* Mutant of Setjmp: the unit runs without the jump set.
SetjmpForgotten ==
  /\ pc = "setjmp" /\ pc' = "run" /\ ran' = TRUE
  /\ UNCHANGED <<suites, hooks, at, unit, stats, said, status, resources, jmp,
                 created, released, destroyed>>

Setjmp ==
  /\ pc = "setjmp" /\ pc' = "run"
  /\ jmp' = TRUE /\ ran' = TRUE
  /\ UNCHANGED <<suites, hooks, at, unit, stats, said, status, resources,
                 created, released, destroyed>>

\* Mutant of Leave: the destroy hook is passed over.
LeaveUnhooked == pc' = "record" /\ UNCHANGED destroyed

\* What follows the if statement around unit->run.
Leave ==
  IF hooks[Suite].destroy THEN pc' = "destroy" /\ destroyed' = IF destroyed = 1 THEN 2 ELSE 1
                          ELSE pc' = "record"  /\ UNCHANGED destroyed

UnitReturns ==
  /\ pc = "run" /\ Leave
  /\ UNCHANGED <<suites, hooks, at, unit, stats, said, status, resources, jmp,
                 created, released, ran>>

\* longjmp: back to behind the if statement, from the unit as from the destroy
\* hook.  Before setjmp the buffer is all zero and the program is lost.
Longjmp == IF jmp THEN Leave ELSE pc' = "crashed" /\ UNCHANGED destroyed

\* htest_set_status and htest_return.
Verdict(v) ==
  /\ pc \in {"init", "run", "destroy"}
  /\ status' = v
  /\ said' = [said EXCEPT ![unit] = v]
  /\ Longjmp
  /\ UNCHANGED <<suites, hooks, at, unit, stats, resources, jmp, created, released,
                 ran>>

Attach(r) == <<r>> \o resources

\* A resource whose handle could be allocated is created and tracked.
CreateResource ==
  /\ pc \in {"init", "run", "destroy"} /\ Len(created) < MaxResources
  /\ created' = Append(created, Len(created) + 1)
  /\ resources' = Attach(Len(created) + 1)
  /\ UNCHANGED <<suites, hooks, pc, at, unit, stats, said, status, jmp, released,
                 ran, destroyed>>

\* malloc fails: htest_fail, before anything is created.
CreateResourceFails == Verdict("failed")

DestroyReturns ==
  /\ pc = "destroy" /\ pc' = "record"
  /\ UNCHANGED <<suites, hooks, at, unit, stats, said, testVars>>

\* Mutant of Record: the case of a skipped test falls through.
RecordFallsThrough ==
  /\ pc = "record" /\ pc' = "cleanup"
  /\ stats' = [v \in Verdicts |->
                 IF v = status \/ (status = "skipped" /\ v = "passed")
                 THEN stats[v] + 1 ELSE stats[v]]
  /\ UNCHANGED <<suites, hooks, at, unit, said, testVars>>

Record ==
  /\ pc = "record" /\ pc' = "cleanup"
  /\ stats' = [stats EXCEPT ![status] = @ + 1]
  /\ UNCHANGED <<suites, hooks, at, unit, said, testVars>>

\* One iteration of htest_destroy: destroy(data), list_rm, free.
ReleaseResource ==
  /\ pc = "cleanup" /\ resources # <<>>
  /\ released' = Append(released, Head(resources))
  /\ resources' = Tail(resources)
  /\ UNCHANGED <<suites, hooks, pc, at, unit, stats, said, status, jmp, created,
                 ran, destroyed>>

\* Mutant of EndUnit: the loop of htest_destroy is not run to its end.
EndUnitEarly ==
  /\ pc = "cleanup" /\ pc' = "units"
  /\ UNCHANGED <<suites, hooks, at, unit, stats, said, testVars>>

EndUnit ==
  /\ pc = "cleanup" /\ resources = <<>> /\ pc' = "units"
  /\ UNCHANGED <<suites, hooks, at, unit, stats, said, testVars>>

Runner == \/ RunSuite \/ BeginUnit \/ Setjmp \/ Record \/ ReleaseResource \/ EndUnit
Tests  == \/ UnitReturns \/ DestroyReturns \/ CreateResource \/ CreateResourceFails
          \/ InitReturns
          \/ \E v \in Verdicts : Verdict(v)

Next == Runner \/ Tests \/ \E s \in Suites : DeclareSuite(s)

\* The runner keeps running, and so does each call of a unit or a hook, until it
\* returns or ends by a verdict.  How often a destroy hook ends by a verdict is not
\* bounded: it may do so whenever it is called.
Spec == Init /\ [][Next]_vars /\ WF_vars(Runner) /\ WF_vars(Tests)

-----------------------------------------------------------------------------
Hooks  == [skip : BOOLEAN, init : BOOLEAN, destroy : BOOLEAN]
Places == {"declare", "units", "init", "setjmp", "run", "destroy", "record", "cleanup",
           "done", "crashed"}

TypeOK ==
  /\ suites \in Seq(Suites) /\ hooks \in [Suites -> Hooks] /\ at \in Nat
  /\ unit \in 0..UnitCount /\ pc \in Places
  /\ status \in Verdicts /\ stats \in [Verdicts -> Nat] /\ said \in [1..UnitCount -> Verdicts]
  /\ {resources, created, released} \subseteq Seq(Nat)
  /\ jmp \in BOOLEAN /\ ran \in BOOLEAN /\ destroyed \in 0..2

\* When a test is over its resources have all been released, once each and the
\* last created first, however its unit and hooks ended.
ResourcesReleased ==
  pc = "units" => resources = <<>> /\ released = Reverse(created)

\* The counters of a suite agree with what its units said of themselves.
StatsMatch ==
  pc = "units" => \A v \in Verdicts :
                    stats[v] = Cardinality({x \in 1..unit : said[x] = v})

\* A unit that has begun to run gets its destroy hook before it is recorded.
DestroyFollowsRun ==
  pc \in {"record", "cleanup"} /\ ran /\ hooks[Suite].destroy => destroyed > 0

\* Only a verdict in an init hook jumps without a place to jump to.
OnlyInitCrashes == pc = "crashed" => hooks[Suite].init /\ ~ran

\* Where a jump out of a unit or a hook lands: behind the unit, where its destroy
\* hook is due, or nowhere.
JumpsLand == DestroyFollowsRun /\ OnlyInitCrashes

\* The run of the suites gets stuck in one way only: a destroy hook that ends by a
\* verdict, and does so again each time the jump has it called once more.
RunEnds == pc # "declare" ~> (pc \in {"done", "crashed"} \/ [](pc = "destroy"))
=============================================================================
