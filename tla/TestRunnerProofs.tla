---------------------------- MODULE TestRunnerProofs ----------------------------
(***************************************************************************)
(* The exit code, the clean-up and --exit-on-fail of TestRunner, for any   *)
(* number of tests.                                                        *)
(***************************************************************************)

EXTENDS TestRunner, TLAPS

(* What osg-test counts as unsuccessful. *)
BadLists == {"failures", "errors", "badSkips", "timeouts"}

Origin == IF main = "first" THEN 1 ELSE CleanupFrom

(* The result of a run says what happened in it: a bad list holds a test   *)
(* only if the test was bad, and each bad test is on a bad list.           *)
ResultTrue ==
  /\ \A list \in BadLists : result[list] \subseteq bad
  /\ \A t \in bad : \E list \in BadLists : t \in result[list]

(* Progress of a run: the tests started are those before next.             *)
Progress ==
  /\ next <= Last + 1 /\ current < next
  /\ main = "first" => started = 1..(next - 1)
  /\ main = "second" => next >= CleanupFrom /\ started = CleanupFrom..(next - 1)

(* The flag is raised by --exit-on-fail and a bad result, and by nothing   *)
(* else.                                                                   *)
FlagTrue == shouldStop <=> exitonfail /\ bad # {}

(* What main decided is still so when osg-test wraps up. *)
Decided ==
  main \in {"wrapping", "exited"} =>
    /\ exitCode = 0 => bad = {} /\ started = 1..Last
    /\ exitCode = 1 => bad # {}
    /\ skip_cleanup \/ Cleanup \subseteq started \/ shouldStop

RunInv ==
  /\ ResultTrue /\ Progress /\ FlagTrue /\ Decided
  /\ main = "second" => exitCode = 130

IInv == TypeOK /\ RunInv

USE DEF Test, Cleanup, NoTest, List, Ended, Raised, Harmless

--------------------------------------------------------------------------------
(* A new result object. *)
LEMMA FreshType == Fresh \in [List -> SUBSET Test]
  BY DEF Fresh

(* The initial state. *)
LEMMA InitInv == Init => IInv
<1> SUFFICES ASSUME Init PROVE IInv
  OBVIOUS
<1>1. TypeOK
  <2>1. 1 \in 1..(NTests + 1) /\ {} \subseteq Test /\ broken \subseteq Test
    BY PlanAssumption DEF Init
  <2>2. result \in [List -> SUBSET Test]
    BY FreshType DEF Init
  <2> QED
    BY <2>1, <2>2 DEF Init, TypeOK
<1>2. RunInv
  BY PlanAssumption DEF Init, RunInv, ResultTrue, Progress, FlagTrue, Decided, Fresh,
     BadLists, Last
<1> QED
  BY <1>1, <1>2 DEF IInv

--------------------------------------------------------------------------------
(* What a stage leaves alone, and what it does to the result. *)

(* A stage either changes nothing that counts or puts its test on a bad    *)
(* list, among the bad tests, and raises the flag if it must.              *)
Clean ==
  /\ \A list \in BadLists : result'[list] = result[list]
  /\ UNCHANGED <<shouldStop, bad>>

Counted ==
  /\ current \in Test
  /\ \A list \in BadLists : result'[list] \in {result[list], result[list] \cup {current}}
  /\ \E list \in BadLists : result'[list] = result[list] \cup {current}
  /\ bad' = bad \cup {current} /\ shouldStop' = (shouldStop \/ exitonfail)

LEMMA StageCounts ==
  ASSUME TypeOK, NEW raised \in Raised, StageRaises(raised)
  PROVE  Clean \/ Counted
<1>1. CASE SetUp(raised)
  BY <1>1 DEF SetUp, TypeOK, Clean, Counted, Add, SawBad, StopIfAsked, BadLists
<1>2. CASE TestMethod(raised)
  BY <1>2 DEF TestMethod, TypeOK, Clean, Counted, Add, SawBad, StopIfAsked, BadLists
<1>3. CASE TearDown(raised)
  BY <1>3 DEF TearDown, TypeOK, Clean, Counted, Add, SawBad, StopIfAsked, BadLists
<1> QED
  BY <1>1, <1>2, <1>3 DEF StageRaises

(* A stage does not move the suites or main on. *)
LEMMA StageStays ==
  ASSUME NEW raised \in Raised, StageRaises(raised)
  PROVE  /\ Running /\ UNCHANGED <<config, main, next, exitCode, started>>
         /\ current' \in {current, NoTest}
<1> QED
  BY DEF StageRaises, SetUp, TestMethod, TearDown, StageFrame, EndTest

LEMMA StageInv ==
  ASSUME IInv, NEW raised \in Raised, StageRaises(raised)
  PROVE  RunInv'
<1>1. TypeOK /\ ResultTrue /\ Progress /\ FlagTrue
  BY DEF IInv, RunInv
<1>2. /\ Running /\ UNCHANGED <<config, main, next, exitCode, started>>
      /\ current' \in {current, NoTest}
  BY StageStays
<1>3. Clean \/ Counted
  BY <1>1, StageCounts
<1>4. ResultTrue' /\ FlagTrue'
  <2>1. CASE Clean
    BY <1>1, <1>2, <2>1 DEF Clean, ResultTrue, FlagTrue, config
  <2>2. CASE Counted
    <3>1. FlagTrue'
      BY <1>1, <1>2, <2>2 DEF Counted, FlagTrue, config, TypeOK
    <3>2. \A list \in BadLists : result'[list] \subseteq bad'
      BY <1>1, <2>2 DEF Counted, ResultTrue
    <3>3. \A t \in bad' : \E list \in BadLists : t \in result'[list]
      <4> SUFFICES ASSUME NEW t \in bad' PROVE \E list \in BadLists : t \in result'[list]
        OBVIOUS
      <4>1. CASE t \in bad
        <5>1. PICK list \in BadLists : t \in result[list]
          BY <1>1, <4>1 DEF ResultTrue
        <5> QED
          BY <5>1, <2>2 DEF Counted
      <4>2. CASE t = current
        BY <4>2, <2>2 DEF Counted
      <4> QED
        BY <4>1, <4>2, <2>2 DEF Counted
    <3> QED
      BY <3>1, <3>2, <3>3 DEF ResultTrue
  <2> QED
    BY <1>3, <2>1, <2>2
<1>5. Progress'
  BY <1>1, <1>2, PlanAssumption DEF Progress, config, Last, TypeOK
<1>6. Decided' /\ (main = "second" => exitCode = 130)'
  BY <1>2 DEF Decided, Running, IInv, RunInv
<1> QED
  BY <1>4, <1>5, <1>6 DEF RunInv

--------------------------------------------------------------------------------
(* The other steps. *)

LEMMA NextTestInv == IInv /\ NextTest => IInv'
<1> SUFFICES ASSUME IInv, NextTest PROVE IInv'
  OBVIOUS
<1>1. next \in Test /\ Last \in Nat /\ Last <= NTests
  BY PlanAssumption DEF IInv, NextTest, TypeOK, Last
<1>2. TypeOK'
  BY <1>1, PlanAssumption DEF IInv, NextTest, TypeOK, config
<1>3. Last' = Last
  BY DEF NextTest, config, Last
<1>4. Progress'
  BY <1>1, <1>2, <1>3, PlanAssumption
  DEF IInv, RunInv, NextTest, Progress, TypeOK, config
<1>5. ResultTrue' /\ FlagTrue' /\ Decided' /\ (main = "second" => exitCode = 130)'
  BY DEF IInv, RunInv, NextTest, ResultTrue, FlagTrue, Decided, config, Running
<1> QED
  BY <1>2, <1>4, <1>5 DEF IInv, RunInv

(* The second run starts with nothing counted. *)
LEMMA CtrlCInv == IInv /\ CtrlC => IInv'
<1> SUFFICES ASSUME IInv, CtrlC PROVE IInv'
  OBVIOUS
<1>1. TypeOK'
  <2>1. CleanupFrom \in 1..(NTests + 1)
    BY PlanAssumption
  <2>2. result' \in [List -> SUBSET Test]
    BY FreshType DEF CtrlC
  <2> QED
    BY <2>1, <2>2 DEF IInv, CtrlC, TypeOK, config
<1>2. Progress'
  BY PlanAssumption DEF IInv, CtrlC, TypeOK, Progress, Last, config
<1>3. ResultTrue' /\ FlagTrue' /\ Decided' /\ (main = "second" => exitCode = 130)'
  BY DEF IInv, TypeOK, CtrlC, ResultTrue, FlagTrue, Decided, Fresh, BadLists, config
<1> QED
  BY <1>1, <1>2, <1>3 DEF IInv, RunInv

(* The exit code is decided by the result, the suites being at their end   *)
(* or stopped.                                                             *)
LEMMA FinishInv == IInv /\ FinishRun => IInv'
<1> SUFFICES ASSUME IInv, FinishRun PROVE IInv'
  OBVIOUS
<1>1. TypeOK'
  BY DEF IInv, FinishRun, TypeOK, Goto, config
<1>2. WasSuccessful <=> bad = {}
  BY DEF IInv, RunInv, ResultTrue, BadLists, WasSuccessful
<1>3. Decided'
  <2>1. UNCHANGED <<bad, started, shouldStop, skip_cleanup>> /\ Last' = Last
    BY DEF FinishRun, Goto, config, Last
  <2>2. CASE main = "first"
    <3>1. exitCode' = (IF bad = {} THEN 0 ELSE 1)
      BY <1>2, <2>2 DEF FinishRun
    <3>2. shouldStop => bad # {}
      BY DEF IInv, RunInv, FlagTrue
    <3>3. ~shouldStop => started = 1..Last
      BY <2>2, PlanAssumption DEF IInv, RunInv, Progress, TypeOK, FinishRun, Last
    <3>4. ~shouldStop /\ ~skip_cleanup => Cleanup \subseteq started
      BY <3>3, PlanAssumption DEF Last
    <3> QED
      BY <2>1, <3>1, <3>2, <3>3, <3>4 DEF Decided
  <2>3. CASE main = "second"
    <3>1. exitCode' = 130
      BY <2>3 DEF IInv, RunInv, FinishRun
    <3>2. ~shouldStop /\ ~skip_cleanup => Cleanup \subseteq started
      BY <2>3, PlanAssumption DEF IInv, RunInv, Progress, TypeOK, FinishRun, Last
    <3> QED
      BY <2>1, <3>1, <3>2 DEF Decided
  <2> QED
    BY <2>2, <2>3 DEF FinishRun, Running
<1>4. ResultTrue' /\ FlagTrue' /\ Progress' /\ (main = "second" => exitCode = 130)'
  BY DEF IInv, RunInv, FinishRun, ResultTrue, FlagTrue, Progress, Goto, config, Last
<1> QED
  BY <1>1, <1>3, <1>4 DEF IInv, RunInv

(* Steps that only say how osg-test ends. *)
LEMMA EndInv ==
  ASSUME IInv, NEW where \in Ended, Goto(where), UNCHANGED exitCode,
         alarm' \in {"armed", "spent", "off"}, where = "exited" => main = "wrapping"
  PROVE  IInv'
<1>1. TypeOK'
  BY DEF IInv, TypeOK, Goto, config
<1>2. RunInv'
  BY DEF IInv, RunInv, ResultTrue, FlagTrue, Progress, Decided, Goto, config, Last
<1> QED
  BY <1>1, <1>2 DEF IInv

--------------------------------------------------------------------------------
(* The invariant. *)

LEMMA NextInv == IInv /\ [Next]_vars => IInv'
<1> SUFFICES ASSUME IInv, [Next]_vars PROVE IInv'
  OBVIOUS
<1>1. ASSUME NEW raised \in Raised, StageRaises(raised), alarm' \in {alarm, "spent"}
      PROVE  IInv'
  <2>1. RunInv'
    BY <1>1, StageInv
  <2>2. TypeOK'
    <3>1. CASE SetUp(raised)
      BY <1>1, <3>1, PlanAssumption
      DEF IInv, SetUp, TypeOK, StageFrame, config, Add, EndTest, SawBad, StopIfAsked
    <3>2. CASE TestMethod(raised)
      BY <1>1, <3>2, PlanAssumption
      DEF IInv, TestMethod, TypeOK, StageFrame, config, Add, SawBad, StopIfAsked
    <3>3. CASE TearDown(raised)
      <4>1. current \in Test /\ UNCHANGED <<config, main, next, exitCode, started>>
        BY <3>3 DEF IInv, TearDown, TypeOK, StageFrame
      <4>2. result' \in [List -> SUBSET Test]
        BY <3>3, <4>1 DEF IInv, TearDown, TypeOK, Add
      <4>3. bad' \subseteq Test /\ shouldStop' \in BOOLEAN
        BY <3>3, <4>1 DEF IInv, TearDown, TypeOK, SawBad, StopIfAsked
      <4> QED
        BY <1>1, <3>3, <4>1, <4>2, <4>3 DEF IInv, TearDown, EndTest, TypeOK, config
    <3> QED
      BY <1>1, <3>1, <3>2, <3>3 DEF StageRaises
  <2> QED
    BY <2>1, <2>2 DEF IInv
<1>2. CASE \E raised \in Raised : StageRaises(raised) /\ UNCHANGED alarm
  BY <1>1, <1>2
<1>3. CASE NextTest
  BY <1>3, NextTestInv
<1>4. CASE FailedTest
  BY <1>4, EndInv DEF FailedTest, IInv, TypeOK
<1>5. CASE FinishRun
  BY <1>5, FinishInv
<1>6. CASE WrapUp
  BY <1>6, EndInv DEF WrapUp, IInv, TypeOK
<1>7. CASE CtrlC
  BY <1>7, CtrlCInv
<1>8. CASE CtrlCAgain
  BY <1>8, EndInv DEF CtrlCAgain, IInv, TypeOK
<1>9. CASE Alarm
  <2>1. CASE Goto("aborted") /\ UNCHANGED exitCode
    BY <1>9, <2>1, EndInv DEF Alarm
  <2>2. CASE Goto("crashed") /\ UNCHANGED exitCode
    BY <1>9, <2>2, EndInv DEF Alarm
  <2>3. CASE StageRaises("error")
    BY <1>9, <1>1, <2>3 DEF Alarm
  <2> QED
    BY <1>9, <2>1, <2>2, <2>3 DEF Alarm
<1>10. CASE UNCHANGED vars
  BY <1>10 DEF vars, config, IInv, TypeOK, RunInv, ResultTrue, Progress, FlagTrue, Decided,
     Last
<1> QED
  BY <1>2, <1>3, <1>4, <1>5, <1>6, <1>7, <1>8, <1>9, <1>10 DEF Next

LEMMA Invariance == Spec => []IInv
<1> QED
  BY InitInv, NextInv, PTL DEF Spec

(* Type correctness, for any number of tests. *)
THEOREM RunnerTypes == Spec => []TypeOK
<1>1. IInv => TypeOK
  BY DEF IInv
<1> QED
  BY <1>1, Invariance, PTL

(* The exit code tells the truth about the tests that ran: 0 exactly when  *)
(* all were started and none was bad (osg-test 242-245).                   *)
THEOREM ExitCodeIsTrue == Spec => []ExitCodeTrue
<1>1. IInv => ExitCodeTrue
  BY DEF IInv, RunInv, Decided, ExitCodeTrue
<1> QED
  BY <1>1, Invariance, PTL

(* An osg-test that ends by itself has started every clean-up test, but    *)
(* for --no-cleanup and --exit-on-fail (osg-test 188, 246-251).            *)
THEOREM CleanupIsRun == Spec => []CleanupRuns
<1>1. IInv => CleanupRuns
  BY DEF IInv, RunInv, Decided, FlagTrue, CleanupRuns
<1> QED
  BY <1>1, Invariance, PTL

(* With --exit-on-fail nothing of a run starts after its first bad result  *)
(* (osgunittest 505-507).                                                  *)
THEOREM FailureStops == Spec => StopOnFailure
<1> DEFINE Stopped == exitonfail /\ bad # {} /\ main' = main => started' = started
<1>1. IInv /\ [Next]_vars => [Stopped]_vars
  <2> SUFFICES ASSUME IInv, Next, exitonfail, bad # {}, main' = main
               PROVE  started' = started
    OBVIOUS
  <2>1. shouldStop
    BY DEF IInv, RunInv, FlagTrue
  <2>2. ~NextTest /\ ~CtrlC
    BY <2>1 DEF NextTest, CtrlC
  <2>3. ASSUME NEW raised \in Raised, StageRaises(raised) PROVE started' = started
    BY <2>3, StageStays
  <2> QED
    BY <2>2, <2>3 DEF Next, FailedTest, FinishRun, WrapUp, CtrlCAgain, Alarm, Goto
<1> QED
  BY <1>1, Invariance, PTL DEF Spec, StopOnFailure

================================================================================
