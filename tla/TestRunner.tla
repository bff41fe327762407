------------------------------- MODULE TestRunner -------------------------------
(***************************************************************************)
(* The driver osg-test and its unittest extension osgunittest.py: tests    *)
(* run one after the other, each as setUp, test method and tearDown; what  *)
(* a stage raises decides the list that the test goes to; --exit-on-fail   *)
(* stops the suites; Ctrl-C starts a second run of the clean-up tests      *)
(* alone; the alarm of the run logs, wraps up and aborts.                  *)
(*                                                                         *)
(* Tests are numbered in the order of the suites. Those of special_cleanup *)
(* are the last ones. A stage may take for ever.                           *)
(***************************************************************************)

EXTENDS Naturals

CONSTANTS
  NTests,      \* the tests of the run, special_cleanup included
  CleanupFrom  \* the first test of special_cleanup

ASSUME PlanAssumption == NTests \in Nat /\ CleanupFrom \in 2..NTests

Test == 1..NTests
Cleanup == CleanupFrom..NTests
NoTest == 0

(* What a stage raises; "error" is every class that run does not name,     *)
(* SystemExit among them.                                                  *)
Raised == {"nothing", "okSkip", "excluded", "badSkip", "timeout", "failure", "error"}
Harmless == {"nothing", "okSkip", "excluded"}

(* The lists of OSGTestResult. *)
List == {"okSkips", "excludes", "badSkips", "timeouts", "failures", "errors"}

Ended == {"exited", "aborted", "crashed", "killed"}

VARIABLES
  exitonfail, skip_cleanup,  \* options
  dumpable,    \* BOOLEAN: wrap_up can write the file of --dump-file
  broken,      \* tests that stand for a module that cannot be imported
  main,        \* "first" or "second" run, "wrapping" up, or how osg-test ended
  next,        \* the test that the suites come to next
  current,     \* the test that runs, or NoTest
  stage,       \* "setUp", "method" or "tearDown" of the current test
  result,      \* [List -> SUBSET Test]: the result object of this run
  shouldStop,  \* its flag
  exitCode,
  alarm,       \* "armed", "spent" or "off"
  started,     \* history: the tests started in this run
  bad          \* history: the tests of this run in which something bad was raised

config == <<exitonfail, skip_cleanup, dumpable, broken>>
vars == <<config, main, next, current, stage, result, shouldStop, exitCode,
          alarm, started, bad>>

Running == main \in {"first", "second"}

(* discover_tests: --no-cleanup leaves special_cleanup out. *)
Last == IF skip_cleanup THEN CleanupFrom - 1 ELSE NTests

TypeOK ==
  /\ exitonfail \in BOOLEAN /\ skip_cleanup \in BOOLEAN /\ dumpable \in BOOLEAN
  /\ broken \subseteq Test
  /\ main \in {"first", "second", "wrapping"} \cup Ended
  /\ next \in 1..(NTests + 1)
  /\ current \in Test \cup {NoTest}
  /\ stage \in {"setUp", "method", "tearDown"}
  /\ result \in [List -> SUBSET Test]
  /\ shouldStop \in BOOLEAN
  /\ exitCode \in {0, 1, 130}
  /\ alarm \in {"armed", "spent", "off"}
  /\ started \subseteq Test /\ bad \subseteq Test

(* A new result object, and a suite that starts at a test. *)
Fresh == [list \in List |-> {}]

Init ==
  /\ exitonfail \in BOOLEAN /\ skip_cleanup \in BOOLEAN /\ dumpable \in BOOLEAN
  /\ \E t \in Test \ Cleanup : broken \in {{}, {t}}
  /\ main = "first" /\ next = 1 /\ current = NoTest /\ stage = "setUp"
  /\ result = Fresh /\ shouldStop = FALSE /\ exitCode = 0 /\ alarm = "armed"
  /\ started = {} /\ bad = {}

--------------------------------------------------------------------------------
(* One test: OSGTestCase.run.                                              *)

(* Mutant: wasSuccessful forgets the list that unittest does not have. *)
WasSuccessfulNoTimeouts ==
  \A list \in {"failures", "errors", "badSkips"} : result[list] = {}

WasSuccessful ==
  \A list \in {"failures", "errors", "badSkips", "timeouts"} : result[list] = {}

(* Mutant: the suites stop whatever the option says. *)
StopAlways == shouldStop' = TRUE

(* if exit_on_fail: result.stop() *)
StopIfAsked == shouldStop' = (shouldStop \/ exitonfail)

Add(list) == result' = [result EXCEPT ![list] = @ \cup {current}]
SawBad == bad' = bad \cup {current}

EndTest == current' = NoTest /\ stage' = "setUp"

StageFrame == UNCHANGED <<config, main, next, exitCode, started>>

(* Mutant: a bad skip in setUp does not stop the suites. *)
SetUpNoStop(raised) ==
  /\ Running /\ current # NoTest /\ stage = "setUp"
  /\ IF raised = "nothing"
       THEN stage' = "method" /\ UNCHANGED <<current, result>>
       ELSE EndTest /\ Add(CASE raised = "okSkip" -> "okSkips"
                             [] raised = "excluded" -> "excludes"
                             [] raised = "badSkip" -> "badSkips"
                             [] OTHER -> "errors")
  /\ IF raised \in Harmless THEN UNCHANGED <<shouldStop, bad>>
     ELSE SawBad /\ (IF raised = "badSkip" THEN UNCHANGED shouldStop ELSE StopIfAsked)
  /\ StageFrame

(* An exception in setUp ends the test without tearDown; a time-out and a  *)
(* failed assertion count as errors there.                                 *)
SetUp(raised) ==
  /\ Running /\ current # NoTest /\ stage = "setUp"
  /\ IF raised = "nothing"
       THEN stage' = "method" /\ UNCHANGED <<current, result>>
       ELSE EndTest /\ Add(CASE raised = "okSkip" -> "okSkips"
                             [] raised = "excluded" -> "excludes"
                             [] raised = "badSkip" -> "badSkips"
                             [] OTHER -> "errors")
  /\ IF raised \in Harmless THEN UNCHANGED <<shouldStop, bad>> ELSE SawBad /\ StopIfAsked
  /\ StageFrame

TestMethod(raised) ==
  /\ Running /\ current # NoTest /\ stage = "method"
  /\ IF raised = "nothing" THEN UNCHANGED result
     ELSE Add(CASE raised = "okSkip" -> "okSkips"
                [] raised = "excluded" -> "excludes"
                [] raised = "badSkip" -> "badSkips"
                [] raised = "timeout" -> "timeouts"
                [] raised = "failure" -> "failures"
                [] raised = "error" -> "errors")
  /\ IF raised \in Harmless THEN UNCHANGED <<shouldStop, bad>> ELSE SawBad /\ StopIfAsked
  /\ stage' = "tearDown" /\ UNCHANGED current
  /\ StageFrame

(* Whatever tearDown raises is an error, a skip too. *)
TearDown(raised) ==
  /\ Running /\ current # NoTest /\ stage = "tearDown"
  /\ IF raised = "nothing" THEN UNCHANGED <<result, shouldStop, bad>>
     ELSE Add("errors") /\ SawBad /\ StopIfAsked
  /\ EndTest
  /\ StageFrame

StageRaises(raised) == SetUp(raised) \/ TestMethod(raised) \/ TearDown(raised)

--------------------------------------------------------------------------------
(* The suites and main.                                                    *)

Goto(where) ==
  /\ main' = where
  /\ UNCHANGED <<config, next, current, stage, result, shouldStop, started, bad>>

(* Mutant: one test too many. *)
NextTestInclusive ==
  /\ Running /\ current = NoTest /\ ~shouldStop /\ next <= Last + 1 /\ next \notin broken
  /\ current' = next /\ next' = next + 1 /\ started' = started \cup {next}
  /\ UNCHANGED <<config, main, stage, result, shouldStop, exitCode, alarm, bad>>

(* OSGTestSuite.run takes the next test unless result.stop() was called. *)
NextTest ==
  /\ Running /\ current = NoTest /\ ~shouldStop /\ next <= Last /\ next \notin broken
  /\ current' = next /\ next' = next + 1 /\ started' = started \cup {next}
  /\ UNCHANGED <<config, main, stage, result, shouldStop, exitCode, alarm, bad>>

(* unittest stands a _FailedTest in for a module that it cannot import;    *)
(* its run takes no exit_on_fail: the TypeError goes up through main.      *)
FailedTest ==
  /\ Running /\ current = NoTest /\ ~shouldStop /\ next <= Last /\ next \in broken
  /\ Goto("crashed") /\ UNCHANGED <<exitCode, alarm>>

(* The exit code of a first run; then the alarm is switched off. *)
FinishRun ==
  /\ Running /\ current = NoTest /\ (shouldStop \/ next > Last)
  /\ exitCode' = IF main = "second" THEN exitCode ELSE IF WasSuccessful THEN 0 ELSE 1
  /\ alarm' = "off"
  /\ Goto("wrapping")

(* A dump file that cannot be written raises before sys.exit. *)
WrapUp ==
  /\ main = "wrapping"
  /\ Goto(IF dumpable THEN "exited" ELSE "crashed")
  /\ UNCHANGED <<exitCode, alarm>>

(* Mutant: the handler of Ctrl-C switches the alarm off. *)
CtrlCDisarms ==
  /\ main = "first"
  /\ main' = "second" /\ exitCode' = 130
  /\ next' = CleanupFrom /\ current' = NoTest /\ stage' = "setUp"
  /\ result' = Fresh /\ shouldStop' = FALSE
  /\ started' = {} /\ bad' = {} /\ alarm' = "off"
  /\ UNCHANGED config

(* KeyboardInterrupt, the only exception that run lets through: a second   *)
(* run of special_cleanup with a result of its own.                        *)
CtrlC ==
  /\ main = "first"
  /\ main' = "second" /\ exitCode' = 130
  /\ next' = CleanupFrom /\ current' = NoTest /\ stage' = "setUp"
  /\ result' = Fresh /\ shouldStop' = FALSE
  /\ started' = {} /\ bad' = {}
  /\ UNCHANGED <<config, alarm>>

(* Nothing catches it later. *)
CtrlCAgain ==
  /\ main \in {"second", "wrapping"}
  /\ Goto("killed") /\ UNCHANGED <<exitCode, alarm>>

(* signal_alarm_handler: wrap_up and os.abort. If wrap_up raises, the      *)
(* exception is one of the test that runs, and the alarm is spent.         *)
Alarm ==
  /\ Running /\ alarm = "armed"
  /\ alarm' = "spent"
  /\ \/ dumpable /\ Goto("aborted") /\ UNCHANGED exitCode
     \/ ~dumpable /\ current = NoTest /\ Goto("crashed") /\ UNCHANGED exitCode
     \/ ~dumpable /\ StageRaises("error")

Next ==
  \/ \E raised \in Raised : StageRaises(raised) /\ UNCHANGED alarm
  \/ NextTest \/ FailedTest \/ FinishRun \/ WrapUp
  \/ CtrlC \/ CtrlCAgain \/ Alarm

(* main and the suites run on; the kernel delivers the alarm. No stage of  *)
(* a test is fair.                                                         *)
Fairness ==
  WF_vars(NextTest) /\ WF_vars(FailedTest) /\ WF_vars(FinishRun) /\ WF_vars(WrapUp)
  /\ WF_vars(Alarm)

Spec == Init /\ [][Next]_vars /\ Fairness

--------------------------------------------------------------------------------
(* Properties.                                                             *)

(* The exit code 0 says that every test of the run was started, and that   *)
(* neither a stage of one raised more than a skip or an exclusion, nor a   *)
(* tearDown anything; 1 says that something of the kind was raised (osg-   *)
(* test 242-245, osgunittest 173-261, 315-317).                            *)
ExitCodeTrue ==
  main = "exited" =>
    /\ exitCode = 0 => bad = {} /\ started = 1..Last
    /\ exitCode = 1 => bad # {}

(* An osg-test that ends by itself, Ctrl-C or not, has started every test  *)
(* of special_cleanup, unless it was told not to or --exit-on-fail stopped *)
(* the run that counts (osg-test 188, 246-251).                            *)
CleanupRuns ==
  main = "exited" => \/ skip_cleanup
                     \/ Cleanup \subseteq started
                     \/ exitonfail /\ bad # {}

(* "Stop tests on first failure" (README 70): with --exit-on-fail no test  *)
(* of a run starts after the first bad result of that run.                 *)
StopOnFailure ==
  [][exitonfail /\ bad # {} /\ main' = main => started' = started]_vars

(* Whatever test hangs, in either run, osg-test ends, unless the handler   *)
(* of the alarm itself failed (osg-test 210-217, 239-254).                 *)
RunEnds == <>(main \in Ended \/ alarm = "spent")

================================================================================
