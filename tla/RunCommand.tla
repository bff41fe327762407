------------------------------- MODULE RunCommand -------------------------------
(***************************************************************************)
(* Running one command with a time limit: __run_command, system and        *)
(* check_system of osgtest/library/core.py. Four processes: the test       *)
(* runner, the command, a helper process the command may leave behind, and *)
(* the watcher that the runner forks to kill the command's process group.  *)
(* The watcher is a copy of the runner, and that matters: an exception in  *)
(* it goes up the runner's own stack and the copy goes on running tests.   *)
(* Ctrl-C is one: the terminal sends SIGINT to the runner and the watcher, *)
(* and to the command only if it has no time limit (else setsid has taken  *)
(* it out of the terminal's session).                                      *)
(*                                                                         *)
(* Time is one event, the end of the watcher's sleep. The second Ctrl-C,   *)
(* which nothing catches, is left out.                                     *)
(***************************************************************************)

EXTENDS Integers

CONSTANTS
  ExitCodes,  \* exit statuses of the command, zero or more
  Unknown     \* no status yet

ASSUME ExitCodesAssumption == ExitCodes \subseteq Nat /\ ExitCodes # {}
ASSUME UnknownAssumption == Unknown \notin Int

(* returncode of a process that a signal killed. *)
HUP == -1
INT == -2
KILL == -9
SEGV == -11
TERM == -15

VARIABLES
  timeout,   \* BOOLEAN: the call has a time limit
  signal,    \* timeout_signal, as a returncode
  runner,    \* where __run_command is, or how the runner ended
  status,    \* p.returncode in the runner
  command,   \* "running", "zombie" or "reaped"
  code,      \* how the command ended
  helper,    \* "none", "running", "detached" (left the group), "gone"
  watcher,   \* the forked watcher
  signalled  \* history: the watcher signalled the command while it ran

vars == <<timeout, signal, runner, status, command, code, helper, watcher, signalled>>

Codes == ExitCodes \cup {HUP, INT, KILL, SEGV, TERM}

TypeOK ==
  /\ timeout \in BOOLEAN /\ signal \in {TERM, KILL}
  /\ runner \in {"popen", "communicate", "decide", "waitpid", "done", "aborted",
                "interrupted"}
  /\ status \in Codes \cup {Unknown}
  /\ command \in {"running", "zombie", "reaped"}
  /\ code \in Codes \cup {Unknown}
  /\ helper \in {"none", "running", "detached", "gone"}
  /\ watcher \in {"none", "sleeping", "awake", "exiting", "clone", "exited", "killed", "reaped"}
  /\ signalled \in BOOLEAN

(* Popen has returned: the command runs, a group leader if there is a time *)
(* limit (preexec_fn = os.setsid is over before Popen returns).            *)
Init ==
  /\ timeout \in BOOLEAN /\ signal \in {TERM, KILL}
  /\ runner = "popen" /\ status = Unknown
  /\ command = "running" /\ code = Unknown
  /\ helper = "none" /\ watcher = "none" /\ signalled = FALSE

--------------------------------------------------------------------------------
(* The command and its helper.                                             *)

CommandEnds ==
  /\ command = "running"
  /\ command' = "zombie"
  /\ code' \in ExitCodes \cup {HUP, SEGV}
  /\ UNCHANGED <<timeout, signal, runner, status, helper, watcher, signalled>>

(* A background process inherits the pipe, and the group unless it leaves. *)
SpawnHelper ==
  /\ command = "running" /\ helper = "none"
  /\ helper' \in {"running", "detached"}
  /\ UNCHANGED <<timeout, signal, runner, status, command, code, watcher, signalled>>

HelperEnds ==
  /\ helper \in {"running", "detached"}
  /\ helper' = "gone"
  /\ UNCHANGED <<timeout, signal, runner, status, command, code, watcher, signalled>>

--------------------------------------------------------------------------------
(* The watcher.                                                            *)

(* time.sleep(timeout) returns. *)
TimeIsUp ==
  /\ watcher = "sleeping"
  /\ watcher' = "awake"
  /\ UNCHANGED <<timeout, signal, runner, status, command, code, helper, signalled>>

(* A zombie is still a member of its process group; once it is reaped, and *)
(* no helper is in the group, killpg finds nobody.                         *)
GroupEmpty == command = "reaped" /\ helper # "running"

(* Mutant: os.kill of the command alone. *)
KillLeader ==
  /\ watcher = "awake" /\ ~GroupEmpty
  /\ IF command = "running" THEN command' = "zombie" /\ code' = signal
                            ELSE UNCHANGED <<command, code>>
  /\ watcher' = "exiting" /\ signalled' = (command = "running")
  /\ UNCHANGED <<timeout, signal, runner, status, helper>>

(* os.killpg. A process may catch or ignore TERM, not KILL. *)
KillGroup ==
  /\ watcher = "awake" /\ ~GroupEmpty
  /\ \/ /\ command = "running"
        /\ command' = "zombie" /\ code' = signal
     \/ /\ command = "running" => signal = TERM
        /\ UNCHANGED <<command, code>>
  /\ \/ /\ helper = "running"
        /\ helper' = "gone"
     \/ /\ helper = "running" => signal = TERM
        /\ UNCHANGED helper
  /\ watcher' = "exiting" /\ signalled' = (command = "running")
  /\ UNCHANGED <<timeout, signal, runner, status>>

(* os._exit: the copy of the runner's stack is not unwound. *)
WatcherExits ==
  /\ watcher = "exiting"
  /\ watcher' = "exited"
  /\ UNCHANGED <<timeout, signal, runner, status, command, code, helper, signalled>>

(* os.killpg raises ProcessLookupError: os._exit is not reached, the test  *)
(* fails in the copy, and the copy goes on with the rest of the run.       *)
KillNobody ==
  /\ watcher = "awake" /\ GroupEmpty
  /\ watcher' = "clone"
  /\ UNCHANGED <<timeout, signal, runner, status, command, code, helper, signalled>>

(* The copy has run all the remaining tests and clean-ups. *)
CloneEnds ==
  /\ watcher = "clone"
  /\ watcher' = "exited"
  /\ UNCHANGED <<timeout, signal, runner, status, command, code, helper, signalled>>

--------------------------------------------------------------------------------
(* The runner.                                                             *)

Fork ==
  /\ runner = "popen"
  /\ runner' = "communicate"
  /\ watcher' = IF timeout THEN "sleeping" ELSE "none"
  /\ UNCHANGED <<timeout, signal, status, command, code, helper, signalled>>

(* communicate reads to the end of the pipe, which every process that      *)
(* holds it must have left, and then reaps the command.                    *)
Communicate ==
  /\ runner = "communicate"
  /\ command = "zombie" /\ helper \in {"none", "gone"}
  /\ runner' = "decide"
  /\ command' = "reaped"
  /\ status' = code
  /\ UNCHANGED <<timeout, signal, code, helper, watcher, signalled>>

(* Mutant: the number of the signal is returned. *)
DecideSignalNumber ==
  /\ runner = "decide"
  /\ \/ /\ ~timeout
        /\ runner' = "done"
        /\ UNCHANGED <<status, watcher>>
     \/ /\ timeout /\ status >= 0
        /\ watcher' = IF watcher = "exited" THEN watcher ELSE "killed"
        /\ runner' = "waitpid"
        /\ UNCHANGED status
     \/ /\ timeout /\ status < 0
        /\ status' = -status
        /\ runner' = "waitpid"
        /\ UNCHANGED watcher
  /\ UNCHANGED <<timeout, signal, command, code, helper, signalled>>

(* Mutant: the status is returned as it is. *)
DecideRawStatus ==
  /\ runner = "decide"
  /\ \/ /\ ~timeout
        /\ runner' = "done"
        /\ UNCHANGED <<status, watcher>>
     \/ /\ timeout /\ status >= 0
        /\ watcher' = IF watcher = "exited" THEN watcher ELSE "killed"
        /\ runner' = "waitpid"
        /\ UNCHANGED status
     \/ /\ timeout /\ status < 0
        /\ status' = status
        /\ runner' = "waitpid"
        /\ UNCHANGED watcher
  /\ UNCHANGED <<timeout, signal, command, code, helper, signalled>>

(* Mutant: a watcher that is killed is not waited for. *)
DecideNoWait ==
  /\ runner = "decide"
  /\ \/ /\ ~timeout
        /\ runner' = "done"
        /\ UNCHANGED <<status, watcher>>
     \/ /\ timeout /\ status >= 0
        /\ watcher' = IF watcher = "exited" THEN watcher ELSE "killed"
        /\ runner' = "done"
        /\ UNCHANGED status
     \/ /\ timeout /\ status < 0
        /\ status' = -1
        /\ runner' = "waitpid"
        /\ UNCHANGED watcher
  /\ UNCHANGED <<timeout, signal, command, code, helper, signalled>>

(* Mutant: the watcher is waited for and never killed. *)
DecideNoKill ==
  /\ runner = "decide"
  /\ \/ /\ ~timeout
        /\ runner' = "done"
        /\ UNCHANGED <<status, watcher>>
     \/ /\ timeout /\ status >= 0
        /\ watcher' = watcher
        /\ runner' = "waitpid"
        /\ UNCHANGED status
     \/ /\ timeout /\ status < 0
        /\ status' = -1
        /\ runner' = "waitpid"
        /\ UNCHANGED watcher
  /\ UNCHANGED <<timeout, signal, command, code, helper, signalled>>

(* Without a time limit the status is returned as it is; with one, the     *)
(* watcher is killed after a normal exit, and a signal means -1.           *)
Decide ==
  /\ runner = "decide"
  /\ \/ /\ ~timeout
        /\ runner' = "done"
        /\ UNCHANGED <<status, watcher>>
     \/ /\ timeout /\ status >= 0
        /\ watcher' = IF watcher = "exited" THEN watcher ELSE "killed"
        /\ runner' = "waitpid"
        /\ UNCHANGED status
     \/ /\ timeout /\ status < 0
        /\ status' = -1
        /\ runner' = "waitpid"
        /\ UNCHANGED watcher
  /\ UNCHANGED <<timeout, signal, command, code, helper, signalled>>

WaitWatcher ==
  /\ runner = "waitpid"
  /\ watcher \in {"exited", "killed"}
  /\ watcher' = "reaped"
  /\ runner' = "done"
  /\ UNCHANGED <<timeout, signal, status, command, code, helper, signalled>>

InCall == runner \notin {"done", "aborted", "interrupted"}

(* Mutant: the handler kills the watcher before it aborts. *)
AlarmKillsWatcher ==
  /\ InCall
  /\ runner' = "aborted"
  /\ watcher' = IF watcher = "sleeping" THEN "killed" ELSE watcher
  /\ UNCHANGED <<timeout, signal, status, command, code, helper, signalled>>

(* The alarm of the whole run: the handler ends in os.abort. The command   *)
(* and the watcher live on, and no Ctrl-C reaches them any more.            *)
Alarm ==
  /\ InCall
  /\ runner' = "aborted"
  /\ UNCHANGED <<timeout, signal, status, command, code, helper, watcher, signalled>>

(* Ctrl-C. KeyboardInterrupt takes the runner out of the call, and main    *)
(* goes on with special_cleanup (osg-test 246-251). A watcher that has not *)
(* reached os._exit leaves its sleep, or what it does, by the same         *)
(* exception up the same stack: it runs special_cleanup too, and signals   *)
(* nobody any more.                                                        *)
Interrupt ==
  /\ InCall
  /\ runner' = "interrupted"
  /\ watcher' = IF watcher \in {"sleeping", "awake", "exiting"} THEN "clone" ELSE watcher
  /\ \/ /\ ~timeout /\ command = "running"
        /\ command' = "zombie" /\ code' = INT
     \/ UNCHANGED <<command, code>>
  /\ \/ /\ ~timeout /\ helper = "running"
        /\ helper' = "gone"
     \/ UNCHANGED helper
  /\ UNCHANGED <<timeout, signal, status, signalled>>

(* By init, or by the next Popen of the runner. *)
Reaped ==
  /\ runner \in {"aborted", "interrupted"} /\ command = "zombie"
  /\ command' = "reaped"
  /\ UNCHANGED <<timeout, signal, runner, status, code, helper, watcher, signalled>>

RunnerStep == Fork \/ Communicate \/ Decide \/ WaitWatcher
WatcherStep == TimeIsUp \/ KillGroup \/ KillNobody \/ WatcherExits

Next ==
  \/ RunnerStep \/ WatcherStep
  \/ CommandEnds \/ SpawnHelper \/ HelperEnds
  \/ CloneEnds \/ Alarm \/ Interrupt \/ Reaped

(* The runner and the watcher are ready processes, and sleep ends. Nothing *)
(* makes the command, its helper or a cloned run ever end.                 *)
Fairness == WF_vars(RunnerStep) /\ WF_vars(WatcherStep)

Spec == Init /\ [][Next]_vars /\ Fairness

(* check_system(command, message, exit): what the caller sees. *)
CheckSystem(exit) ==
  IF timeout /\ status = -1 THEN "TimeoutException"
  ELSE IF status = exit THEN "returns" ELSE "AssertionError"

--------------------------------------------------------------------------------
(* Properties.                                                             *)

(* A command that the watcher's signal ended is reported as timed out,     *)
(* whichever of the two ends first is seen first (core 566-583).           *)
KilledIsReported ==
  runner = "done" /\ timeout /\ code = signal /\ code \in {TERM, KILL}
    => CheckSystem(0) = "TimeoutException"

(* When the call returns the watcher is gone: it cannot signal a later     *)
(* command, and leaves no zombie ("always reap zombie watcher", core 582). *)
WatcherGone == runner = "done" => watcher \in {"none", "reaped"}

(* The watcher turns into a second test runner in four cases only: for an  *)
(* instant between the reaping of the command and the SIGKILL (core 572-   *)
(* 577), when the command died of a signal before its time was up, when    *)
(* the run was aborted, and after Ctrl-C, which makes it a second          *)
(* special_cleanup beside that of the runner (osg-test 246-251).           *)
CloneOnlyWhen ==
  watcher = "clone" => runner \in {"decide", "aborted", "interrupted"} \/ code < 0

(* A status that is not a signal is handed on as it is. *)
NormalExitKept ==
  runner = "done" /\ code \in ExitCodes => status = code

(* "If the timeout is hit, the exit status returned is -1" (core 294-296): *)
(* not so if the command catches the watcher's TERM and exits by itself.   *)
CaughtTerm == signal = TERM /\ code \in ExitCodes
LimitIsReported ==
  runner = "done" /\ signalled => status = -1 \/ CaughtTerm

(* What the caller learns of the command is true, in every order in which  *)
(* its end, the watcher and the runner meet; only that the limit was hit   *)
(* it does not learn of a command that caught TERM.                        *)
StatusTrue == KilledIsReported /\ NormalExitKept /\ LimitIsReported

(* With a limit and KILL, the call ends unless a helper left the group or  *)
(* a second runner has appeared.                                           *)
CallEnds ==
  timeout /\ signal = KILL =>
    <>(~InCall \/ helper = "detached" \/ watcher = "clone")

(* With a limit and KILL a command that is watched ends, even if the run   *)
(* was aborted, unless Ctrl-C took the watcher away. (The command is then  *)
(* in a session of its own, and nothing ends it.)                          *)
CommandIsStopped ==
  (timeout /\ signal = KILL /\ watcher = "sleeping")
    ~> (command # "running" \/ runner = "interrupted")

================================================================================
