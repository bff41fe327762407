---------------------------- MODULE RunCommandProofs ----------------------------
(***************************************************************************)
(* Proofs about RunCommand, for every set of exit statuses. The invariant  *)
(* says, for each point of __run_command, what the watcher can be doing    *)
(* and what is known of the command: a watcher that is still there when    *)
(* the command is reaped is killed before the runner waits for it, unless  *)
(* a signal ended the command.                                             *)
(***************************************************************************)

EXTENDS RunCommand, TLAPS

(* The command has ended iff its code is known; a signal gives a negative. *)
CommandInv ==
  /\ code = Unknown <=> command = "running"
  /\ runner \in {"popen", "communicate"} => command # "reaped" /\ status = Unknown
  /\ runner \in {"decide", "waitpid", "done"} => command = "reaped"

WatcherInv ==
  /\ timeout = FALSE => watcher = "none"
  /\ runner = "popen" => watcher = "none"
  /\ runner = "communicate" => watcher \in {"none", "sleeping", "awake", "exiting", "exited"}
  /\ runner \in {"communicate", "decide", "waitpid"} /\ timeout = TRUE =>
       watcher \notin {"none", "reaped"}

(* What the runner has concluded. *)
StatusInv ==
  /\ signalled = TRUE => timeout = TRUE /\ (signal = KILL => code = KILL)
  /\ runner = "decide" => status = code
  /\ runner = "waitpid" =>
       /\ timeout = TRUE
       /\ \/ code >= 0 /\ status = code /\ watcher \in {"exited", "killed"}
          \/ code < 0 /\ status = -1
  /\ runner = "done" =>
       \/ timeout = FALSE /\ watcher = "none" /\ status = code
       \/ /\ timeout = TRUE /\ watcher = "reaped"
          /\ (code >= 0 /\ status = code) \/ (code < 0 /\ status = -1)

IInv == TypeOK /\ CommandInv /\ WatcherInv /\ StatusInv

--------------------------------------------------------------------------------

LEMMA CodesAreIntegers == \A c \in Codes : c \in Int /\ c # Unknown
<1>1. ASSUME NEW c \in Codes PROVE c \in Int
  BY ExitCodesAssumption DEF Codes, HUP, INT, KILL, SEGV, TERM
<1> QED
  BY <1>1, UnknownAssumption

LEMMA InitInv == Init => IInv
BY DEF Init, IInv, TypeOK, CommandInv, WatcherInv, StatusInv

LEMMA TypeStep == TypeOK /\ [Next]_vars => TypeOK'
<1> SUFFICES ASSUME TypeOK, [Next]_vars PROVE TypeOK'
  OBVIOUS
<1> USE DEF TypeOK
<1>1. CASE UNCHANGED vars
  BY <1>1 DEF vars
<1>2. CASE CommandEnds \/ SpawnHelper \/ HelperEnds \/ Reaped
  BY <1>2 DEF CommandEnds, SpawnHelper, HelperEnds, Reaped, Codes
<1>3. CASE TimeIsUp \/ WatcherExits \/ KillNobody \/ CloneEnds \/ Alarm
  BY <1>3 DEF TimeIsUp, WatcherExits, KillNobody, CloneEnds, Alarm
<1>4. CASE KillGroup
  BY <1>4 DEF KillGroup, Codes
<1>5. CASE Fork \/ Communicate \/ WaitWatcher
  BY <1>5 DEF Fork, Communicate, WaitWatcher
<1>6. CASE Decide
  BY <1>6 DEF Decide, Codes, HUP
<1>7. CASE Interrupt
  BY <1>7 DEF Interrupt, Codes
<1> QED
  BY <1>1, <1>2, <1>3, <1>4, <1>5, <1>6, <1>7 DEF Next, RunnerStep, WatcherStep

LEMMA NextInv == IInv /\ [Next]_vars => IInv'
<1> SUFFICES ASSUME IInv, [Next]_vars PROVE IInv'
  OBVIOUS
<1> USE CodesAreIntegers DEF IInv
<1>0. TypeOK /\ TypeOK'
  BY TypeStep
<1> USE DEF CommandInv, WatcherInv, StatusInv
<1>1. CASE UNCHANGED vars
  BY <1>0, <1>1 DEF vars
<1>2. CASE CommandEnds
  BY <1>0, <1>2, ExitCodesAssumption, UnknownAssumption
  DEF CommandEnds, TypeOK, HUP, SEGV
<1>3. CASE SpawnHelper \/ HelperEnds \/ Reaped
  BY <1>0, <1>3 DEF SpawnHelper, HelperEnds, Reaped, TypeOK
<1>4. CASE TimeIsUp \/ WatcherExits \/ CloneEnds
  BY <1>0, <1>4 DEF TimeIsUp, WatcherExits, CloneEnds, TypeOK
<1>5. CASE KillGroup
  BY <1>0, <1>5, UnknownAssumption DEF KillGroup, TypeOK, TERM, KILL
<1>6. CASE KillNobody
  BY <1>0, <1>6 DEF KillNobody, GroupEmpty, TypeOK
<1>7. CASE Fork
  BY <1>0, <1>7 DEF Fork, TypeOK
<1>8. CASE Communicate
  BY <1>0, <1>8 DEF Communicate, TypeOK
<1>9. CASE Decide
  BY <1>0, <1>9 DEF Decide, TypeOK
<1>10. CASE WaitWatcher
  BY <1>0, <1>10 DEF WaitWatcher, TypeOK
<1>11. CASE Alarm
  BY <1>0, <1>11 DEF Alarm, InCall, TypeOK
<1>12. CASE Interrupt
  BY <1>0, <1>12, UnknownAssumption DEF Interrupt, InCall, TypeOK, INT
<1> QED
  BY <1>1, <1>2, <1>3, <1>4, <1>5, <1>6, <1>7, <1>8, <1>9, <1>10, <1>11, <1>12
  DEF Next, RunnerStep, WatcherStep

LEMMA Invariance == Spec => []IInv
BY InitInv, NextInv, PTL DEF Spec

(* The processes and statuses are as TypeOK says. *)
THEOREM CommandTypes == Spec => []TypeOK
<1>1. IInv => TypeOK
  BY DEF IInv
<1> QED
  BY <1>1, Invariance, PTL

(* "always reap zombie watcher" (core 582): no watcher outlives its call.  *)
THEOREM NoWatcherLeft == Spec => []WatcherGone
<1>1. IInv => WatcherGone
  BY DEF IInv, StatusInv, WatcherGone
<1> QED
  BY <1>1, Invariance, PTL

(* A second runner appears only in the cases that CloneOnlyWhen names. *)
THEOREM ClonesRare == Spec => []CloneOnlyWhen
<1>1. IInv => CloneOnlyWhen
  BY DEF IInv, TypeOK, CommandInv, WatcherInv, StatusInv, CloneOnlyWhen
<1> QED
  BY <1>1, Invariance, PTL

(* A command that the watcher ended is reported as timed out.              *)
THEOREM KilledReported == Spec => []KilledIsReported
<1>1. IInv => KilledIsReported
  BY DEF IInv, TypeOK, StatusInv, KilledIsReported, CheckSystem, TERM, KILL
<1> QED
  BY <1>1, Invariance, PTL

(* An exit status that is not a signal reaches the caller unchanged.       *)
THEOREM ExitKept == Spec => []NormalExitKept
<1>1. IInv => NormalExitKept
  BY ExitCodesAssumption DEF IInv, TypeOK, StatusInv, NormalExitKept
<1> QED
  BY <1>1, Invariance, PTL

(* A limit that was hit is reported, but for a command that caught TERM.   *)
THEOREM LimitReported == Spec => []LimitIsReported
<1>1. IInv => LimitIsReported
  BY CodesAreIntegers DEF IInv, TypeOK, CommandInv, StatusInv, LimitIsReported,
     CaughtTerm, Codes, HUP, INT, KILL, SEGV, TERM
<1> QED
  BY <1>1, Invariance, PTL

(* What the caller learns of the end of a command is true; that a command  *)
(* caught TERM at its limit is all that it does not learn.                 *)
THEOREM StatusIsTrue == Spec => []StatusTrue
<1>1. KilledIsReported /\ NormalExitKept /\ LimitIsReported => StatusTrue
  BY DEF StatusTrue
<1> QED
  BY <1>1, KilledReported, ExitKept, LimitReported, PTL

================================================================================
