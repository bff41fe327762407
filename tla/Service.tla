-------------------------------- MODULE Service --------------------------------
(***************************************************************************)
(* osgtest/library/service.py: starting and stopping a daemon, the flag in *)
(* core.state that says that the tests started it, and the wait for its    *)
(* status. There is one thread, so at most one call is in progress, but    *)
(* daemons come up and die on their own between any two steps of it.       *)
(***************************************************************************)

EXTENDS Naturals

CONSTANTS
  Service,  \* the names of the services
  Timeout,  \* the rounds that check_status waits
  NoCall    \* no call is in progress; not a record of a call

ASSUME TimeoutAssumption == Timeout \in Nat \ {0}

Fn == {"start", "check_start", "stop", "check_stop"}
Step == {"command", "poll", "returned", "raised"}

(* Exit codes of systemctl is-active; UNSEEN stands for Python's None.     *)
STATUS_RUNNING == 0
STATUS_STOPPED == 3
UNSEEN == 1

Call == [fn : Fn, svc : Service, force : BOOLEAN, step : Step,
         timer : 0..Timeout, rc : {STATUS_RUNNING, STATUS_STOPPED, UNSEEN}]

ASSUME NoCallAssumption == NoCall \notin Call

VARIABLES
  daemon,   \* [Service -> {"dead", "starting", "running"}]
  started,  \* [Service -> BOOLEAN]: core.state[<service>.started-service]
  call      \* the call in progress, or NoCall

serviceVars == <<daemon, started, call>>

ServiceTypeOK ==
  /\ daemon \in [Service -> {"dead", "starting", "running"}]
  /\ started \in [Service -> BOOLEAN]
  /\ call \in Call \cup {NoCall}

At(step) == call # NoCall /\ call.step = step
Starting == call.fn \in {"start", "check_start"}
Checking == call.fn \in {"check_start", "check_stop"}
Goto(step) == call' = [call EXCEPT !.step = step]

AfterCommand(fn) == IF fn \in {"check_start", "check_stop"} THEN "poll" ELSE "returned"

(* "failed", "activating" and "deactivating" give 3 too. *)
status(s) == IF daemon[s] = "running" THEN STATUS_RUNNING ELSE STATUS_STOPPED

(* Without force the flag decides whether start and stop do anything.      *)
SkipStart(s, force) == ~force /\ started[s]
SkipStop(s, force) == ~force /\ ~started[s]

(* A call of one of the four functions. A check_ function waits all the    *)
(* same when start or stop had nothing to do.                              *)
Begin(fn, s, force) ==
  LET skip == IF fn \in {"start", "check_start"} THEN SkipStart(s, force)
              ELSE SkipStop(s, force)
  IN /\ call = NoCall
     /\ call' = [fn |-> fn, svc |-> s, force |-> force,
                 step |-> IF skip THEN AfterCommand(fn) ELSE "command",
                 timer |-> 0, rc |-> UNSEEN]

(* systemctl start returns 0, at once if the unit is up already. *)
StartSucceeds ==
  /\ At("command") /\ Starting
  /\ IF daemon[call.svc] = "running" THEN UNCHANGED daemon
     ELSE \E d \in {"starting", "running"} : daemon' = [daemon EXCEPT ![call.svc] = d]
  /\ started' = [started EXCEPT ![call.svc] = TRUE]
  /\ Goto(AfterCommand(call.fn))

(* check_system raises before the flag is set. *)
StartFails ==
  /\ At("command") /\ Starting /\ daemon[call.svc] # "running"
  /\ daemon' = [daemon EXCEPT ![call.svc] = "dead"]
  /\ Goto("raised")
  /\ UNCHANGED started

StopSucceeds ==
  /\ At("command") /\ ~Starting
  /\ daemon' = [daemon EXCEPT ![call.svc] = "dead"]
  /\ started' = [started EXCEPT ![call.svc] = FALSE]
  /\ Goto(AfterCommand(call.fn))

(* check_system raises and the flag stays. *)
StopFails ==
  /\ At("command") /\ ~Starting
  /\ \E d \in {"dead", daemon[call.svc]} : daemon' = [daemon EXCEPT ![call.svc] = d]
  /\ Goto("raised")
  /\ UNCHANGED started

Expected == IF Starting THEN STATUS_RUNNING ELSE STATUS_STOPPED

(* Mutant: one round too many. *)
PollInclusive ==
  /\ At("poll") /\ call.timer <= Timeout /\ call.rc # Expected
  /\ call' = [call EXCEPT !.rc = status(call.svc), !.timer = @ + 1]
  /\ UNCHANGED <<daemon, started>>

(* One round of check_status. *)
Poll ==
  /\ At("poll") /\ call.timer < Timeout /\ call.rc # Expected
  /\ call' = [call EXCEPT !.rc = status(call.svc), !.timer = @ + 1]
  /\ UNCHANGED <<daemon, started>>

(* The end of check_status and the assertion on what it returns. *)
PollEnds ==
  /\ At("poll") /\ (call.timer = Timeout \/ call.rc = Expected)
  /\ Goto(IF call.rc = Expected THEN "returned" ELSE "raised")
  /\ UNCHANGED <<daemon, started>>

(* The rest is systemd's and the daemon's own doing. *)
ComesUp(s) ==
  /\ daemon[s] = "starting"
  /\ daemon' = [daemon EXCEPT ![s] = "running"]
  /\ UNCHANGED <<started, call>>

Dies(s) ==
  /\ daemon[s] # "dead"
  /\ daemon' = [daemon EXCEPT ![s] = "dead"]
  /\ UNCHANGED <<started, call>>

================================================================================
