-------------------------------- MODULE Packages -------------------------------
(***************************************************************************)
(* osgtest/library/yum.py with the tests that call it: special_install     *)
(* test_02 and test_04 install and update packages and write down the      *)
(* transactions of yum; special_cleanup test_02 undoes these, last first,  *)
(* and test_04 reinstalls what they are thought to have removed. Yum, the  *)
(* repositories and other users of the machine are the environment; Ctrl-C *)
(* hands the lists as they are to the clean-up.                            *)
(*                                                                         *)
(* Left out: --update-release (its packages go in and out by rpm), and the *)
(* lists install.updated, replace and os_updates, which nothing reads.     *)
(***************************************************************************)

EXTENDS Naturals, Sequences, FiniteSets

CONSTANTS
  Pkg,       \* packages
  Provider,  \* [virtual names -> Pkg]: the package that provides the name
  Wanted,    \* core.options.packages: packages and virtual names
  Timeout,   \* the limit of retry_command, in waits of 30 seconds
  MaxFaults  \* failures of a command other than for now, and transactions of others

Virtual == DOMAIN Provider
ASSUME NamesAssumption ==
  /\ Provider \in [Virtual -> Pkg] /\ Virtual \cap Pkg = {}
  /\ Wanted \in Seq(Pkg \cup Virtual)
ASSUME BoundsAssumption == Timeout \in Nat /\ MaxFaults \in Nat

Version == 0..2                       \* 0: not installed
Rpm == [Pkg -> Version]
Item == Pkg \X (1..2)                 \* name and version, as yum prints them
Actor == {"earlier", "run", "other"}
Transaction == [by : Actor, before : Rpm, after : Rpm]
Test == {"install", "update", "undo", "orphans", "done"}

VARIABLES
  rpm,        \* what is installed
  history,    \* yum's transactions; those of the clean-up are never read
  test,       \* the test in progress
  step,       \* "next", "attempt" (the loop of retry_command), "id", "verify", "parse"
  n,          \* install: the place in Wanted; undo: the transaction
  left,       \* undo: the transactions that follow
  clock,      \* waits in this retry_command
  ok,         \* what retry_command returned: no fail_msg
  printed,    \* the transaction in stdout: what was before and after
  ids,        \* core.state['install.transaction_ids']
  installed,  \* core.state['install.installed']: how often an item is listed
  orphaned,   \* core.state['install.orphaned']: likewise
  failmsg,    \* BOOLEAN: fail_msg of install
  failed,     \* tests that failed
  updaterepos,\* BOOLEAN: option --update-repo
  faults, others,
  halfdone,   \* history: a command that had changed something was run again
  ctrlC,      \* history: when Ctrl-C came: before or after a transaction and a failure
              \* were written down, or in the clean-up
  found       \* history: what was installed before the run

vars == <<rpm, history, test, step, n, left, clock, ok, printed, ids, installed, orphaned,
          failmsg, failed, updaterepos, faults, others, halfdone,
          ctrlC, found>>
retryVars == <<clock, ok, printed>>
listVars == <<ids, installed, orphaned>>
resultVars == <<failmsg, failed>>
machineVars == <<rpm, history, faults, others, halfdone>>
constantVars == <<updaterepos, found, ctrlC>>  \* what no test changes

TypeOK ==
  /\ rpm \in Rpm /\ found \in Rpm
  /\ history \in Seq(Transaction) /\ history # <<>>
  /\ test \in Test /\ step \in {"next", "attempt", "id", "verify", "parse"}
  /\ n \in Nat /\ left \subseteq DOMAIN history /\ clock \in 0..Timeout + 1 /\ ok \in BOOLEAN
  /\ printed \in [before : Rpm, after : Rpm]
  /\ ids \subseteq DOMAIN history
  /\ installed \in [Item -> Nat] /\ orphaned \in [Item -> Nat]
  /\ failmsg \in BOOLEAN /\ failed \subseteq Test /\ updaterepos \in BOOLEAN
  /\ faults \in 0..MaxFaults /\ others \in 0..MaxFaults /\ halfdone \in BOOLEAN
  /\ ctrlC \in {"none", "torn", "settled", "cleanup"}

NoItems == [i \in Item |-> 0]
Listed(list) == {i \in Item : list[i] > 0}
success == ~failmsg /\ "install" \notin failed

--------------------------------------------------------------------------------
(* What yum may do.                                                        *)

Provides(name) == IF name \in Virtual THEN Provider[name] ELSE name

(* A package that a command did not name: a new dependency, an update that *)
(* was needed, a package that was obsoleted.                               *)
AlsoBecomes(v) == {v} \cup (IF v = 0 THEN {1} ELSE {0, 2})

(* A name that is provided is not installed again, but may be updated. *)
Installs(name) ==
  {r \in Rpm : \A p \in Pkg :
     r[p] \in IF p # Provides(name) THEN AlsoBecomes(rpm[p])
              ELSE IF rpm[p] = 0 THEN {1} ELSE {rpm[p], 2}}

Updates == {r \in Rpm : \A p \in Pkg : r[p] \in AlsoBecomes(rpm[p])}

(* yum history undo. What has changed since is left as it is. *)
Undoes(t) == {[p \in Pkg |-> IF rpm[p] = t.after[p] THEN t.before[p] ELSE rpm[p]]}
Undoable(t) == \A p \in Pkg : t.before[p] # t.after[p] => rpm[p] = t.after[p]

(* yum install of versions that are listed, or of newer ones. *)
Reinstalls == {r \in Rpm : \A p \in Pkg :
                 r[p] = IF \E v \in 1..2 : <<p, v>> \in Listed(orphaned) /\ v > rpm[p]
                        THEN CHOOSE v \in 1..2 : /\ <<p, v>> \in Listed(orphaned)
                                                 /\ \A w \in 1..2 : <<p, w>> \in Listed(orphaned)
                                                                    => w <= v
                        ELSE rpm[p]}

Outcome ==
  CASE test = "install" -> Installs(Wanted[n])
    [] test = "update"  -> Updates
    [] test = "undo"    -> Undoes(history[n])
    [] OTHER            -> Reinstalls

(* A part of the work of the command. *)
Partial ==
  {q \in Rpm : \E r \in Outcome : \A p \in Pkg : q[p] \in {rpm[p], r[p]}}

Record(actor, r) ==
  history' = IF r = rpm \/ test \in {"undo", "orphans"} THEN history
             ELSE Append(history, [by |-> actor, before |-> rpm, after |-> r])

--------------------------------------------------------------------------------
(* retry_command, for whichever test calls it.                             *)

(* Mutant: one attempt more. *)
AttemptLate == step = "attempt" /\ clock <= Timeout + 1

Attempt == step = "attempt" /\ clock <= Timeout

(* Mutant: the deadline is renewed when it has come. *)
FailsForNowAgain ==
  /\ Attempt
  /\ UNCHANGED <<machineVars, test, step, n, left, ok, listVars, resultVars, constantVars>>
  /\ clock' = (clock + 1) % (Timeout + 1) /\ printed' = [before |-> rpm, after |-> rpm]

(* A failure of the network, before yum changed anything. *)
FailsForNow ==
  /\ Attempt
  /\ UNCHANGED <<machineVars, test, step, n, left, ok, listVars, resultVars, constantVars>>
  /\ clock' = clock + 1 /\ printed' = [before |-> rpm, after |-> rpm]

Returned(good) ==
  /\ ok' = good
  /\ step' = CASE test = "update" -> "parse"
               [] test = "install" /\ good -> "id"
               [] OTHER -> "next"

Succeeds ==
  /\ Attempt
  /\ \E r \in Outcome :
       /\ test = "undo" => Undoable(history[n])
       /\ rpm' = r /\ Record("run", r) /\ printed' = [before |-> rpm, after |-> r]
  /\ Returned(TRUE)
  /\ UNCHANGED <<test, n, left, clock, listVars, resultVars, faults, others, halfdone,
                 constantVars>>

Fault == faults + others < MaxFaults /\ faults' = faults + 1

(* A failure that no retry helps: after all, some or none of the work was  *)
(* done, or, for an undo, because the packages have changed since.         *)
Fails ==
  /\ Attempt
  /\ \/ /\ Fault
        /\ \E r \in Partial :
             rpm' = r /\ Record("run", r) /\ printed' = [before |-> rpm, after |-> r]
     \/ /\ test = "undo" /\ ~Undoable(history[n])
        /\ printed' = [before |-> rpm, after |-> rpm]
        /\ UNCHANGED <<rpm, history, faults>>
  /\ Returned(FALSE)
  /\ UNCHANGED <<test, n, left, clock, listVars, resultVars, others, halfdone, constantVars>>

(* yum did its work, or some of it, failed all the same, and printed a     *)
(* line of the list of what can be retried.                                *)
FailsForNowHalfDone ==
  /\ Attempt /\ Fault
  /\ \E r \in Partial :
       rpm' = r /\ Record("run", r) /\ printed' = [before |-> rpm, after |-> r]
  /\ clock' = clock + 1 /\ halfdone' = TRUE
  /\ UNCHANGED <<test, step, n, left, ok, listVars, resultVars, others, constantVars>>

GivesUp ==
  /\ step = "attempt" /\ clock > Timeout
  /\ Returned(FALSE)
  /\ UNCHANGED <<machineVars, test, n, left, clock, printed, listVars, resultVars,
                 constantVars>>

--------------------------------------------------------------------------------
(* The tests. A call of retry_command begins with a new clock and with     *)
(* fail_msg empty.                                                         *)

Call ==
  /\ step' = "attempt" /\ clock' = 0 /\ ok' = TRUE
  /\ printed' = [before |-> rpm, after |-> rpm]

After == [t \in Test |-> CASE t = "install" -> "update" [] t = "update" -> "undo"
                           [] t = "undo" -> "orphans" [] OTHER -> "done"]

Ends(fails) ==
  /\ test' = After[test] /\ step' = "next" /\ n' = 0 /\ ok' = TRUE
  /\ failed' = IF fails THEN failed \cup {test} ELSE failed
  /\ left' = IF test = "update" THEN ids' ELSE {}

(* Mutant: every package is handed to yum. *)
NeverInstalled(name) == FALSE

(* rpm -q knows the names of packages only. *)
rpm_is_installed(name) == name \in Pkg /\ rpm[name] # 0

(* install: the packages one by one; a failure does not keep the next from *)
(* its turn.                                                               *)
InstallNext ==
  LET failing == failmsg \/ ~ok
  IN /\ test = "install" /\ step = "next" /\ n < Len(Wanted)
     /\ n' = n + 1
     /\ failmsg' = failing
     /\ IF rpm_is_installed(Wanted[n + 1])
        THEN step' = step /\ ok' = TRUE /\ UNCHANGED <<clock, printed>>
        ELSE Call
     /\ UNCHANGED <<machineVars, test, left, listVars, failed, constantVars>>

(* Mutant: only the last package decides. *)
InstallEndsForgetful ==
  /\ test = "install" /\ step = "next" /\ n = Len(Wanted)
  /\ failmsg' = ~ok
  /\ UNCHANGED listVars
  /\ Ends(~ok)
  /\ UNCHANGED <<machineVars, clock, printed, constantVars>>

InstallEnds ==
  LET failing == failmsg \/ ~ok
  IN /\ test = "install" /\ step = "next" /\ n = Len(Wanted)
     /\ failmsg' = failing
     /\ UNCHANGED listVars
     /\ Ends(failing)
     /\ UNCHANGED <<machineVars, clock, printed, constantVars>>

(* Mutant: the transaction of the update is not written down. *)
InstallIdOnly ==
  /\ step = "id"
  /\ ids' = IF test = "install" THEN ids \cup {Len(history)} ELSE ids
  /\ IF test = "install" THEN step' = "verify" /\ UNCHANGED <<test, n, left, ok, failed>>
     ELSE Ends(FALSE)
  /\ UNCHANGED <<machineVars, clock, printed, installed, orphaned, failmsg, constantVars>>

(* yum history info: the latest transaction, whosever it is. *)
get_transaction_id ==
  /\ step = "id"
  /\ ids' = ids \cup {Len(history)}
  /\ IF test = "install" THEN step' = "verify" /\ UNCHANGED <<test, n, left, ok, failed>>
     ELSE Ends(FALSE)
  /\ UNCHANGED <<machineVars, clock, printed, installed, orphaned, failmsg, constantVars>>

(* The query fails, or a file of the package is not as rpm knows it: the   *)
(* test ends, with what yum has installed.                                 *)
CheckFails ==
  /\ step \in {"id", "verify"}
  /\ \/ Fault
     \/ step = "verify" /\ rpm[Provides(Wanted[n])] = 0 /\ UNCHANGED faults
  /\ UNCHANGED listVars
  /\ Ends(TRUE)
  /\ UNCHANGED <<rpm, history, others, halfdone, clock, printed, failmsg, constantVars>>

verify_dependency ==
  /\ step = "verify" /\ rpm[Provides(Wanted[n])] # 0
  /\ step' = "parse"
  /\ UNCHANGED <<machineVars, test, n, left, retryVars, listVars, resultVars, constantVars>>

--------------------------------------------------------------------------------
(* parse_output_for_packages: the lines "Installing", "Updating", "Cleanup"*)
(* and "Erasing" of one transaction, the new packages first.               *)

Installing == {i \in Item : printed.before[i[1]] = 0 /\ printed.after[i[1]] = i[2]}
Erasing == {i \in Item : printed.before[i[1]] = i[2] /\ printed.after[i[1]] = 0}

Once(i, S) == IF i \in S THEN 1 ELSE 0

(* list.remove takes one entry away; ValueError if there is none. *)
ListPackages ==
  /\ installed' = [i \in Item |-> IF i \in Erasing /\ installed[i] > 0 THEN installed[i] - 1
                                  ELSE installed[i] + Once(i, Installing)]
  /\ orphaned' = [i \in Item |-> orphaned[i]
                    + Once(i, {e \in Erasing : installed[e] = 0})]

Parse ==
  /\ step = "parse"
  /\ ListPackages /\ UNCHANGED ids
  /\ IF test = "update" /\ ~ok THEN Ends(TRUE)
     ELSE /\ step' = IF test = "install" THEN "next" ELSE "id"
          /\ UNCHANGED <<test, n, left, ok, failed>>
  /\ UNCHANGED <<machineVars, clock, printed, failmsg, constantVars>>

--------------------------------------------------------------------------------
(* update, and the clean-up.                                               *)

(* Nothing is updated unless something was installed, and all of it was.   *)
Update ==
  /\ test = "update" /\ step = "next"
  /\ UNCHANGED listVars
  /\ IF updaterepos /\ Listed(installed) # {} /\ success
     THEN Call /\ UNCHANGED <<test, n, left, failed>>
     ELSE Ends(FALSE) /\ UNCHANGED <<clock, printed>>
  /\ UNCHANGED <<machineVars, failmsg, constantVars>>

Latest(S) == CHOOSE i \in S : \A j \in S : j <= i

(* Mutant: undo the first transaction first. *)
UndoNextForward ==
  /\ test = "undo" /\ step = "next" /\ ok
  /\ Listed(installed) # {} /\ left # {}
  /\ n' = (CHOOSE i \in left : \A j \in left : i <= j) /\ left' = left \ {n'}
  /\ Call
  /\ UNCHANGED <<machineVars, test, listVars, resultVars, constantVars>>

UndoNext ==
  /\ test = "undo" /\ step = "next" /\ ok
  /\ Listed(installed) # {} /\ left # {}
  /\ n' = Latest(left) /\ left' = left \ {n'}
  /\ Call
  /\ UNCHANGED <<machineVars, test, listVars, resultVars, constantVars>>

(* All is undone, an undo has failed, or no package is listed. *)
UndoEnds ==
  /\ test = "undo" /\ step = "next"
  /\ Listed(installed) = {} \/ left = {} \/ ~ok
  /\ UNCHANGED listVars
  /\ Ends(~ok)
  /\ UNCHANGED <<machineVars, clock, printed, failmsg, constantVars>>

Orphans ==
  /\ test = "orphans" /\ step = "next" /\ n = 0 /\ Listed(orphaned) # {}
  /\ n' = 1 /\ Call
  /\ UNCHANGED <<machineVars, test, left, listVars, resultVars, constantVars>>

OrphansEnd ==
  /\ test = "orphans" /\ step = "next" /\ (n = 1 \/ Listed(orphaned) = {})
  /\ UNCHANGED listVars
  /\ Ends(~ok)
  /\ UNCHANGED <<machineVars, clock, printed, failmsg, constantVars>>

(* An administrator, or a job that updates the machine at night. *)
Other ==
  /\ faults + others < MaxFaults /\ others' = others + 1 /\ test # "done"
  /\ \E p \in Pkg : \E v \in Version \ {rpm[p]} :
       LET r == [rpm EXCEPT ![p] = v] IN rpm' = r /\ Record("other", r)
  /\ UNCHANGED <<faults, halfdone, test, step, n, left, retryVars, listVars, resultVars,
                 constantVars>>

(* Ctrl-C, once, in whichever test: the second run is special_cleanup,     *)
(* with the lists of the first. yum gets the signal too, and its lock      *)
(* keeps the commands of the clean-up waiting until it has stopped.        *)
Interrupt ==
  /\ ctrlC = "none" /\ test # "done"
  /\ \/ step = "attempt" /\ \E r \in Partial : rpm' = r /\ Record("run", r)
     \/ step # "attempt" /\ UNCHANGED <<rpm, history>>
  /\ ctrlC' = IF test \in {"undo", "orphans"} THEN "cleanup"
              ELSE IF \/ history' # history \/ step = "id"
                      \/ test = "update" /\ step = "parse"
                      \/ test = "install" /\ (failmsg \/ ~ok)
                   THEN "torn" ELSE "settled"
  /\ test' = "undo" /\ step' = "next" /\ n' = 0 /\ left' = ids /\ ok' = TRUE
  /\ UNCHANGED <<faults, others, halfdone, clock, printed, listVars, resultVars, updaterepos,
                 found>>

Done == test = "done" /\ UNCHANGED vars

(* The machine was set up by a transaction of its own; what it has may be  *)
(* old.                                                                    *)
Init ==
  /\ found \in [Pkg -> 0..1] /\ rpm = found
  /\ history = <<[by |-> "earlier", before |-> [p \in Pkg |-> 0], after |-> found]>>
  /\ test = "install" /\ step = "next" /\ n = 0 /\ left = {}
  /\ clock = 0 /\ ok = TRUE /\ printed = [before |-> found, after |-> found]
  /\ ids = {} /\ installed = NoItems /\ orphaned = NoItems
  /\ failmsg = FALSE /\ failed = {} /\ updaterepos \in BOOLEAN
  /\ faults = 0 /\ others = 0 /\ halfdone = FALSE /\ ctrlC = "none"

Run ==
  \/ FailsForNow \/ Succeeds \/ Fails \/ FailsForNowHalfDone \/ GivesUp
  \/ InstallNext \/ InstallEnds \/ get_transaction_id \/ CheckFails
  \/ verify_dependency \/ Parse
  \/ Update \/ UndoNext \/ UndoEnds \/ Orphans \/ OrphansEnd

Next == Run \/ Other \/ Interrupt \/ Done

(* A command that was started comes back, and the tests go on. *)
Spec == Init /\ [][Next]_vars /\ WF_vars(Run)

--------------------------------------------------------------------------------
(* Nothing went wrong, and no transaction was lost to Ctrl-C. *)
Quiet == faults = 0 /\ others = 0 /\ ctrlC # "torn"

(* The undos take the machine back to where it was before the earliest     *)
(* transaction that the run wrote down, whatever yum added, updated and    *)
(* obsoleted, in whatever order and however often Ctrl-C made them start   *)
(* again: if no command failed half way, nobody else changed a package and *)
(* one listed package is left. Where all of the transactions are the       *)
(* run's, this is the machine as it was found (special_cleanup.py:94-100). *)
BackToEarliest ==
  /\ test = "orphans" /\ step = "next" /\ n = 0
  /\ Quiet /\ "undo" \notin failed /\ ids # {} /\ Listed(installed) # {}
  => rpm = history[CHOOSE i \in ids : \A j \in ids : i <= j].before

(* Each undo finds the packages as its transaction left them, so that none *)
(* is refused or leaves a package behind: later transactions of the run    *)
(* have been undone before it. Not so when Ctrl-C has the clean-up begin   *)
(* again.                                                                  *)
UndoFits ==
  Quiet /\ ctrlC # "cleanup" /\ test = "undo" /\ step = "attempt" => Undoable(history[n])

(* yum.py:137: "We just removed a package that we didn't install": an      *)
(* orphan is of a package that was there before the run.                   *)
OrphanWasFound == Quiet => \A i \in Listed(orphaned) : found[i[1]] # 0

(* The run undoes the transaction of somebody else only if another user    *)
(* came between a command and the question for its id, or if the name of a *)
(* virtual package was provided already: there was nothing to do, and the  *)
(* latest transaction is the one that set the machine up.                  *)
OnlyOurs ==
  \A i \in ids : \/ history[i].by = "run"
                 \/ others > 0
                 \/ \E v \in Virtual : found[Provider[v]] # 0

(* A machine that is not as it was found is reported by a failed test,     *)
(* with these exceptions: a foreign transaction was undone; an orphan was  *)
(* installed in another version than the one that was found; a command     *)
(* that had done half its work was run again (the changes of the first     *)
(* attempt are not written down); no package is on the list, because all   *)
(* that was wanted was there and was only updated; or Ctrl-C came between  *)
(* what yum did and the note of it, or between a failure and the end of    *)
(* its test. Ctrl-C in the clean-up is not among them: it begins again.    *)
Reported ==
  /\ test = "done" /\ others = 0 /\ rpm # found
  => \/ failed # {}
     \/ \E i \in ids : history[i].by # "run"
     \/ \E i \in Listed(orphaned) : found[i[1]] # i[2]
     \/ Listed(installed) = {}
     \/ halfdone \/ ctrlC = "torn"

(* No command is retried for ever, and the run comes to its end. *)
RunEnds == <>(test = "done")

================================================================================
