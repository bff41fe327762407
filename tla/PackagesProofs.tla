----------------------------- MODULE PackagesProofs ----------------------------
(***************************************************************************)
(* What the run writes down of yum's transactions is what the clean-up can *)
(* undo, for any packages, any list of wanted ones and any limits.         *)
(***************************************************************************)

EXTENDS Packages, TLAPS, FiniteSetTheorems, WellFoundedInduction

(* Where the tests are. *)
Places ==
  /\ step \in {"id", "parse"} => test \in {"install", "update"}
  /\ step = "verify" => test = "install"
  /\ step = "attempt" => ok
  /\ test = "done" => step = "next"
  /\ test = "install" => n \in 0..Len(Wanted) /\ (step # "next" => n # 0)
  /\ test = "undo" => n \in DOMAIN history \cup {0} /\ (step # "next" => n # 0)
  /\ test = "orphans" /\ step # "next" => n # 0
  /\ test = "update" /\ ~ok => step = "parse"

(* Each transaction begins where the one before it ended. *)
Chain ==
  /\ history[1].after = found
  /\ \A i \in DOMAIN history : i > 1 => history[i].before = history[i - 1].after
  /\ test \in {"install", "update"} => rpm = history[Len(history)].after

NoneProvided == \A v \in Virtual : found[Provider[v]] = 0

(* Why the latest transaction is one of the run when its id is asked for. *)
Ours ==
  /\ others = 0 => \A i \in DOMAIN history : i > 1 => history[i].by = "run"
  /\ Len(history) = 1 => /\ Listed(installed) = {}
                         /\ test = "update" => step = "next"
                         /\ test \in {"install", "update"} => printed.before = printed.after
  /\ Len(history) = 1 /\ NoneProvided /\ others = 0 =>
       /\ step # "id"
       /\ test = "install" /\ step = "attempt" => rpm[Provides(Wanted[n])] = 0
  /\ OnlyOurs

(* A transaction was made whose id is still to be written down. *)
Pending == step = "id" \/ (test = "update" /\ step = "parse" /\ ok)

(* The transactions that are still to be undone. *)
Lefts == test = "undo" => left = {i \in ids : n = 0 \/ i < n} /\ (n # 0 => n \in ids)

Changed(i, p) == history[i].before[p] # history[i].after[p]

(* Some transaction of the run, or one that it wrote down, changed p. *)
Touched(p) == \E i \in DOMAIN history : (i > 1 \/ 1 \in ids) /\ Changed(i, p)

(* Only what a transaction touched is listed, or other than it was found:  *)
(* what Ctrl-C and failures leave half undone is undone the next time.     *)
Known ==
  /\ history[1].by = "earlier"
  /\ halfdone => faults > 0
  /\ test \in {"install", "update"} /\ printed.before # printed.after
       => \E i \in DOMAIN history : /\ i > 1 /\ history[i].before = printed.before
                                    /\ history[i].after = printed.after
  /\ \A o \in Listed(orphaned) : Touched(o[1])
  /\ others = 0 => \A p \in Pkg : rpm[p] # found[p] => Touched(p)

(* All of the run's transactions are written down. *)
Noted == \A i \in DOMAIN history : i > 1 => i \in ids \/ (i = Len(history) /\ Pending)

(* A failure that is reported, or will be at the end of the test. *)
Reporting ==
  \/ failed # {}
  \/ test = "install" /\ (failmsg \/ ~ok)
  \/ test = "update" /\ ~ok

Written ==
  others = 0 /\ ctrlC # "torn" /\ ~halfdone => Noted \/ (faults > 0 /\ Reporting)

(* Nobody else, nothing done twice, and nothing forgotten. *)
Clean == others = 0 /\ ~halfdone /\ Noted

(* What the transactions from n on changed is undone, however far an       *)
(* earlier clean-up had come.                                              *)
Rewinding ==
  test = "undo" /\ ok /\ n # 0 =>
    \A p \in Pkg : \A i \in DOMAIN history : Changed(i, p) =>
      /\ step = "next" /\ i >= n => rpm[p] = history[n].before[p]
      /\ step = "attempt" /\ i > n => rpm[p] = history[n].after[p]

(* What the undos have reached when the test goes on to the orphans. *)
Undone ==
  test = "orphans" /\ step = "next" /\ n = 0 /\ "undo" \notin failed /\ ids # {}
    /\ Listed(installed) # {}
  => \E i \in ids : (\A j \in ids : i <= j) /\ rpm = history[i].before

(* The undos of the run's own transactions take the machine back to where  *)
(* it was found; what is then reinstalled, and was there, is still there.  *)
AsFound ==
  /\ test \in {"orphans", "done"} /\ "undo" \notin failed /\ Listed(installed) # {}
  /\ \A i \in ids : history[i].by = "run"
  /\ \A i \in Listed(orphaned) : found[i[1]] = i[2]
  => rpm = found

(* In the first clean-up, with no failure, all of it and nothing else. *)
Undoing ==
  test = "undo" /\ ok =>
    rpm = IF n = 0 THEN history[Len(history)].after
          ELSE IF step = "attempt" THEN history[n].after ELSE history[n].before

QuietRun == Quiet /\ ctrlC # "cleanup"

IInv ==
  /\ TypeOK /\ Places /\ Chain /\ Ours /\ Lefts /\ Known /\ Written
  /\ Clean => Rewinding /\ Undone /\ AsFound
  /\ QuietRun => Undoing

--------------------------------------------------------------------------------
LEMMA AfterFacts ==
  /\ After["install"] = "update" /\ After["update"] = "undo" /\ After["undo"] = "orphans"
  /\ After["orphans"] = "done" /\ After["done"] = "done"
  /\ \A t \in Test : After[t] \in Test
BY DEF After, Test

LEMMA HistoryType ==
  ASSUME TypeOK
  PROVE  /\ history \in Seq(Transaction) /\ Len(history) \in Nat \ {0}
         /\ DOMAIN history = 1..Len(history) /\ history[Len(history)] \in Transaction
         /\ rpm \in Rpm
BY DEF TypeOK

(* What a command or another user adds to the history. *)
LEMMA RecordFacts ==
  ASSUME TypeOK, NEW a \in Actor, NEW r \in Rpm, Record(a, r)
  PROVE  /\ history' \in Seq(Transaction) /\ history' # <<>>
         /\ DOMAIN history \subseteq DOMAIN history'
         /\ \A i \in DOMAIN history : history'[i] = history[i]
         /\ \/ /\ history' = history /\ (r = rpm \/ test \in {"undo", "orphans"})
            \/ /\ r # rpm /\ test \notin {"undo", "orphans"}
               /\ Len(history') = Len(history) + 1
               /\ DOMAIN history' = 1..(Len(history) + 1)
               /\ history'[Len(history) + 1].by = a
               /\ history'[Len(history) + 1].before = rpm
               /\ history'[Len(history) + 1].after = r
<1>1. /\ history \in Seq(Transaction) /\ Len(history) \in Nat \ {0}
      /\ DOMAIN history = 1..Len(history) /\ rpm \in Rpm /\ history # <<>>
  BY HistoryType DEF TypeOK
<1>2. CASE r = rpm \/ test \in {"undo", "orphans"}
  BY <1>1, <1>2 DEF Record
<1>3. CASE ~(r = rpm \/ test \in {"undo", "orphans"})
  <2> DEFINE t == [by |-> a, before |-> rpm, after |-> r]
  <2>1. t \in Transaction /\ t.by = a /\ t.before = rpm /\ t.after = r
    BY <1>1 DEF Transaction
  <2>2. history' = Append(history, t)
    BY <1>3 DEF Record
  <2> HIDE DEF t
  <2>3. /\ history' \in Seq(Transaction) /\ Len(history') = Len(history) + 1
        /\ history'[Len(history) + 1] = t
        /\ \A i \in 1..Len(history) : history'[i] = history[i]
    BY <1>1, <2>1, <2>2
  <2> QED
    BY <1>1, <1>3, <2>1, <2>3
<1> QED
  BY <1>2, <1>3

LEMMA OutcomeType ==
  ASSUME TypeOK, Places, step = "attempt"
  PROVE  Outcome \subseteq Rpm
<1>1. Installs(Wanted[n]) \subseteq Rpm /\ Updates \subseteq Rpm /\ Reinstalls \subseteq Rpm
  BY DEF Installs, Updates, Reinstalls
<1>2. ASSUME test = "undo" PROVE Undoes(history[n]) \subseteq Rpm
  <2>1. n \in DOMAIN history /\ history \in Seq(Transaction) /\ rpm \in [Pkg -> Version]
    BY <1>2 DEF Places, TypeOK, Rpm
  <2>2. history[n].before \in [Pkg -> Version] /\ history[n].after \in [Pkg -> Version]
    <3>1. history[n] \in Transaction
      BY <2>1
    <3> QED
      BY <3>1 DEF Transaction, Rpm
  <2> DEFINE t == history[n]
  <2>3. \A p \in Pkg : (IF rpm[p] = t.after[p] THEN t.before[p] ELSE rpm[p]) \in Version
    BY <2>1, <2>2
  <2> HIDE DEF t
  <2>4. [p \in Pkg |-> IF rpm[p] = t.after[p] THEN t.before[p] ELSE rpm[p]] \in [Pkg -> Version]
    BY <2>3
  <2> QED
    BY <2>4 DEF Undoes, Rpm, t
<1> QED
  BY <1>1, <1>2 DEF Outcome

LEMMA PartialType ==
  ASSUME TypeOK, Places, step = "attempt"
  PROVE  Partial \subseteq Rpm /\ Outcome \subseteq Partial /\ rpm \in Rpm
<1>1. Outcome \subseteq Rpm /\ rpm \in Rpm
  BY OutcomeType, HistoryType
<1> QED
  BY <1>1 DEF Partial

(* A failure is counted. *)
LEMMA FaultFacts ==
  ASSUME TypeOK, Fault
  PROVE  faults' \in 0..MaxFaults /\ faults' = faults + 1 /\ faults' > 0
BY BoundsAssumption DEF Fault, TypeOK

LEMMA ReturnedFacts ==
  ASSUME NEW good \in BOOLEAN, Returned(good)
  PROVE  /\ ok' = good /\ step' \in {"parse", "id", "next"}
         /\ test = "update" => step' = "parse"
         /\ test = "install" => step' = IF good THEN "id" ELSE "next"
         /\ test \notin {"install", "update"} => step' = "next"
BY DEF Returned

LEMMA InitInv == Init => IInv
<1> SUFFICES ASSUME Init PROVE IInv
  OBVIOUS
<1>1. found \in Rpm /\ rpm = found /\ [p \in Pkg |-> 0] \in Rpm
  BY DEF Init, Rpm, Version
<1> DEFINE t == [by |-> "earlier", before |-> [p \in Pkg |-> 0], after |-> found]
<1>2. t \in Transaction /\ t.after = found /\ t.by = "earlier"
  BY <1>1 DEF Transaction, Actor
<1>3. history = <<t>>
  BY DEF Init
<1> HIDE DEF t
<1>4. /\ history \in Seq(Transaction) /\ history # <<>> /\ Len(history) = 1
      /\ history[1] = t /\ DOMAIN history = {1}
  BY <1>2, <1>3
<1>5. TypeOK
  <2>1. printed \in [before : Rpm, after : Rpm]
    BY <1>1 DEF Init
  <2>2. installed \in [Item -> Nat] /\ orphaned \in [Item -> Nat]
    BY DEF Init, NoItems
  <2>3. /\ clock \in 0..Timeout + 1 /\ faults \in 0..MaxFaults /\ others \in 0..MaxFaults
        /\ n \in Nat /\ left \subseteq DOMAIN history /\ ids \subseteq DOMAIN history
    BY BoundsAssumption DEF Init
  <2>4. /\ test \in Test /\ step = "next" /\ ok \in BOOLEAN /\ failmsg \in BOOLEAN
        /\ failed \subseteq Test /\ updaterepos \in BOOLEAN /\ halfdone \in BOOLEAN
        /\ ctrlC \in {"none", "torn", "settled", "cleanup"}
    BY DEF Init, Test
  <2> QED
    BY <1>1, <1>4, <2>1, <2>2, <2>3, <2>4 DEF TypeOK
<1>6. Places
  BY NamesAssumption DEF Init, Places
<1>7. Chain
  BY <1>1, <1>2, <1>4 DEF Chain
<1>8. Ours
  <2>1. Listed(installed) = {}
    BY DEF Init, Listed, NoItems
  <2> QED
    BY <1>4, <2>1 DEF Init, Ours, OnlyOurs
<1>9. Lefts /\ Rewinding /\ Undone /\ AsFound /\ Undoing
  BY DEF Init, Lefts, Rewinding, Undone, AsFound, Undoing
<1>10. Noted /\ Written
  BY <1>4 DEF Init, Noted, Written
<1>11. Known
  <2>1. printed.before = printed.after
    BY DEF Init
  <2>2. Listed(orphaned) = {}
    BY DEF Init, Listed, NoItems
  <2> QED
    BY <1>1, <1>2, <1>4, <2>1, <2>2 DEF Init, Known
<1> QED
  BY <1>5, <1>6, <1>7, <1>8, <1>9, <1>10, <1>11 DEF IInv

--------------------------------------------------------------------------------
(* Types and places, action by action.                                     *)

Kept == <<rpm, history, others, faults, halfdone, found, updaterepos, ctrlC>>

(* The frame of a step that runs no command. *)
LEMMA KeptTypes ==
  ASSUME TypeOK, UNCHANGED Kept,
         test' \in Test, step' \in {"next", "attempt", "id", "verify", "parse"},
         n' \in Nat, left' \subseteq DOMAIN history, clock' \in 0..Timeout + 1, ok' \in BOOLEAN,
         printed' \in [before : Rpm, after : Rpm], ids' \subseteq DOMAIN history,
         installed' \in [Item -> Nat], orphaned' \in [Item -> Nat],
         failmsg' \in BOOLEAN, failed' \subseteq Test
  PROVE  TypeOK'
BY DEF TypeOK, Kept

LEMMA CallTypes ==
  ASSUME TypeOK, Call
  PROVE  /\ step' = "attempt" /\ clock' \in 0..Timeout + 1 /\ ok' = TRUE
         /\ printed' \in [before : Rpm, after : Rpm] /\ printed'.before = printed'.after
BY BoundsAssumption DEF Call, TypeOK

LEMMA EndsTypes ==
  ASSUME TypeOK, NEW fails \in BOOLEAN, Ends(fails), ids' \subseteq DOMAIN history
  PROVE  /\ test' = After[test] /\ test' \in Test /\ step' = "next" /\ n' = 0 /\ ok' = TRUE
         /\ failed' \subseteq Test /\ left' \subseteq DOMAIN history
         /\ left' = IF test = "update" THEN ids' ELSE {}
         /\ test = "install" => test' = "update"
         /\ test = "update" => test' = "undo"
         /\ test = "undo" => test' = "orphans"
         /\ test \notin {"install", "update", "undo"} => test' = "done"
BY AfterFacts DEF Ends, TypeOK, Test

LEMMA FailsForNowTypes ==
  ASSUME TypeOK, Places, FailsForNow
  PROVE  TypeOK' /\ Places'
<1>1. /\ UNCHANGED <<rpm, history, others, faults, halfdone, found, updaterepos, ctrlC>>
      /\ UNCHANGED <<test, step, n, left, ok, ids, installed, orphaned, failmsg, failed>>
      /\ clock' = clock + 1 /\ clock <= Timeout /\ printed' = [before |-> rpm, after |-> rpm]
  BY DEF FailsForNow, Attempt, machineVars, listVars, resultVars, constantVars
<1>2. clock' \in 0..Timeout + 1 /\ printed' \in [before : Rpm, after : Rpm]
  BY <1>1, BoundsAssumption DEF TypeOK
<1>3. TypeOK'
  BY <1>1, <1>2, KeptTypes DEF TypeOK, Kept
<1> QED
  BY <1>1, <1>3 DEF Places

LEMMA GivesUpTypes ==
  ASSUME TypeOK, Places, GivesUp
  PROVE  TypeOK' /\ Places'
<1>1. /\ UNCHANGED <<rpm, history, others, faults, halfdone, found, updaterepos, ctrlC>>
      /\ UNCHANGED <<test, n, left, clock, printed, ids, installed, orphaned, failmsg, failed>>
      /\ Returned(FALSE) /\ step = "attempt"
  BY DEF GivesUp, machineVars, listVars, resultVars, constantVars
<1>2. TypeOK'
  BY <1>1, ReturnedFacts, KeptTypes DEF TypeOK, Kept
<1> QED
  BY <1>1, <1>2, ReturnedFacts DEF Places

(* A command that changes the machine. *)
LEMMA CommandTypes ==
  ASSUME TypeOK, Places, step = "attempt", NEW r \in Partial,
         rpm' = r, Record("run", r), printed' = [before |-> rpm, after |-> r],
         UNCHANGED <<test, n, left, listVars, resultVars, others, constantVars>>,
         faults' \in 0..MaxFaults, halfdone' \in BOOLEAN, clock' \in 0..Timeout + 1,
         ok' \in BOOLEAN, step' \in {"next", "attempt", "id", "verify", "parse"}
  PROVE  TypeOK' /\ r \in Rpm /\ DOMAIN history \subseteq DOMAIN history'
<1>1. r \in Rpm /\ rpm \in Rpm
  BY PartialType
<1>2. /\ history' \in Seq(Transaction) /\ history' # <<>>
      /\ DOMAIN history \subseteq DOMAIN history'
  BY <1>1, RecordFacts DEF Actor
<1>3. left' \subseteq DOMAIN history' /\ ids' \subseteq DOMAIN history'
      /\ printed' \in [before : Rpm, after : Rpm]
  BY <1>1, <1>2 DEF TypeOK, listVars
<1> QED
  BY <1>1, <1>2, <1>3 DEF TypeOK, listVars, resultVars, constantVars

LEMMA SucceedsTypes ==
  ASSUME TypeOK, Places, Succeeds
  PROVE  TypeOK' /\ Places'
<1>1. /\ step = "attempt" /\ Returned(TRUE)
      /\ UNCHANGED <<test, n, left, clock, listVars, resultVars, faults, others, halfdone,
                     constantVars>>
  BY DEF Succeeds, Attempt
<1>2. PICK r \in Outcome : rpm' = r /\ Record("run", r) /\ printed' = [before |-> rpm, after |-> r]
  BY DEF Succeeds
<1>3. /\ faults' \in 0..MaxFaults /\ halfdone' \in BOOLEAN /\ clock' \in 0..Timeout + 1
      /\ ok' \in BOOLEAN /\ step' \in {"next", "attempt", "id", "verify", "parse"}
  BY <1>1, ReturnedFacts DEF TypeOK
<1>4. TypeOK' /\ DOMAIN history \subseteq DOMAIN history'
  BY <1>1, <1>2, <1>3, PartialType, CommandTypes
<1> QED
  BY <1>1, <1>4, ReturnedFacts DEF Places

LEMMA FailsTypes ==
  ASSUME TypeOK, Places, Fails
  PROVE  TypeOK' /\ Places'
<1>1. /\ step = "attempt" /\ Returned(FALSE)
      /\ UNCHANGED <<test, n, left, clock, listVars, resultVars, others, halfdone, constantVars>>
  BY DEF Fails, Attempt
<1>2. TypeOK' /\ DOMAIN history \subseteq DOMAIN history'
  <2>1. /\ halfdone' \in BOOLEAN /\ clock' \in 0..Timeout + 1 /\ ok' \in BOOLEAN
        /\ step' \in {"next", "attempt", "id", "verify", "parse"}
    BY <1>1, ReturnedFacts DEF TypeOK
  <2>2. CASE Fault /\ \E r \in Partial :
               rpm' = r /\ Record("run", r) /\ printed' = [before |-> rpm, after |-> r]
    <3>1. faults' \in 0..MaxFaults
      BY <2>2, FaultFacts
    <3> QED
      BY <1>1, <2>1, <2>2, <3>1, CommandTypes
  <2>3. CASE printed' = [before |-> rpm, after |-> rpm] /\ UNCHANGED <<rpm, history, faults>>
    <3>1. printed' \in [before : Rpm, after : Rpm]
      BY <2>3 DEF TypeOK
    <3>2. TypeOK'
      BY <1>1, <2>1, <2>3, <3>1 DEF TypeOK, listVars, resultVars, constantVars
    <3> QED
      BY <2>3, <3>2
  <2> QED
    BY <2>2, <2>3 DEF Fails
<1> QED
  BY <1>1, <1>2, ReturnedFacts DEF Places

LEMMA HalfDoneTypes ==
  ASSUME TypeOK, Places, FailsForNowHalfDone
  PROVE  TypeOK' /\ Places'
<1>1. /\ step = "attempt" /\ clock' = clock + 1 /\ clock <= Timeout /\ halfdone' = TRUE
      /\ UNCHANGED <<test, step, n, left, ok, listVars, resultVars, others, constantVars>>
      /\ Fault
  BY DEF FailsForNowHalfDone, Attempt
<1>2. PICK r \in Partial : rpm' = r /\ Record("run", r) /\ printed' = [before |-> rpm, after |-> r]
  BY DEF FailsForNowHalfDone
<1>3. faults' \in 0..MaxFaults /\ clock' \in 0..Timeout + 1 /\ ok' \in BOOLEAN
      /\ step' \in {"next", "attempt", "id", "verify", "parse"} /\ halfdone' \in BOOLEAN
  BY <1>1, FaultFacts, BoundsAssumption DEF TypeOK
<1>4. TypeOK' /\ DOMAIN history \subseteq DOMAIN history'
  BY <1>1, <1>2, <1>3, CommandTypes
<1> QED
  BY <1>1, <1>4 DEF Places

LEMMA OtherTypes ==
  ASSUME TypeOK, Places, Other
  PROVE  TypeOK' /\ Places'
<1>1. /\ UNCHANGED <<faults, halfdone, test, step, n, left, clock, ok, printed, ids, installed,
                     orphaned, failmsg, failed, updaterepos, found, ctrlC>>
      /\ others' = others + 1 /\ faults + others < MaxFaults
  BY DEF Other, retryVars, listVars, resultVars, constantVars
<1>2. PICK p \in Pkg : \E v \in Version \ {rpm[p]} :
        rpm' = [rpm EXCEPT ![p] = v] /\ Record("other", [rpm EXCEPT ![p] = v])
  BY DEF Other
<1>3. rpm' \in Rpm /\ Record("other", rpm')
  BY <1>2, HistoryType DEF Rpm
<1>4. /\ history' \in Seq(Transaction) /\ history' # <<>>
      /\ DOMAIN history \subseteq DOMAIN history'
  BY <1>3, RecordFacts DEF Actor
<1>5. others' \in 0..MaxFaults
  BY <1>1, BoundsAssumption DEF TypeOK
<1>6. TypeOK'
  BY <1>1, <1>3, <1>4, <1>5 DEF TypeOK
<1> QED
  BY <1>1, <1>4, <1>6 DEF Places

LEMMA InstallNextTypes ==
  ASSUME TypeOK, Places, InstallNext
  PROVE  TypeOK' /\ Places'
<1>1. /\ UNCHANGED <<rpm, history, others, faults, halfdone, found, updaterepos, ctrlC>>
      /\ UNCHANGED <<test, left, ids, installed, orphaned, failed>>
      /\ test = "install" /\ n < Len(Wanted) /\ n' = n + 1
      /\ failmsg' = (failmsg \/ ~ok)
      /\ \/ step' = step /\ step = "next" /\ ok' = TRUE /\ UNCHANGED <<clock, printed>>
         \/ Call
  BY DEF InstallNext, machineVars, listVars, constantVars
<1>2. /\ step' \in {"next", "attempt"} /\ clock' \in 0..Timeout + 1 /\ ok' = TRUE
      /\ printed' \in [before : Rpm, after : Rpm]
  BY <1>1, CallTypes DEF TypeOK
<1>3. n \in Nat /\ Len(Wanted) \in Nat
  BY NamesAssumption DEF TypeOK
<1>4. TypeOK'
  BY <1>1, <1>2, <1>3, KeptTypes DEF TypeOK, Kept
<1> QED
  BY <1>1, <1>2, <1>3, <1>4 DEF Places

LEMMA InstallEndsTypes ==
  ASSUME TypeOK, Places, InstallEnds
  PROVE  TypeOK' /\ Places'
<1>1. /\ UNCHANGED <<rpm, history, others, faults, halfdone, found, updaterepos, ctrlC>>
      /\ UNCHANGED <<clock, printed, ids, installed, orphaned>>
      /\ test = "install" /\ failmsg' = (failmsg \/ ~ok) /\ Ends(failmsg \/ ~ok)
  BY DEF InstallEnds, machineVars, listVars, constantVars
<1>2. (failmsg \/ ~ok) \in BOOLEAN /\ ids' \subseteq DOMAIN history
  BY <1>1 DEF TypeOK
<1>3. /\ test' = "update" /\ step' = "next" /\ n' = 0 /\ ok' = TRUE
      /\ test' \in Test /\ failed' \subseteq Test /\ left' \subseteq DOMAIN history
  BY <1>1, <1>2, EndsTypes
<1>4. TypeOK'
  BY <1>1, <1>2, <1>3, KeptTypes DEF TypeOK, Kept
<1> QED
  BY <1>1, <1>3, <1>4 DEF Places

LEMMA IdTypes ==
  ASSUME TypeOK, Places, get_transaction_id
  PROVE  TypeOK' /\ Places'
<1>1. /\ UNCHANGED <<rpm, history, others, faults, halfdone, found, updaterepos, ctrlC>>
      /\ UNCHANGED <<clock, printed, installed, orphaned, failmsg>>
      /\ step = "id" /\ ids' = ids \cup {Len(history)}
      /\ \/ test = "install" /\ step' = "verify" /\ UNCHANGED <<test, n, left, ok, failed>>
         \/ test # "install" /\ Ends(FALSE)
  BY DEF get_transaction_id, machineVars, constantVars
<1>2. ids' \subseteq DOMAIN history
  BY <1>1, HistoryType DEF TypeOK
<1>3. CASE test = "install"
  <2>1. step' = "verify" /\ UNCHANGED <<test, n, left, ok, failed>>
    BY <1>1, <1>3
  <2>2. TypeOK'
    BY <1>1, <1>2, <2>1, KeptTypes DEF TypeOK, Kept
  <2> QED
    BY <1>1, <1>3, <2>1, <2>2 DEF Places
<1>4. CASE test # "install"
  <2>1. /\ test = "update" /\ test' = "undo" /\ step' = "next" /\ n' = 0 /\ ok' = TRUE
        /\ test' \in Test /\ failed' \subseteq Test /\ left' \subseteq DOMAIN history
    BY <1>1, <1>2, <1>4, EndsTypes DEF Places
  <2>2. TypeOK'
    BY <1>1, <1>2, <2>1, KeptTypes DEF TypeOK, Kept
  <2> QED
    BY <1>1, <2>1, <2>2 DEF Places
<1> QED
  BY <1>3, <1>4

LEMMA CheckFailsTypes ==
  ASSUME TypeOK, Places, CheckFails
  PROVE  TypeOK' /\ Places'
<1>1. /\ UNCHANGED <<rpm, history, others, halfdone, found, updaterepos, ctrlC>>
      /\ UNCHANGED <<clock, printed, ids, installed, orphaned, failmsg>>
      /\ Ends(TRUE) /\ test \in {"install", "update"}
      /\ Fault \/ UNCHANGED faults
  BY DEF CheckFails, listVars, constantVars, Places
<1>2. faults' \in 0..MaxFaults /\ ids' \subseteq DOMAIN history
  BY <1>1, FaultFacts DEF TypeOK
<1>3. /\ test' \in {"update", "undo"} /\ step' = "next" /\ n' = 0 /\ ok' = TRUE
      /\ test' \in Test /\ failed' \subseteq Test /\ left' \subseteq DOMAIN history
  BY <1>1, <1>2, EndsTypes
<1>4. TypeOK'
  BY <1>1, <1>2, <1>3 DEF TypeOK
<1> QED
  BY <1>1, <1>3, <1>4 DEF Places

LEMMA VerifyTypes ==
  ASSUME TypeOK, Places, verify_dependency
  PROVE  TypeOK' /\ Places'
<1>1. /\ UNCHANGED <<rpm, history, others, faults, halfdone, found, updaterepos, ctrlC>>
      /\ UNCHANGED <<test, n, left, clock, ok, printed, ids, installed, orphaned, failmsg, failed>>
      /\ step = "verify" /\ step' = "parse"
  BY DEF verify_dependency, machineVars, retryVars, listVars, resultVars, constantVars
<1>2. TypeOK'
  BY <1>1, KeptTypes DEF TypeOK, Kept
<1> QED
  BY <1>1, <1>2 DEF Places

LEMMA ListTypes ==
  ASSUME TypeOK, ListPackages
  PROVE  installed' \in [Item -> Nat] /\ orphaned' \in [Item -> Nat]
<1>1. installed \in [Item -> Nat] /\ orphaned \in [Item -> Nat]
  BY DEF TypeOK
<1>2. \A i, S : Once(i, S) \in Nat
  BY DEF Once
<1>3. \A i \in Item : (IF i \in Erasing /\ installed[i] > 0 THEN installed[i] - 1
                      ELSE installed[i] + Once(i, Installing)) \in Nat
  BY <1>1, <1>2
<1>4. \A i \in Item : orphaned[i] + Once(i, {e \in Erasing : installed[e] = 0}) \in Nat
  BY <1>1, <1>2
<1> QED
  BY <1>3, <1>4 DEF ListPackages

LEMMA ParseTypes ==
  ASSUME TypeOK, Places, Parse
  PROVE  TypeOK' /\ Places'
<1>1. /\ UNCHANGED <<rpm, history, others, faults, halfdone, found, updaterepos, ctrlC>>
      /\ UNCHANGED <<clock, printed, ids, failmsg>>
      /\ step = "parse" /\ ListPackages /\ test \in {"install", "update"}
      /\ \/ test = "update" /\ Ends(TRUE)
         \/ /\ test = "update" => ok
            /\ step' = IF test = "install" THEN "next" ELSE "id"
            /\ UNCHANGED <<test, n, left, ok, failed>>
  BY DEF Parse, machineVars, constantVars, Places
<1>2. installed' \in [Item -> Nat] /\ orphaned' \in [Item -> Nat] /\ ids' \subseteq DOMAIN history
  BY <1>1, ListTypes DEF TypeOK
<1>3. CASE test = "update" /\ Ends(TRUE)
  <2>1. /\ test' = "undo" /\ step' = "next" /\ n' = 0 /\ ok' = TRUE
        /\ test' \in Test /\ failed' \subseteq Test /\ left' \subseteq DOMAIN history
    BY <1>2, <1>3, EndsTypes
  <2>2. TypeOK'
    BY <1>1, <1>2, <2>1, KeptTypes DEF TypeOK, Kept
  <2> QED
    BY <2>1, <2>2 DEF Places
<1>4. CASE /\ test = "update" => ok
           /\ step' = IF test = "install" THEN "next" ELSE "id"
           /\ UNCHANGED <<test, n, left, ok, failed>>
  <2>1. step' \in {"next", "id"}
    BY <1>4
  <2>2. TypeOK'
    BY <1>1, <1>2, <1>4, <2>1, KeptTypes DEF TypeOK, Kept
  <2> QED
    BY <1>1, <1>4, <2>2 DEF Places
<1> QED
  BY <1>1, <1>3, <1>4

LEMMA UpdateTypes ==
  ASSUME TypeOK, Places, Update
  PROVE  TypeOK' /\ Places'
<1>1. /\ UNCHANGED <<rpm, history, others, faults, halfdone, found, updaterepos, ctrlC>>
      /\ UNCHANGED <<ids, installed, orphaned, failmsg>>
      /\ test = "update"
      /\ \/ Call /\ UNCHANGED <<test, n, left, failed>>
         \/ Ends(FALSE) /\ UNCHANGED <<clock, printed>>
  BY DEF Update, machineVars, listVars, constantVars
<1>2. CASE Call /\ UNCHANGED <<test, n, left, failed>>
  <2>1. TypeOK'
    BY <1>1, <1>2, CallTypes, KeptTypes DEF TypeOK, Kept
  <2> QED
    BY <1>1, <1>2, <2>1, CallTypes DEF Places
<1>3. CASE Ends(FALSE) /\ UNCHANGED <<clock, printed>>
  <2>1. ids' \subseteq DOMAIN history
    BY <1>1 DEF TypeOK
  <2>2. /\ test' = "undo" /\ step' = "next" /\ n' = 0 /\ ok' = TRUE
        /\ test' \in Test /\ failed' \subseteq Test /\ left' \subseteq DOMAIN history
    BY <1>1, <1>3, <2>1, EndsTypes
  <2>3. TypeOK'
    BY <1>1, <1>3, <2>1, <2>2, KeptTypes DEF TypeOK, Kept
  <2> QED
    BY <2>2, <2>3 DEF Places
<1> QED
  BY <1>1, <1>2, <1>3

(* The numbers up to a bound are a finite set, and the smallest of its     *)
(* parts 1..x with all of left is the one where x is in left.              *)
LEMMA LatestFacts ==
  ASSUME TypeOK, left # {}
  PROVE  Latest(left) \in left /\ \A j \in left : j <= Latest(left)
<1> DEFINE all == 1..Len(history)
           Up == {x \in 0..Len(history) : \A j \in left : j <= x}
           Parts == {1..x : x \in Up}
<1>1. left \subseteq all /\ Len(history) \in Nat /\ Len(history) \in Up
  BY HistoryType DEF TypeOK
<1>2. IsFiniteSet(all)
  BY <1>1, FS_Interval
<1>3. IsWellFoundedOn(StrictSubsetOrdering(all), FiniteSubsetsOf(all))
  BY FS_StrictSubsetOrderingWellFounded
<1>4. FiniteSubsetsOf(all) = SUBSET all
  BY <1>2, FS_FiniteSubsetsOfFinite
<1>5. Parts \subseteq SUBSET all /\ Parts # {}
  BY <1>1
<1>6. PICK P \in Parts : \A Q \in Parts : <<Q, P>> \notin StrictSubsetOrdering(all)
  <2> HIDE DEF Parts, all
  <2> QED
    BY <1>3, <1>4, <1>5, WFMin, Zenon
<1>7. PICK m \in Up : P = 1..m
  BY <1>6
<1>8. m \in left
  <2> SUFFICES ASSUME m \notin left PROVE FALSE
    OBVIOUS
  <2>1. m \in Nat /\ m # 0 /\ m <= Len(history)
    <3>1. PICK j \in left : j \in 1..Len(history)
      BY <1>1
    <3>2. m \in 0..Len(history) /\ j <= m
      BY <1>7, <3>1
    <3> QED
      BY <1>1, <3>1, <3>2
  <2>2. m - 1 \in Up
    <3>1. \A j \in left : j <= m - 1
      BY <1>1, <1>7, <2>1
    <3> QED
      BY <1>1, <2>1, <3>1
  <2>3. 1..(m - 1) \in Parts /\ 1..(m - 1) \subseteq P /\ 1..(m - 1) # P /\ P \in SUBSET all
    BY <1>1, <1>5, <1>6, <1>7, <2>1, <2>2
  <2>4. <<1..(m - 1), P>> \in StrictSubsetOrdering(all)
    BY <1>5, <2>3 DEF StrictSubsetOrdering
  <2> QED
    BY <1>6, <2>3, <2>4
<1> QED
  BY <1>7, <1>8 DEF Latest

LEMMA UndoNextTypes ==
  ASSUME TypeOK, Places, UndoNext
  PROVE  TypeOK' /\ Places'
<1>1. /\ UNCHANGED <<rpm, history, others, faults, halfdone, found, updaterepos, ctrlC>>
      /\ UNCHANGED <<test, ids, installed, orphaned, failmsg, failed>>
      /\ test = "undo" /\ n' = Latest(left) /\ left' = left \ {n'} /\ left # {} /\ Call
  BY DEF UndoNext, machineVars, listVars, resultVars, constantVars
<1>2. n' \in left /\ left \subseteq DOMAIN history /\ DOMAIN history = 1..Len(history)
      /\ Len(history) \in Nat
  BY <1>1, LatestFacts, HistoryType DEF TypeOK
<1>3. n' \in DOMAIN history /\ n' # 0 /\ n' \in Nat /\ left' \subseteq DOMAIN history
  BY <1>1, <1>2
<1>4. TypeOK'
  BY <1>1, <1>3, CallTypes, KeptTypes DEF TypeOK, Kept
<1> QED
  BY <1>1, <1>3, <1>4, CallTypes DEF Places

LEMMA UndoEndsTypes ==
  ASSUME TypeOK, Places, UndoEnds \/ OrphansEnd
  PROVE  TypeOK' /\ Places'
<1>1. /\ UNCHANGED <<rpm, history, others, faults, halfdone, found, updaterepos, ctrlC>>
      /\ UNCHANGED <<clock, printed, ids, installed, orphaned, failmsg>>
      /\ test \in {"undo", "orphans"} /\ Ends(~ok)
  BY DEF UndoEnds, OrphansEnd, machineVars, listVars, constantVars
<1>2. (~ok) \in BOOLEAN /\ ids' \subseteq DOMAIN history
  BY <1>1 DEF TypeOK
<1>3. /\ test' \in {"orphans", "done"} /\ step' = "next" /\ n' = 0 /\ ok' = TRUE
      /\ test' \in Test /\ failed' \subseteq Test /\ left' \subseteq DOMAIN history
  BY <1>1, <1>2, EndsTypes
<1>4. TypeOK'
  BY <1>1, <1>2, <1>3, KeptTypes DEF TypeOK, Kept
<1> QED
  BY <1>3, <1>4 DEF Places

LEMMA OrphansTypes ==
  ASSUME TypeOK, Places, Orphans
  PROVE  TypeOK' /\ Places'
<1>1. /\ UNCHANGED <<rpm, history, others, faults, halfdone, found, updaterepos, ctrlC>>
      /\ UNCHANGED <<test, left, ids, installed, orphaned, failmsg, failed>>
      /\ test = "orphans" /\ n' = 1 /\ Call
  BY DEF Orphans, machineVars, listVars, resultVars, constantVars
<1>2. TypeOK'
  BY <1>1, CallTypes, KeptTypes DEF TypeOK, Kept
<1> QED
  BY <1>1, <1>2, CallTypes DEF Places

LEMMA InterruptTypes ==
  ASSUME TypeOK, Places, Interrupt
  PROVE  TypeOK' /\ Places'
<1>1. /\ UNCHANGED <<faults, others, halfdone, clock, printed, ids, installed, orphaned, failmsg,
                     failed, updaterepos, found>>
      /\ ctrlC' \in {"none", "torn", "settled", "cleanup"}
      /\ test' = "undo" /\ step' = "next" /\ n' = 0 /\ left' = ids /\ ok' = TRUE
  BY DEF Interrupt, listVars, resultVars
<1>2. /\ history' \in Seq(Transaction) /\ history' # <<>> /\ rpm' \in Rpm
      /\ DOMAIN history \subseteq DOMAIN history'
  <2>1. CASE step = "attempt"
    <3>1. PICK r \in Partial : rpm' = r /\ Record("run", r)
      BY <2>1 DEF Interrupt
    <3>2. r \in Rpm /\ "run" \in Actor
      BY <2>1, <3>1, PartialType DEF Actor
    <3> QED
      BY <3>1, <3>2, RecordFacts
  <2>2. CASE step # "attempt"
    BY <2>2 DEF Interrupt, TypeOK
  <2> QED
    BY <2>1, <2>2
<1>3. TypeOK'
  BY <1>1, <1>2 DEF TypeOK, Test
<1> QED
  BY <1>1, <1>3 DEF Places

LEMMA NextTypes ==
  ASSUME TypeOK, Places, [Next]_vars
  PROVE  TypeOK' /\ Places'
<1>1. CASE Run
  BY <1>1, FailsForNowTypes, SucceedsTypes, FailsTypes, HalfDoneTypes, GivesUpTypes,
     InstallNextTypes, InstallEndsTypes, IdTypes, CheckFailsTypes, VerifyTypes, ParseTypes,
     UpdateTypes, UndoNextTypes, UndoEndsTypes, OrphansTypes DEF Run
<1>2. CASE Other \/ Interrupt
  BY <1>2, OtherTypes, InterruptTypes
<1>3. CASE UNCHANGED vars
  BY <1>3 DEF vars, TypeOK, Places
<1> QED
  BY <1>1, <1>2, <1>3 DEF Next, Done

LEMMA TypesInvariant == Spec => [](TypeOK /\ Places)
<1>1. Init => TypeOK /\ Places
  BY InitInv DEF IInv
<1>2. TypeOK /\ Places /\ [Next]_vars => (TypeOK /\ Places)'
  BY NextTypes
<1> QED
  BY <1>1, <1>2, PTL DEF Spec

(* Every variable keeps its type: whatever the lists hold is counted by    *)
(* natural numbers, and each id that is written down is the number of a    *)
(* transaction that was made.                                              *)
THEOREM TypeCorrect == Spec => []TypeOK
  BY TypesInvariant, PTL

--------------------------------------------------------------------------------
(* Whose transactions they are.                                            *)

(* A step that runs no command and writes down no id. *)
LEMMA OursKept ==
  ASSUME TypeOK, Chain, Ours, UNCHANGED <<rpm, history, others, found, ids>>,
         test' \in {"install", "update"} => test \in {"install", "update"},
         Len(history) = 1 =>
            /\ Listed(installed)' = {}
            /\ test' = "update" => step' = "next"
            /\ test' \in {"install", "update"} => printed'.before = printed'.after,
         Len(history) = 1 /\ NoneProvided /\ others = 0 =>
            /\ step' # "id"
            /\ test' = "install" /\ step' = "attempt" => rpm[Provides(Wanted[n'])] = 0
  PROVE  Chain' /\ Ours'
<1>1. Chain'
  BY DEF Chain
<1>2. NoneProvided' = NoneProvided /\ OnlyOurs'
  BY DEF NoneProvided, Ours, OnlyOurs
<1> QED
  BY <1>1, <1>2 DEF Ours

(* A command, or somebody else, makes the machine r. *)
LEMMA RecordChain ==
  ASSUME TypeOK, Chain, Ours, NEW a \in Actor, NEW r \in Rpm, rpm' = r, Record(a, r),
         test # "done", (a = "run" /\ others' = others) \/ others' = others + 1,
         UNCHANGED <<found, ids>>
  PROVE  /\ history'[1].after = found'
         /\ \A i \in DOMAIN history' : i > 1 => history'[i].before = history'[i - 1].after
         /\ test \in {"install", "update"} => rpm' = history'[Len(history')].after
         /\ others' = 0 => \A i \in DOMAIN history' : i > 1 => history'[i].by = "run"
         /\ OnlyOurs'
<1>1. /\ DOMAIN history \subseteq DOMAIN history'
      /\ \A i \in DOMAIN history : history'[i] = history[i]
  BY RecordFacts
<1>2. Len(history) \in Nat \ {0} /\ DOMAIN history = 1..Len(history) /\ 1 \in DOMAIN history
      /\ ids \subseteq DOMAIN history /\ others \in Nat
  BY HistoryType DEF TypeOK
<1>3. OnlyOurs'
  <2>1. \A i \in ids : history'[i].by = history[i].by
    BY <1>1, <1>2
  <2> QED
    BY <1>2, <2>1 DEF Ours, OnlyOurs
<1>4. others' = 0 => others = 0
  BY <1>2
<1>5. CASE history' = history /\ (r = rpm \/ test \in {"undo", "orphans"})
  BY <1>3, <1>4, <1>5 DEF Chain, Ours
<1>6. CASE /\ r # rpm /\ test \notin {"undo", "orphans"}
           /\ Len(history') = Len(history) + 1
           /\ DOMAIN history' = 1..(Len(history) + 1)
           /\ history'[Len(history) + 1].by = a
           /\ history'[Len(history) + 1].before = rpm
           /\ history'[Len(history) + 1].after = r
  <2> DEFINE last == Len(history)
  <2>1. /\ last \in Nat \ {0} /\ Len(history') = last + 1
        /\ DOMAIN history = 1..last /\ DOMAIN history' = 1..(last + 1)
        /\ \A i \in 1..last : history'[i] = history[i]
    BY <1>1, <1>2, <1>6
  <2>2. rpm = history[last].after
    BY <1>6 DEF Chain, last, TypeOK, Test
  <2>3. others' = 0 => \A i \in DOMAIN history' : i > 1 => history'[i].by = "run"
    BY <1>2, <1>6, <2>1 DEF Ours
  <2>4. rpm' = history'[Len(history')].after
    BY <1>6, <2>1
  <2> HIDE DEF last
  <2>5. history'[1] = history[1] /\ history'[1].after = found'
    BY <2>1 DEF Chain
  <2>6. ASSUME NEW i \in 1..(last + 1), i > 1
        PROVE  history'[i].before = history'[i - 1].after
    <3>1. CASE i = last + 1
      BY <1>6, <2>1, <2>2, <2>6, <3>1 DEF last
    <3>2. CASE i \in 1..last
      <4>1. i - 1 \in 1..last
        BY <2>1, <2>6, <3>2
      <4> QED
        BY <2>1, <2>6, <3>2, <4>1 DEF Chain
    <3> QED
      BY <2>1, <3>1, <3>2
  <2> QED
    BY <1>3, <2>1, <2>3, <2>4, <2>5, <2>6
<1> QED
  BY <1>5, <1>6, RecordFacts

LEMMA OursRecord ==
  ASSUME TypeOK, Places, Places', Chain, Ours, NEW a \in Actor, NEW r \in Rpm,
         rpm' = r, Record(a, r), test # "done",
         (a = "run" /\ others' = others) \/ others' = others + 1,
         UNCHANGED <<test, n, installed, found, ids>>,
         test \in {"install", "update"} => printed' = [before |-> rpm, after |-> r]
            \/ (UNCHANGED printed /\ r # rpm),
         test = "update" /\ step = "next" => step' = "next",
         r = rpm /\ others' = 0 /\ NoneProvided /\ Len(history) = 1 =>
            step' # "id" /\ (step' = "attempt" => step = "attempt")
  PROVE  Chain' /\ Ours'
<1>1. Chain'
  BY RecordChain DEF Chain
<1>2. /\ others' = 0 => \A i \in DOMAIN history' : i > 1 => history'[i].by = "run"
      /\ OnlyOurs'
  BY RecordChain
<1>3. Listed(installed)' = Listed(installed) /\ NoneProvided' = NoneProvided
  BY DEF Listed, NoneProvided
<1>4. others' = 0 => others = 0
  BY DEF TypeOK
<1>5. CASE history' = history /\ (r = rpm \/ test \in {"undo", "orphans"})
  <2>1. Len(history) = 1 => /\ Listed(installed)' = {}
                            /\ test' = "update" => step' = "next"
                            /\ test' \in {"install", "update"} => printed'.before = printed'.after
    BY <1>3, <1>5 DEF Ours
  <2>2. Len(history) = 1 /\ NoneProvided /\ others' = 0 =>
          /\ step' # "id"
          /\ test' = "install" /\ step' = "attempt" => rpm'[Provides(Wanted[n'])] = 0
    BY <1>4, <1>5 DEF Ours, Places
  <2> QED
    BY <1>1, <1>2, <1>3, <1>5, <2>1, <2>2 DEF Ours
<1>6. CASE r # rpm /\ Len(history') = Len(history) + 1
  <2>1. Len(history') # 1
    BY <1>6, HistoryType
  <2> QED
    BY <1>1, <1>2, <2>1 DEF Ours
<1> QED
  BY <1>5, <1>6, RecordFacts

(* Yum had something to do: the package was not there. *)
LEMMA InstallChanges ==
  ASSUME TypeOK, Places, Ours, test = "install", step = "attempt", NEW r \in Outcome,
         Len(history) = 1, NoneProvided, others = 0
  PROVE  r # rpm
<1>1. n \in DOMAIN Wanted /\ Wanted[n] \in Pkg \cup Virtual
  BY NamesAssumption DEF Places
<1>2. Provides(Wanted[n]) \in Pkg
  BY <1>1, NamesAssumption DEF Provides
<1>3. rpm[Provides(Wanted[n])] = 0
  BY DEF Ours
<1>4. r \in Installs(Wanted[n])
  BY DEF Outcome
<1> QED
  <2> DEFINE p == Provides(Wanted[n])
  <2>1. p \in Pkg /\ rpm[p] = 0
    BY <1>2, <1>3
  <2>2. \A q \in Pkg : r[q] \in IF q # p THEN AlsoBecomes(rpm[q])
                                 ELSE IF rpm[q] = 0 THEN {1} ELSE {rpm[q], 2}
    BY <1>4 DEF Installs
  <2> HIDE DEF p
  <2>3. r[p] = 1
    BY <2>1, <2>2
  <2> QED
    BY <2>1, <2>3

LEMMA OursCommand ==
  ASSUME TypeOK, Places, Places', Chain, Ours, Succeeds \/ Fails \/ FailsForNowHalfDone
  PROVE  Chain' /\ Ours'
<1>1. /\ step = "attempt" /\ UNCHANGED <<test, n, installed, found, ids, others>>
      /\ test # "done" /\ test \in Test
  BY DEF Succeeds, Fails, FailsForNowHalfDone, Attempt, listVars, constantVars, Places, TypeOK
<1>2. ASSUME NEW r \in Partial, rpm' = r, Record("run", r),
             printed' = [before |-> rpm, after |-> r],
             r \in Outcome \/ step' # "id"
      PROVE  Chain' /\ Ours'
  <2>1. r \in Rpm /\ "run" \in Actor
    BY <1>1, PartialType DEF Actor
  <2>2. r = rpm /\ others' = 0 /\ NoneProvided /\ Len(history) = 1 => step' # "id"
    <3>1. ASSUME r = rpm, others' = 0, NoneProvided, Len(history) = 1, step' = "id" PROVE FALSE
      <4>1. test = "install"
        BY <1>1, <3>1 DEF Places, Ours
      <4> QED
        BY <1>1, <1>2, <3>1, <4>1, InstallChanges
    <3> QED
      BY <3>1
  <2> QED
    BY <1>1, <1>2, <2>1, <2>2, OursRecord
<1>3. CASE Succeeds
  BY <1>1, <1>2, <1>3, PartialType DEF Succeeds
<1>4. CASE FailsForNowHalfDone
  BY <1>1, <1>2, <1>4 DEF FailsForNowHalfDone
<1>5. CASE Fails
  <2>1. step' # "id"
    BY <1>5, ReturnedFacts DEF Fails
  <2>2. CASE \E r \in Partial :
               rpm' = r /\ Record("run", r) /\ printed' = [before |-> rpm, after |-> r]
    BY <1>2, <2>1, <2>2
  <2>3. CASE test = "undo" /\ UNCHANGED <<rpm, history>>
    <3>1. Listed(installed)' = Listed(installed)
      BY <1>1 DEF Listed
    <3> QED
      BY <1>1, <2>1, <2>3, <3>1, OursKept DEF Ours
  <2> QED
    BY <1>5, <2>2, <2>3 DEF Fails
<1> QED
  BY <1>3, <1>4, <1>5

LEMMA OursOther ==
  ASSUME TypeOK, Places, Places', Chain, Ours, Other
  PROVE  Chain' /\ Ours'
<1>1. /\ UNCHANGED <<test, step, n, printed, ids, installed, found>>
      /\ others' = others + 1 /\ test # "done" /\ others \in Nat
  BY DEF Other, retryVars, listVars, constantVars, TypeOK
<1>2. PICK p \in Pkg : \E v \in Version \ {rpm[p]} :
        rpm' = [rpm EXCEPT ![p] = v] /\ Record("other", [rpm EXCEPT ![p] = v])
  BY DEF Other
<1>3. rpm' \in Rpm /\ Record("other", rpm') /\ rpm' # rpm /\ "other" \in Actor
  BY <1>2, HistoryType DEF Rpm, Actor
<1> QED
  BY <1>1, <1>3, OursRecord

LEMMA OursInterrupt ==
  ASSUME TypeOK, Places, Chain, Ours, Interrupt
  PROVE  Chain' /\ Ours'
<1>1. /\ UNCHANGED <<others, ids, installed, printed, found>> /\ test # "done"
      /\ test' = "undo" /\ step' = "next"
  BY DEF Interrupt, listVars
<1>2. Listed(installed)' = Listed(installed) /\ NoneProvided' = NoneProvided
  BY <1>1 DEF Listed, NoneProvided
<1>3. CASE step = "attempt"
  <2>1. PICK r \in Partial : rpm' = r /\ Record("run", r)
    BY <1>3 DEF Interrupt
  <2>2. r \in Rpm /\ "run" \in Actor
    BY <1>3, <2>1, PartialType DEF Actor
  <2>3. Chain'
    BY <1>1, <2>1, <2>2, RecordChain DEF Chain
  <2>4. /\ others' = 0 => \A i \in DOMAIN history' : i > 1 => history'[i].by = "run"
        /\ OnlyOurs'
    BY <1>1, <2>1, <2>2, RecordChain
  <2>5. Len(history') = 1 => Len(history) = 1
    BY <2>1, <2>2, HistoryType, RecordFacts
  <2>6. Len(history') = 1 => Listed(installed)' = {}
    BY <1>2, <2>5 DEF Ours
  <2> QED
    BY <1>1, <2>3, <2>4, <2>6 DEF Ours
<1>4. CASE step # "attempt"
  <2>1. UNCHANGED <<rpm, history>>
    BY <1>4 DEF Interrupt
  <2> QED
    BY <1>1, <1>2, <2>1, OursKept DEF Ours
<1> QED
  BY <1>3, <1>4

LEMMA OursInstall ==
  ASSUME TypeOK, Places, Chain, Ours, InstallNext
  PROVE  Chain' /\ Ours'
<1>1. /\ UNCHANGED <<rpm, history, others, found, ids, installed, test>>
      /\ test = "install" /\ step = "next" /\ n < Len(Wanted) /\ n' = n + 1
      /\ IF rpm_is_installed(Wanted[n + 1])
         THEN step' = step /\ UNCHANGED printed
         ELSE Call
  BY DEF InstallNext, machineVars, listVars, constantVars
<1>2. Listed(installed)' = Listed(installed)
  BY <1>1 DEF Listed
<1>3. step' # "id" /\ (printed' = printed \/ printed'.before = printed'.after)
  BY <1>1, CallTypes
<1>4. ASSUME Len(history) = 1, NoneProvided, step' = "attempt"
      PROVE  rpm[Provides(Wanted[n'])] = 0
  <2>1. n + 1 \in DOMAIN Wanted /\ Wanted[n + 1] \in Pkg \cup Virtual
    BY <1>1, NamesAssumption DEF TypeOK
  <2>2. ~rpm_is_installed(Wanted[n + 1])
    BY <1>1, <1>4
  <2>3. CASE Wanted[n + 1] \in Pkg
    BY <1>1, <2>2, <2>3, NamesAssumption DEF rpm_is_installed, Provides
  <2>4. CASE Wanted[n + 1] \in Virtual
    <3>1. rpm = found
      BY <1>1, <1>4 DEF Chain
    <3> QED
      BY <1>1, <1>4, <2>4, <3>1 DEF Provides, NoneProvided
  <2> QED
    BY <2>1, <2>3, <2>4
<1> QED
  BY <1>1, <1>2, <1>3, <1>4, OursKept DEF Ours

LEMMA OursId ==
  ASSUME TypeOK, Places, Chain, Ours, get_transaction_id
  PROVE  Chain' /\ Ours'
<1>1. /\ UNCHANGED <<rpm, history, others, found, installed, printed>>
      /\ step = "id" /\ ids' = ids \cup {Len(history)} /\ test \in {"install", "update"}
      /\ \/ test = "install" /\ step' = "verify" /\ UNCHANGED <<test, n>>
         \/ test = "update" /\ test' = "undo" /\ step' = "next"
  BY AfterFacts DEF get_transaction_id, machineVars, constantVars, Places, Ends
<1>2. Len(history) \in Nat \ {0} /\ DOMAIN history = 1..Len(history) /\ others \in Nat
  BY HistoryType DEF TypeOK
<1>3. \/ history[Len(history)].by = "run"
      \/ others > 0
      \/ \E v \in Virtual : found[Provider[v]] # 0
  <2>1. CASE Len(history) = 1
    BY <1>1, <1>2, <2>1 DEF Ours, NoneProvided
  <2>2. CASE Len(history) > 1
    BY <1>2, <2>2 DEF Ours
  <2> QED
    BY <1>2, <2>1, <2>2
<1>4. OnlyOurs'
  BY <1>1, <1>3 DEF Ours, OnlyOurs
<1>5. Chain'
  BY <1>1 DEF Chain
<1>6. Listed(installed)' = Listed(installed) /\ NoneProvided' = NoneProvided
  BY <1>1 DEF Listed, NoneProvided
<1> QED
  BY <1>1, <1>4, <1>5, <1>6 DEF Ours

LEMMA OursParse ==
  ASSUME TypeOK, Places, Chain, Ours, Parse
  PROVE  Chain' /\ Ours'
<1>1. /\ UNCHANGED <<rpm, history, others, found, ids, printed>>
      /\ step = "parse" /\ ListPackages /\ test \in {"install", "update"}
      /\ \/ test = "update"
         \/ step' = "next" /\ UNCHANGED <<test, n>>
  BY DEF Parse, machineVars, constantVars, Places
<1>2. ASSUME Len(history) = 1 PROVE Listed(installed)' = {}
  <2>1. printed.before = printed.after /\ Listed(installed) = {}
    BY <1>1, <1>2 DEF Ours
  <2>2. Installing = {} /\ Erasing = {}
    BY <2>1 DEF Installing, Erasing, Item
  <2>3. \A i \in Item : installed[i] = 0
    BY <2>1 DEF Listed, TypeOK
  <2> QED
    BY <1>1, <2>2, <2>3 DEF ListPackages, Listed, Once
<1>3. Len(history) = 1 => test = "install"
  BY <1>1 DEF Ours
<1> QED
  <2>1. test' \in {"install", "update"} => test \in {"install", "update"}
    BY <1>1
  <2>2. Len(history) = 1 => step' = "next" /\ test' = test /\ n' = n
    BY <1>1, <1>3
  <2> QED
    BY <1>1, <1>2, <1>3, <2>1, <2>2, OursKept DEF Ours

LEMMA OursNext ==
  ASSUME TypeOK, Places, Places', Chain, Ours, [Next]_vars
  PROVE  Chain' /\ Ours'
<1>1. ASSUME UNCHANGED <<rpm, history, others, found, ids, installed>>,
             step' # "id",
             \/ test' \in {"undo", "orphans", "done"}
             \/ test' = "update" /\ step' = "next" /\ test = "install" /\ UNCHANGED printed
             \/ /\ test' = test /\ n' = n
                /\ printed' = printed \/ printed'.before = printed'.after
                /\ test = "update" => step # "next" \/ step' = "next" \/ Listed(installed) # {}
                /\ step' = "attempt" => step = "attempt" \/ test # "install"
      PROVE  Chain' /\ Ours'
  <2>1. Listed(installed)' = Listed(installed)
    BY <1>1 DEF Listed
  <2>2. test' \in {"install", "update"} => test \in {"install", "update"}
    BY <1>1
  <2>3. Len(history) = 1 =>
          /\ Listed(installed)' = {}
          /\ test' = "update" => step' = "next"
          /\ test' \in {"install", "update"} => printed'.before = printed'.after
    BY <1>1, <2>1 DEF Ours
  <2>4. Len(history) = 1 /\ NoneProvided /\ others = 0 =>
          /\ step' # "id"
          /\ test' = "install" /\ step' = "attempt" => rpm[Provides(Wanted[n'])] = 0
    BY <1>1 DEF Ours
  <2> QED
    BY <1>1, <2>2, <2>3, <2>4, OursKept
<1>2. CASE FailsForNow
  BY <1>1, <1>2 DEF FailsForNow, Attempt, machineVars, listVars, constantVars
<1>3. CASE GivesUp
  BY <1>1, <1>3, ReturnedFacts DEF GivesUp, machineVars, listVars, constantVars
<1>4. CASE InstallEnds
  BY <1>1, <1>4, AfterFacts DEF InstallEnds, Ends, machineVars, listVars, constantVars
<1>5. CASE CheckFails
  BY <1>1, <1>5, AfterFacts DEF CheckFails, Ends, listVars, constantVars, Places
<1>6. CASE verify_dependency
  BY <1>1, <1>6 DEF verify_dependency, machineVars, retryVars, listVars, constantVars
<1>7. CASE Update
  <2>1. CASE Call /\ UNCHANGED <<test, n>> /\ Listed(installed) # {}
    BY <1>1, <1>7, <2>1, CallTypes DEF Update, machineVars, listVars, constantVars
  <2>2. CASE Ends(FALSE)
    BY <1>1, <1>7, <2>2, AfterFacts DEF Update, Ends, machineVars, listVars, constantVars
  <2> QED
    BY <1>7, <2>1, <2>2 DEF Update
<1>8. CASE UndoNext \/ Orphans
  BY <1>1, <1>8, CallTypes DEF UndoNext, Orphans, machineVars, listVars, constantVars
<1>9. CASE UndoEnds \/ OrphansEnd
  BY <1>1, <1>9, AfterFacts DEF UndoEnds, OrphansEnd, Ends, machineVars, listVars, constantVars
<1>10. CASE UNCHANGED vars
  <2>1. NoneProvided' = NoneProvided /\ Listed(installed)' = Listed(installed)
    BY <1>10 DEF vars, NoneProvided, Listed
  <2> QED
    BY <1>10, <2>1 DEF vars, Chain, Ours, OnlyOurs
<1> QED
  BY <1>2, <1>3, <1>4, <1>5, <1>6, <1>7, <1>8, <1>9, <1>10, OursCommand, OursOther, OursInterrupt, OursInstall,
     OursId, OursParse DEF Next, Run, Done

--------------------------------------------------------------------------------
(* What the steps have in common.                                          *)

(* What is written down stays, and a failure is not forgotten. *)
LEMMA StepKeeps ==
  ASSUME TypeOK, Places, [Next]_vars
  PROVE  /\ found' = found /\ ids \subseteq ids' /\ failed \subseteq failed'
         /\ faults' >= faults /\ others' >= others
         /\ halfdone => halfdone'
         /\ halfdone' => halfdone \/ faults' > 0
         /\ ctrlC # "none" => ctrlC' = ctrlC
<1>1. faults \in Nat /\ others \in Nat /\ faults >= faults /\ others >= others
  BY DEF TypeOK
<1>2. CASE FailsForNow \/ GivesUp \/ InstallNext \/ verify_dependency \/ UndoNext \/ Orphans
           \/ UNCHANGED vars
  <2>1. UNCHANGED <<found, ids, failed, faults, others, halfdone, ctrlC>>
    BY <1>2 DEF FailsForNow, GivesUp, InstallNext, verify_dependency, UndoNext, Orphans, vars,
       machineVars, listVars, resultVars, constantVars
  <2> QED
    BY <1>1, <2>1, Zenon
<1>3. CASE InstallEnds \/ get_transaction_id \/ Parse \/ Update \/ UndoEnds \/ OrphansEnd
  <2>1. UNCHANGED <<found, faults, others, halfdone, ctrlC>> /\ ids \subseteq ids'
    BY <1>3 DEF InstallEnds, get_transaction_id, Parse, Update, UndoEnds, OrphansEnd, machineVars,
       listVars, constantVars
  <2>2. failed \subseteq failed'
    BY <1>3 DEF InstallEnds, get_transaction_id, Parse, Update, UndoEnds, OrphansEnd, Ends
  <2> QED
    BY <1>1, <2>1, <2>2, Zenon
<1>4. CASE Succeeds \/ Other \/ Interrupt
  <2>1. UNCHANGED <<found, ids, failed, halfdone, faults>>
    BY <1>4 DEF Succeeds, Other, Interrupt, listVars, resultVars, constantVars
  <2>2. others' >= others
    <3>1. others' = others \/ others' = others + 1
      BY <1>4 DEF Succeeds, Other, Interrupt
    <3> QED
      BY <1>1, <3>1
  <2>3. ctrlC # "none" => ctrlC' = ctrlC
    BY <1>4 DEF Succeeds, Other, Interrupt, constantVars
  <2> QED
    BY <1>1, <2>1, <2>2, <2>3, Zenon
<1>5. CASE Fails \/ FailsForNowHalfDone \/ CheckFails
  <2>1. UNCHANGED <<found, ids, others, ctrlC>>
    BY <1>5 DEF Fails, FailsForNowHalfDone, CheckFails, listVars, constantVars
  <2>2. failed \subseteq failed'
    BY <1>5 DEF Fails, FailsForNowHalfDone, CheckFails, Ends, resultVars
  <2>3. faults' >= faults
    <3>1. faults' = faults \/ Fault
      BY <1>5 DEF Fails, FailsForNowHalfDone, CheckFails
    <3> QED
      BY <1>1, <3>1, FaultFacts
  <2>4. UNCHANGED halfdone \/ (Fault /\ halfdone' = TRUE)
    BY <1>5 DEF Fails, FailsForNowHalfDone, CheckFails
  <2>5. (halfdone => halfdone') /\ (halfdone' => halfdone \/ faults' > 0)
    BY <2>4, FaultFacts
  <2>6. ids \subseteq ids' /\ others' >= others
    BY <1>1, <2>1
  <2> QED
    BY <2>1, <2>2, <2>3, <2>5, <2>6
<1> QED
  BY <1>2, <1>3, <1>4, <1>5 DEF Next, Run, Done

(* A step leaves the machine as it is, or runs a command, or is somebody   *)
(* else's.                                                                 *)
Command(r) ==
  /\ step = "attempt" /\ rpm' = r /\ Record("run", r)
  /\ printed' = [before |-> rpm, after |-> r] \/ test' = "undo"
  /\ test' = test \/ test' = "undo"
  /\ UNCHANGED <<others, ids, orphaned>>

LEMMA StepKinds ==
  ASSUME TypeOK, Places, [Next]_vars
  PROVE  \/ UNCHANGED <<rpm, history>> /\ ~Other
         \/ \E r \in Partial : Command(r)
         \/ Other
<1>1. CASE FailsForNow \/ GivesUp \/ InstallNext \/ InstallEnds \/ get_transaction_id \/ CheckFails
           \/ verify_dependency \/ Parse \/ Update \/ UndoNext \/ UndoEnds \/ Orphans \/ OrphansEnd
           \/ UNCHANGED vars
  BY <1>1 DEF FailsForNow, GivesUp, InstallNext, InstallEnds, get_transaction_id, CheckFails,
     verify_dependency, Parse, Update, UndoNext, UndoEnds, Orphans, OrphansEnd, machineVars, vars
<1>2. CASE Succeeds
  <2>1. step = "attempt" /\ Outcome \subseteq Partial
    BY <1>2, PartialType DEF Succeeds, Attempt
  <2> QED
    BY <1>2, <2>1 DEF Succeeds, Command, listVars
<1>3. CASE Fails \/ FailsForNowHalfDone
  BY <1>3 DEF Fails, FailsForNowHalfDone, Attempt, Command, listVars
<1>4. CASE Interrupt
  BY <1>4 DEF Interrupt, Command, listVars
<1> QED
  BY <1>1, <1>2, <1>3, <1>4 DEF Next, Run, Done

(* The history only grows, and in the clean-up it stays. *)
LEMMA HistoryGrows ==
  ASSUME TypeOK, Places, [Next]_vars
  PROVE  /\ DOMAIN history \subseteq DOMAIN history'
         /\ \A i \in DOMAIN history : history'[i] = history[i]
         /\ test \in {"undo", "orphans", "done"} => history' = history
<1>1. ASSUME NEW a \in Actor, NEW r \in Rpm, Record(a, r), test # "done"
      PROVE  /\ DOMAIN history \subseteq DOMAIN history'
             /\ \A i \in DOMAIN history : history'[i] = history[i]
             /\ test \in {"undo", "orphans", "done"} => history' = history
  BY <1>1, RecordFacts
<1>2. CASE UNCHANGED <<rpm, history>>
  BY <1>2
<1>3. CASE \E r \in Partial : Command(r)
  <2>1. PICK r \in Partial : step = "attempt" /\ Record("run", r)
    BY <1>3 DEF Command
  <2>2. r \in Rpm /\ "run" \in Actor /\ test # "done"
    BY <2>1, PartialType DEF Actor, Places
  <2> QED
    BY <1>1, <2>1, <2>2
<1>4. CASE Other
  <2>1. PICK p \in Pkg, v \in Version : Record("other", [rpm EXCEPT ![p] = v])
    BY <1>4 DEF Other
  <2>2. [rpm EXCEPT ![p] = v] \in Rpm /\ "other" \in Actor /\ test # "done"
    BY <1>4, <2>1, HistoryType DEF Rpm, Actor, Other
  <2> QED
    BY <1>1, <2>1, <2>2
<1> QED
  BY <1>2, <1>3, <1>4, StepKinds

(* From one test to the next, and by Ctrl-C to the clean-up. *)
LEMMA TestFollows ==
  ASSUME TypeOK, Places, [Next]_vars
  PROVE  /\ test' = test \/ test' = After[test] \/ Interrupt
         /\ test' \in {"install", "update"} => test \in {"install", "update"}
         /\ test = "done" => UNCHANGED vars
<1>1. CASE FailsForNow \/ Succeeds \/ Fails \/ FailsForNowHalfDone \/ GivesUp \/ InstallNext
           \/ verify_dependency \/ UndoNext \/ Orphans \/ Other \/ UNCHANGED vars
  <2>1. test' = test
    BY <1>1 DEF FailsForNow, Succeeds, Fails, FailsForNowHalfDone, GivesUp, InstallNext,
       verify_dependency, UndoNext, Orphans, Other, vars
  <2>2. test = "done" => UNCHANGED vars
    BY <1>1 DEF FailsForNow, Succeeds, Fails, FailsForNowHalfDone, GivesUp, InstallNext,
       verify_dependency, UndoNext, Orphans, Other, Attempt, Places
  <2> QED
    BY <2>1, <2>2
<1>2. CASE InstallEnds \/ get_transaction_id \/ CheckFails \/ Parse \/ Update \/ UndoEnds
           \/ OrphansEnd
  <2>1. test' = test \/ test' = After[test]
    BY <1>2 DEF InstallEnds, get_transaction_id, CheckFails, Parse, Update, UndoEnds, OrphansEnd,
       Ends
  <2>2. test # "done"
    BY <1>2 DEF InstallEnds, get_transaction_id, CheckFails, Parse, Update, UndoEnds, OrphansEnd,
       Places
  <2> QED
    BY <2>1, <2>2, AfterFacts DEF TypeOK, Test
<1>3. CASE Interrupt
  BY <1>3 DEF Interrupt
<1> QED
  BY <1>1, <1>2, <1>3 DEF Next, Run, Done

--------------------------------------------------------------------------------
(* What the run has touched.                                               *)

LEMMA TouchedStays ==
  ASSUME TypeOK, Places, [Next]_vars, NEW p, Touched(p)
  PROVE  Touched(p)'
<1>1. PICK i \in DOMAIN history : (i > 1 \/ 1 \in ids) /\ Changed(i, p)
  BY DEF Touched
<1>2. i \in DOMAIN history' /\ history'[i] = history[i] /\ (i > 1 \/ 1 \in ids')
  BY <1>1, HistoryGrows, StepKeeps
<1> QED
  BY <1>1, <1>2 DEF Touched, Changed

(* A transaction that changes the machine touches what it changes. *)
LEMMA RecordTouches ==
  ASSUME TypeOK, NEW a \in Actor, NEW r \in Rpm, Record(a, r), r # rpm,
         test \notin {"undo", "orphans"}
  PROVE  \E i \in DOMAIN history' : i > 1 /\ history'[i].before = rpm /\ history'[i].after = r
<1>1. /\ Len(history) + 1 \in DOMAIN history' /\ Len(history) + 1 > 1
      /\ history'[Len(history) + 1].before = rpm /\ history'[Len(history) + 1].after = r
  BY RecordFacts, HistoryType
<1> QED
  BY <1>1

(* A command, or a part of it, changes nothing that was not touched. *)
LEMMA CommandTouches ==
  ASSUME TypeOK, Places, Lefts, Known, [Next]_vars, NEW r \in Partial, Command(r),
         NEW p \in Pkg, r[p] # rpm[p]
  PROVE  Touched(p)'
<1>1. /\ step = "attempt" /\ Record("run", r) /\ r \in Rpm /\ "run" \in Actor /\ test # "done"
      /\ test \in Test
  BY PartialType DEF Command, Actor, Places, TypeOK
<1>2. PICK o \in Outcome : \A q \in Pkg : r[q] \in {rpm[q], o[q]}
  BY DEF Partial
<1>3. o[p] # rpm[p] /\ r # rpm
  BY <1>2
<1>4. CASE test \in {"install", "update"}
  <2>1. \E i \in DOMAIN history' : i > 1 /\ history'[i].before = rpm /\ history'[i].after = r
    BY <1>1, <1>3, <1>4, RecordTouches
  <2> QED
    BY <2>1 DEF Touched, Changed
<1>5. CASE test = "undo"
  <2>1. n \in ids /\ n \in DOMAIN history /\ n \in 1..Len(history) /\ Len(history) \in Nat
    BY <1>1, <1>5, HistoryType DEF Places, Lefts, TypeOK
  <2>2. o \in Undoes(history[n])
    BY <1>5 DEF Outcome
  <2>3. Changed(n, p)
    BY <1>3, <2>2 DEF Undoes, Changed
  <2>4. n > 1 \/ 1 \in ids
    BY <2>1
  <2> QED
    BY <2>1, <2>3, <2>4, TouchedStays DEF Touched
<1>6. CASE test = "orphans"
  <2>1. o \in Reinstalls
    BY <1>6 DEF Outcome
  <2>2. \E v \in 1..2 : <<p, v>> \in Listed(orphaned)
    BY <1>3, <2>1 DEF Reinstalls
  <2>3. PICK v \in 1..2 : <<p, v>> \in Listed(orphaned)
    BY <2>2
  <2>4. Touched(<<p, v>>[1])
    BY <2>3 DEF Known
  <2> QED
    BY <2>4, TouchedStays
<1> QED
  BY <1>1, <1>4, <1>5, <1>6 DEF Test

(* The orphans are the packages that the transaction in stdout removed. *)
LEMMA OrphansStep ==
  ASSUME TypeOK, Places, [Next]_vars, NEW o \in Listed(orphaned)'
  PROVE  o \in Listed(orphaned) \/ (Parse /\ o \in Erasing)
<1>1. CASE Parse
  <2>1. orphaned' = [i \in Item |-> orphaned[i] + Once(i, {e \in Erasing : installed[e] = 0})]
    BY <1>1 DEF Parse, ListPackages
  <2>2. o \in Item /\ orphaned'[o] > 0 /\ orphaned[o] \in Nat
    BY DEF Listed, TypeOK
  <2>3. CASE o \in Erasing
    BY <1>1, <2>3
  <2>4. CASE o \notin Erasing
    <3>1. orphaned'[o] = orphaned[o] + 0
      BY <2>1, <2>2, <2>4 DEF Once
    <3> QED
      BY <2>2, <3>1 DEF Listed
  <2> QED
    BY <2>3, <2>4
<1>2. CASE orphaned' = orphaned
  BY <1>2 DEF Listed
<1>3. CASE FailsForNow \/ Succeeds \/ Fails \/ FailsForNowHalfDone \/ GivesUp \/ InstallNext
           \/ InstallEnds \/ get_transaction_id \/ CheckFails \/ verify_dependency
  <2>1. orphaned' = orphaned
    BY <1>3 DEF FailsForNow, Succeeds, Fails, FailsForNowHalfDone, GivesUp, InstallNext,
       InstallEnds, get_transaction_id, CheckFails, verify_dependency, listVars
  <2> QED
    BY <1>2, <2>1
<1>4. CASE Update \/ UndoNext \/ UndoEnds \/ Orphans \/ OrphansEnd \/ Other \/ Interrupt
           \/ UNCHANGED vars
  <2>1. orphaned' = orphaned
    BY <1>4 DEF Update, UndoNext, UndoEnds, Orphans, OrphansEnd, Other, Interrupt, vars, listVars
  <2> QED
    BY <1>2, <2>1
<1> QED
  BY <1>1, <1>3, <1>4 DEF Next, Run, Done

(* What stdout shows: what the latest command did, if anything. *)
LEMMA PrintedStep ==
  ASSUME TypeOK, Places, [Next]_vars
  PROVE  \/ printed' = printed
         \/ printed'.before = printed'.after
         \/ test' = "undo"
         \/ \E r \in Partial : Command(r) /\ printed' = [before |-> rpm, after |-> r]
<1>1. CASE \E r \in Partial : Command(r)
  BY <1>1 DEF Command
<1>2. CASE FailsForNow \/ GivesUp \/ InstallNext \/ UndoNext \/ Orphans
  <2>1. printed' = printed \/ printed' = [before |-> rpm, after |-> rpm]
    BY <1>2 DEF FailsForNow, GivesUp, InstallNext, UndoNext, Orphans, Call
  <2> QED
    BY <2>1
<1>3. CASE InstallEnds \/ get_transaction_id \/ CheckFails \/ verify_dependency \/ Parse
           \/ UndoEnds \/ OrphansEnd \/ Other \/ UNCHANGED vars
  BY <1>3 DEF InstallEnds, get_transaction_id, CheckFails, verify_dependency, Parse, UndoEnds,
     OrphansEnd, Other, vars, retryVars
<1>4. CASE Update
  <2>1. printed' = printed \/ printed' = [before |-> rpm, after |-> rpm]
    BY <1>4 DEF Update, Call
  <2> QED
    BY <2>1
<1>5. CASE Interrupt
  BY <1>5 DEF Interrupt
<1>6. CASE Succeeds
  <2>1. step = "attempt" /\ Outcome \subseteq Partial
    BY <1>6, PartialType DEF Succeeds, Attempt
  <2>2. \E r \in Partial : Command(r)
    BY <1>6, <2>1 DEF Succeeds, Command, listVars
  <2> QED
    BY <1>1, <2>2
<1>7. CASE Fails \/ FailsForNowHalfDone
  <2>1. \/ \E r \in Partial : Command(r)
        \/ printed' = [before |-> rpm, after |-> rpm]
    BY <1>7 DEF Fails, FailsForNowHalfDone, Attempt, Command, listVars
  <2> QED
    BY <1>1, <2>1
<1> QED
  BY <1>2, <1>3, <1>4, <1>5, <1>6, <1>7 DEF Next, Run, Done

LEMMA KnownNext ==
  ASSUME TypeOK, Places, Lefts, Known, [Next]_vars
  PROVE  Known'
<1>1. 1 \in DOMAIN history
  BY HistoryType
<1>2. history'[1].by = "earlier"
  BY <1>1, HistoryGrows DEF Known
<1>3. halfdone' => faults' > 0
  <2>1. faults \in Nat /\ faults' \in Nat
    BY NextTypes DEF TypeOK
  <2>2. faults' >= faults /\ (halfdone' => halfdone \/ faults' > 0) /\ (halfdone => faults > 0)
    BY StepKeeps DEF Known
  <2> QED
    BY <2>1, <2>2
<1>4. ASSUME test' \in {"install", "update"}, printed'.before # printed'.after
      PROVE  \E i \in DOMAIN history' : /\ i > 1 /\ history'[i].before = printed'.before
                                        /\ history'[i].after = printed'.after
  <2>1. CASE printed' = printed
    <3>1. test \in {"install", "update"}
      BY <1>4, TestFollows
    <3>2. PICK i \in DOMAIN history : /\ i > 1 /\ history[i].before = printed.before
                                      /\ history[i].after = printed.after
      BY <1>4, <2>1, <3>1 DEF Known
    <3>3. i \in DOMAIN history' /\ history'[i] = history[i]
      BY HistoryGrows
    <3> QED
      BY <2>1, <3>2, <3>3
  <2>2. CASE \E r \in Partial : Command(r) /\ printed' = [before |-> rpm, after |-> r]
    <3>1. PICK r \in Partial : Command(r) /\ printed' = [before |-> rpm, after |-> r]
      BY <2>2
    <3>2. step = "attempt" /\ Record("run", r) /\ "run" \in Actor
      BY <3>1 DEF Command, Actor
    <3>3. r \in Rpm /\ r # rpm /\ test \notin {"undo", "orphans"}
      BY <1>4, <3>1, <3>2, PartialType, TestFollows
    <3> QED
      BY <3>1, <3>2, <3>3, RecordTouches
  <2> QED
    BY <1>4, <2>1, <2>2, PrintedStep
<1>5. ASSUME NEW o \in Listed(orphaned)' PROVE Touched(o[1])'
  <2>1. CASE o \in Listed(orphaned)
    BY <2>1, TouchedStays DEF Known
  <2>2. CASE Parse /\ o \in Erasing
    <3>1. o[2] \in 1..2 /\ printed.before[o[1]] = o[2] /\ printed.after[o[1]] = 0
      BY <2>2 DEF Erasing, Item
    <3>2. test \in {"install", "update"} /\ printed.before # printed.after
      BY <2>2, <3>1 DEF Parse, Places
    <3>3. PICK i \in DOMAIN history : /\ i > 1 /\ history[i].before = printed.before
                                      /\ history[i].after = printed.after
      BY <3>2 DEF Known
    <3>4. Touched(o[1])
      BY <3>1, <3>3 DEF Touched, Changed
    <3> QED
      BY <3>4, TouchedStays
  <2> QED
    BY <2>1, <2>2, OrphansStep
<1>6. ASSUME others' = 0, NEW p \in Pkg, rpm'[p] # found'[p] PROVE Touched(p)'
  <2>1. others = 0 /\ found' = found /\ ~Other
    <3>1. others \in Nat /\ others' >= others /\ found' = found
      BY StepKeeps DEF TypeOK
    <3> QED
      BY <1>6, <3>1 DEF Other
  <2>2. CASE rpm'[p] = rpm[p]
    BY <1>6, <2>1, <2>2, TouchedStays DEF Known
  <2>3. CASE rpm'[p] # rpm[p]
    <3>1. PICK r \in Partial : Command(r)
      BY <2>1, <2>3, StepKinds
    <3>2. r[p] # rpm[p]
      BY <2>3, <3>1 DEF Command
    <3> QED
      BY <3>1, <3>2, CommandTouches
  <2> QED
    BY <2>2, <2>3
<1> QED
  BY <1>2, <1>3, <1>4, <1>5, <1>6 DEF Known

--------------------------------------------------------------------------------
(* What is left to undo, and what is written down.                         *)

(* The steps of the test that undoes. *)
LEMMA UndoSteps ==
  ASSUME TypeOK, Places, [Next]_vars, test' = "undo"
  PROVE  \/ test = "undo" /\ UNCHANGED <<n, left, ids>>
         \/ UndoNext
         \/ /\ n' = 0 /\ left' = ids' /\ step' = "next" /\ ok'
            /\ Interrupt \/ (test = "update" /\ UNCHANGED <<rpm, history>>)
<1>1. CASE FailsForNow \/ Succeeds \/ Fails \/ FailsForNowHalfDone \/ GivesUp \/ Other
  BY <1>1 DEF FailsForNow, Succeeds, Fails, FailsForNowHalfDone, GivesUp, Other, listVars
<1>2. CASE InstallNext \/ InstallEnds \/ verify_dependency \/ UndoEnds \/ Orphans \/ OrphansEnd
  BY <1>2, AfterFacts DEF InstallNext, InstallEnds, verify_dependency, UndoEnds, Orphans,
     OrphansEnd, Ends, Places
<1>3. CASE get_transaction_id \/ CheckFails \/ Parse
  <2>1. /\ test \in {"install", "update"} /\ UNCHANGED <<rpm, history>>
        /\ Ends(TRUE) \/ Ends(FALSE) \/ test' = test
    BY <1>3 DEF get_transaction_id, CheckFails, Parse, Places, machineVars
  <2>2. test = "update" /\ n' = 0 /\ left' = ids' /\ step' = "next" /\ ok'
    BY <2>1, AfterFacts DEF Ends
  <2> QED
    BY <2>1, <2>2
<1>4. CASE Update
  <2>1. /\ test = "update" /\ UNCHANGED <<rpm, history>> /\ (Ends(FALSE) \/ test' = test)
    BY <1>4 DEF Update, machineVars
  <2>2. n' = 0 /\ left' = ids' /\ step' = "next" /\ ok'
    BY <2>1 DEF Ends
  <2> QED
    BY <2>1, <2>2
<1>5. CASE Interrupt
  BY <1>5 DEF Interrupt, listVars
<1>6. CASE UNCHANGED vars
  BY <1>6 DEF vars
<1> QED
  BY <1>1, <1>2, <1>3, <1>4, <1>5, <1>6 DEF Next, Run, Done

LEMMA LeftsNext ==
  ASSUME TypeOK, Places, Lefts, [Next]_vars
  PROVE  Lefts'
<1> SUFFICES ASSUME test' = "undo"
             PROVE  left' = {i \in ids' : n' = 0 \/ i < n'} /\ (n' # 0 => n' \in ids')
  BY DEF Lefts
<1>1. CASE test = "undo" /\ UNCHANGED <<n, left, ids>>
  BY <1>1 DEF Lefts
<1>2. CASE UndoNext
  <2>1. /\ UNCHANGED ids /\ test = "undo" /\ n' = Latest(left) /\ left' = left \ {n'}
        /\ left # {}
    BY <1>2 DEF UndoNext, listVars
  <2>2. n' \in left /\ \A j \in left : j <= n'
    BY <2>1, LatestFacts
  <2>3. left = {i \in ids : n = 0 \/ i < n}
    BY <2>1 DEF Lefts
  <2>4. /\ Len(history) \in Nat \ {0} /\ ids \subseteq 1..Len(history) /\ n \in 0..Len(history)
    BY <2>1, HistoryType DEF TypeOK, Places
  <2>5. n' \in ids /\ n' \in 1..Len(history) /\ (n = 0 \/ n' < n)
    BY <2>2, <2>3, <2>4
  <2>6. \A i \in left : i # n' <=> i < n'
    BY <2>2, <2>3, <2>4, <2>5
  <2>7. \A i \in ids : i < n' => i \in left
    BY <2>3, <2>4, <2>5
  <2>8. left \subseteq ids /\ n' # 0
    BY <2>3, <2>4, <2>5
  <2> QED
    BY <2>1, <2>5, <2>6, <2>7, <2>8
<1>3. CASE n' = 0 /\ left' = ids'
  BY <1>3
<1> QED
  BY <1>1, <1>2, <1>3, UndoSteps

(* A transaction is to be written down as long as the run goes on. *)
LEMMA NotedNext ==
  ASSUME TypeOK, Places, Noted, [Next]_vars, others' = 0, ctrlC' # "torn", ~halfdone'
  PROVE  Noted' \/ (faults' > 0 /\ Reporting')
<1>1. Len(history) \in Nat \ {0} /\ DOMAIN history = 1..Len(history) /\ history # <<>>
      /\ others \in Nat /\ test \in Test
  BY HistoryType DEF TypeOK
<1>2. ASSUME UNCHANGED history, ids \subseteq ids',
             Pending => Pending' \/ ids' = ids \cup {Len(history)}
      PROVE  Noted'
  BY <1>2 DEF Noted
<1>3. CASE FailsForNow
  BY <1>2, <1>3 DEF FailsForNow, Attempt, machineVars, listVars, Pending
<1>4. CASE Succeeds
  <2>1. PICK r \in Outcome : rpm' = r /\ Record("run", r)
    BY <1>4 DEF Succeeds
  <2>2. step = "attempt" /\ ~Pending /\ UNCHANGED <<ids, test>> /\ Returned(TRUE) /\ test # "done"
    BY <1>4 DEF Succeeds, Attempt, Pending, listVars, Places
  <2>3. r \in Rpm /\ "run" \in Actor
    BY <2>1, <2>2, OutcomeType DEF Actor
  <2>4. CASE history' = history
    BY <1>2, <2>2, <2>4
  <2>5. CASE /\ test \notin {"undo", "orphans"} /\ Len(history') = Len(history) + 1
             /\ DOMAIN history' = 1..(Len(history) + 1)
    <3>1. Pending'
      BY <1>1, <2>2, <2>5, ReturnedFacts DEF Test, Pending
    <3>2. \A i \in 1..Len(history) : i > 1 => i \in ids'
      BY <1>1, <2>2 DEF Noted
    <3> QED
      BY <1>1, <2>5, <3>1, <3>2 DEF Noted
  <2> QED
    BY <2>1, <2>3, <2>4, <2>5, RecordFacts
<1>5. CASE Fails
  <2>1. step = "attempt" /\ ~Pending /\ UNCHANGED <<ids, test>> /\ Returned(FALSE)
    BY <1>5 DEF Fails, Attempt, Pending, listVars
  <2>2. CASE test \in {"install", "update"}
    <3>1. Fault /\ ~ok'
      BY <1>5, <2>1, <2>2, ReturnedFacts DEF Fails
    <3>2. faults' > 0
      BY <3>1, FaultFacts
    <3> QED
      BY <2>1, <2>2, <3>1, <3>2 DEF Reporting
  <2>3. CASE test \notin {"install", "update"}
    <3>1. UNCHANGED history
      BY <2>1, <2>3, HistoryGrows DEF TypeOK, Test
    <3> QED
      BY <1>2, <2>1, <3>1
  <2> QED
    BY <2>2, <2>3
<1>6. CASE FailsForNowHalfDone \/ Other
  BY <1>1, <1>6 DEF FailsForNowHalfDone, Other
<1>7. CASE GivesUp \/ InstallNext \/ InstallEnds \/ Update \/ UndoNext \/ UndoEnds \/ Orphans
           \/ OrphansEnd \/ verify_dependency
  <2>1. ~Pending /\ UNCHANGED <<history, ids>>
    BY <1>7 DEF GivesUp, InstallNext, InstallEnds, Update, UndoNext, UndoEnds, Orphans, OrphansEnd,
       verify_dependency, machineVars, listVars, Pending
  <2> QED
    BY <1>2, <2>1
<1>8. CASE get_transaction_id
  BY <1>2, <1>8 DEF get_transaction_id, machineVars
<1>9. CASE CheckFails
  <2>1. UNCHANGED <<history, ids>> /\ failed' = failed \cup {test}
    BY <1>9 DEF CheckFails, listVars, Ends
  <2>2. CASE Fault
    <3>1. faults' > 0 /\ failed' # {}
      BY <2>1, <2>2, FaultFacts
    <3> QED
      BY <3>1 DEF Reporting
  <2>3. CASE step = "verify"
    BY <1>2, <2>1, <2>3 DEF Pending
  <2> QED
    BY <1>9, <2>2, <2>3 DEF CheckFails
<1>10. CASE Parse
  <2>1. UNCHANGED <<history, ids>> /\ step = "parse"
    BY <1>10 DEF Parse, machineVars
  <2>2. Pending => Pending'
    BY <1>10, <2>1 DEF Parse, Pending
  <2> QED
    BY <1>2, <2>1, <2>2
<1>11. CASE Interrupt
  <2>1. /\ UNCHANGED ids /\ history' = history /\ ~Pending
    <3>1. CASE test \in {"undo", "orphans"}
      BY <1>11, <3>1, HistoryGrows DEF Interrupt, listVars, Pending, Places
    <3>2. CASE test \notin {"undo", "orphans"}
      BY <1>11, <3>2 DEF Interrupt, listVars, Pending
    <3> QED
      BY <3>1, <3>2
  <2> QED
    BY <1>2, <2>1
<1>12. CASE UNCHANGED vars
  BY <1>2, <1>12 DEF vars, Pending
<1> QED
  BY <1>3, <1>4, <1>5, <1>6, <1>7, <1>8, <1>9, <1>10, <1>11, <1>12 DEF Next, Run, Done

(* A failure is not forgotten before its test has ended. *)
LEMMA ReportingNext ==
  ASSUME TypeOK, Places, Reporting, [Next]_vars, ctrlC' # "torn"
  PROVE  Reporting'
<1>1. CASE failed # {}
  <2>1. failed' # {}
    BY <1>1, StepKeeps
  <2> QED
    BY <2>1 DEF Reporting
<1>2. CASE test = "install" /\ (failmsg \/ ~ok)
  <2>1. CASE InstallNext
    BY <1>2, <2>1 DEF InstallNext, Reporting
  <2>2. CASE InstallEnds
    <3>1. Ends(failmsg \/ ~ok)
      BY <2>2 DEF InstallEnds
    <3>2. failed' = failed \cup {test}
      BY <1>2, <3>1 DEF Ends
    <3> QED
      BY <3>2 DEF Reporting
  <2>3. CASE CheckFails
    BY <2>3 DEF CheckFails, Ends, Reporting
  <2>4. CASE Interrupt
    BY <1>2, <2>4 DEF Interrupt
  <2>5. CASE FailsForNow \/ Succeeds \/ Fails \/ FailsForNowHalfDone \/ GivesUp
    <3>1. failmsg' /\ test' = "install"
      BY <1>2, <2>5 DEF FailsForNow, Succeeds, Fails, FailsForNowHalfDone, GivesUp, Attempt,
         Places, resultVars
    <3> QED
      BY <3>1 DEF Reporting
  <2>6. CASE get_transaction_id \/ verify_dependency \/ Parse \/ Other \/ UNCHANGED vars
    <3>1. UNCHANGED <<test, failmsg, ok>>
      BY <1>2, <2>6 DEF get_transaction_id, verify_dependency, Parse, Other, vars, resultVars,
         retryVars
    <3> QED
      BY <1>2, <3>1 DEF Reporting
  <2>7. CASE Update \/ UndoNext \/ UndoEnds \/ Orphans \/ OrphansEnd \/ Done
    BY <1>2, <2>7 DEF Update, UndoNext, UndoEnds, Orphans, OrphansEnd, Done
  <2> QED
    BY <2>1, <2>2, <2>3, <2>4, <2>5, <2>6, <2>7 DEF Next, Run
<1>3. CASE test = "update" /\ ~ok
  <2>1. step = "parse"
    BY <1>3 DEF Places
  <2>2. CASE Parse
    <3>1. failed' = failed \cup {test}
      BY <1>3, <2>2 DEF Parse, Ends
    <3> QED
      BY <3>1 DEF Reporting
  <2>3. CASE Interrupt
    BY <1>3, <2>1, <2>3 DEF Interrupt
  <2>4. CASE Other \/ UNCHANGED vars
    BY <1>3, <2>4 DEF Other, vars, retryVars, Reporting
  <2>5. CASE Run /\ ~Parse
    BY <1>3, <2>1, <2>5 DEF Run, FailsForNow, Succeeds, Fails, FailsForNowHalfDone, GivesUp,
       Attempt, InstallNext, InstallEnds, get_transaction_id, CheckFails, verify_dependency,
       Update, UndoNext, UndoEnds, Orphans, OrphansEnd
  <2> QED
    BY <1>3, <2>2, <2>3, <2>4, <2>5 DEF Next, Done
<1> QED
  BY <1>1, <1>2, <1>3 DEF Reporting

LEMMA WrittenNext ==
  ASSUME TypeOK, Places, Written, [Next]_vars
  PROVE  Written'
<1> SUFFICES ASSUME others' = 0, ctrlC' # "torn", ~halfdone'
             PROVE  Noted' \/ (faults' > 0 /\ Reporting')
  BY DEF Written
<1>1. others \in Nat /\ faults \in Nat /\ others' >= others /\ faults' >= faults
  BY StepKeeps DEF TypeOK
<1>2. others = 0 /\ ~halfdone /\ ctrlC # "torn"
  BY <1>1, StepKeeps
<1>3. CASE Noted
  BY <1>3, NotedNext
<1>4. CASE faults > 0 /\ Reporting
  <2>1. faults' > 0
    BY <1>1, <1>4, NextTypes DEF TypeOK
  <2> QED
    BY <1>4, <2>1, ReportingNext
<1> QED
  BY <1>2, <1>3, <1>4 DEF Written

--------------------------------------------------------------------------------
(* How far the machine is taken back.                                      *)

(* In the clean-up nothing more is written down. *)
LEMMA CleanBefore ==
  ASSUME TypeOK, Places, Clean', [Next]_vars, test \in {"undo", "orphans", "done"}
  PROVE  /\ Clean /\ ~Other /\ ~FailsForNowHalfDone
         /\ UNCHANGED <<history, ids, installed, orphaned, found>>
<1>1. others = 0 /\ ~halfdone /\ ~Other /\ ~FailsForNowHalfDone
  <2>1. others \in Nat /\ others' >= others /\ others' = 0 /\ ~halfdone'
    BY StepKeeps DEF TypeOK, Clean
  <2>2. ~halfdone
    BY <2>1, StepKeeps
  <2> QED
    BY <2>1, <2>2 DEF Other, FailsForNowHalfDone
<1>2. history' = history /\ found' = found
  BY HistoryGrows, StepKeeps
<1>3. UNCHANGED <<ids, installed, orphaned>>
  <2>1. CASE FailsForNow \/ Succeeds \/ Fails \/ GivesUp \/ Interrupt \/ Other
    BY <2>1 DEF FailsForNow, Succeeds, Fails, GivesUp, Interrupt, Other, listVars
  <2>2. CASE UndoNext \/ UndoEnds \/ Orphans \/ OrphansEnd \/ UNCHANGED vars
    BY <2>2 DEF UndoNext, UndoEnds, Orphans, OrphansEnd, vars, listVars
  <2>3. CASE InstallNext \/ InstallEnds \/ get_transaction_id \/ CheckFails \/ verify_dependency
             \/ Parse \/ Update
    BY <2>3 DEF InstallNext, InstallEnds, get_transaction_id, CheckFails, verify_dependency, Parse,
       Update, Places
  <2> QED
    BY <1>1, <2>1, <2>2, <2>3 DEF Next, Run, Done
<1>4. ~Pending /\ ~Pending'
  <2>1. test' \notin {"install", "update"}
    BY TestFollows
  <2> QED
    BY <2>1, NextTypes DEF Pending, Places
<1>5. Noted
  BY <1>2, <1>3, <1>4 DEF Clean, Noted
<1> QED
  BY <1>1, <1>2, <1>3, <1>5 DEF Clean

(* The undo that comes next is that of the transaction before. *)
LEMMA UndoNextFollows ==
  ASSUME TypeOK, Places, Lefts, Noted, UndoNext
  PROVE  /\ n' \in ids /\ n' \in DOMAIN history /\ n' # 0
         /\ n = 0 => \A i \in DOMAIN history : i <= n'
         /\ n = 0 /\ Len(history) > 1 => n' = Len(history)
         /\ n # 0 => n' = n - 1 /\ n \in DOMAIN history
<1>1. /\ UNCHANGED <<history, ids>> /\ test = "undo" /\ step = "next"
      /\ n' = Latest(left) /\ left # {}
  BY DEF UndoNext, machineVars, listVars
<1>2. /\ Len(history) \in Nat \ {0} /\ DOMAIN history = 1..Len(history)
      /\ ids \subseteq 1..Len(history) /\ n \in 0..Len(history)
  BY <1>1, HistoryType DEF TypeOK, Places
<1>3. n' \in left /\ \A j \in left : j <= n'
  BY <1>1, LatestFacts
<1>4. left = {i \in ids : n = 0 \/ i < n}
  BY <1>1 DEF Lefts
<1>5. n' \in ids /\ n' \in 1..Len(history) /\ (n = 0 \/ n' < n)
  BY <1>2, <1>3, <1>4
<1>6. \A i \in 1..Len(history) : i > 1 => i \in ids
  BY <1>1, <1>2 DEF Noted, Pending
<1>7. n = 0 => \A i \in 1..Len(history) : i <= n'
  BY <1>2, <1>3, <1>4, <1>5, <1>6
<1>8. ASSUME n # 0 PROVE n' = n - 1
  <2>1. CASE n - 1 > 1
    <3>1. n - 1 \in left
      BY <1>2, <1>4, <1>6, <1>8, <2>1
    <3> QED
      BY <1>2, <1>3, <1>5, <1>8, <3>1
  <2>2. CASE ~(n - 1 > 1)
    BY <1>2, <1>5, <1>8, <2>2
  <2> QED
    BY <2>1, <2>2
<1> QED
  BY <1>2, <1>5, <1>7, <1>8

LEMMA RewindingNext ==
  ASSUME TypeOK, Places, Chain, Lefts, Rewinding, Clean, Clean', [Next]_vars
  PROVE  Rewinding'
<1>1. SUFFICES ASSUME test' = "undo", ok', n' # 0, NEW p \in Pkg, NEW i \in DOMAIN history',
                      Changed(i, p)'
               PROVE  /\ step' = "next" /\ i >= n' => rpm'[p] = history'[n'].before[p]
                      /\ step' = "attempt" /\ i > n' => rpm'[p] = history'[n'].after[p]
  BY DEF Rewinding
<1>2. test = "undo"
  BY <1>1, UndoSteps DEF UndoNext
<1>3. /\ ~Other /\ ~FailsForNowHalfDone /\ UNCHANGED <<history, ids, found>>
  BY <1>2, CleanBefore
<1>4. Changed(i, p) /\ i \in DOMAIN history
  BY <1>1, <1>3 DEF Changed
<1>5. /\ Len(history) \in Nat \ {0} /\ DOMAIN history = 1..Len(history) /\ n \in 0..Len(history)
  BY <1>2, HistoryType DEF Places
<1>6. ASSUME UNCHANGED <<rpm, step, n, ok>>
      PROVE  /\ step' = "next" /\ i >= n' => rpm'[p] = history'[n'].before[p]
             /\ step' = "attempt" /\ i > n' => rpm'[p] = history'[n'].after[p]
  BY <1>1, <1>2, <1>3, <1>4, <1>6 DEF Rewinding
<1>7. CASE FailsForNow
  BY <1>6, <1>7 DEF FailsForNow, machineVars
<1>8. CASE UNCHANGED vars
  BY <1>6, <1>8 DEF vars
<1>9. CASE Succeeds
  <2>1. /\ step = "attempt" /\ ok /\ n' = n /\ step' = "next" /\ Undoable(history[n])
    BY <1>2, <1>9, ReturnedFacts DEF Succeeds, Attempt, Places
  <2>2. PICK r \in Undoes(history[n]) : rpm' = r
    BY <1>2, <1>9 DEF Succeeds, Outcome
  <2>3. rpm'[p] = IF rpm[p] = history[n].after[p] THEN history[n].before[p] ELSE rpm[p]
    BY <2>2 DEF Undoes
  <2>4. n \in DOMAIN history
    BY <1>1, <1>5, <2>1
  <2>5. CASE i = n
    BY <1>3, <1>4, <2>1, <2>3, <2>5 DEF Changed, Undoable
  <2>6. CASE i > n
    <3>1. rpm[p] = history[n].after[p]
      BY <1>1, <1>2, <1>4, <2>1, <2>6 DEF Rewinding
    <3> QED
      BY <1>3, <2>1, <2>3, <3>1
  <2> QED
    BY <1>4, <1>5, <2>1, <2>4, <2>5, <2>6
<1>10. CASE UndoNext
  <2>1. rpm' = rpm /\ step' = "attempt" /\ step = "next" /\ ok
    BY <1>10 DEF UndoNext, machineVars, Call
  <2>2. /\ n' \in ids /\ n' \in DOMAIN history
        /\ n = 0 => \A j \in DOMAIN history : j <= n'
        /\ n # 0 => n' = n - 1 /\ n \in DOMAIN history
    BY <1>10, UndoNextFollows DEF Clean
  <2>3. CASE n = 0
    BY <1>4, <1>5, <2>1, <2>2, <2>3
  <2>4. CASE n # 0 /\ i > n'
    <3>1. i >= n /\ n > 1
      BY <1>4, <1>5, <2>2, <2>4
    <3>2. rpm[p] = history[n].before[p]
      BY <1>2, <1>4, <2>1, <2>4, <3>1 DEF Rewinding
    <3>3. history[n].before = history[n'].after
      BY <2>2, <2>4, <3>1 DEF Chain
    <3> QED
      BY <1>3, <2>1, <3>2, <3>3
  <2> QED
    BY <2>1, <2>3, <2>4
<1>11. CASE Fails \/ GivesUp
  BY <1>1, <1>11, ReturnedFacts DEF Fails, GivesUp
<1>12. CASE UndoEnds \/ Interrupt
  BY <1>1, <1>12, AfterFacts DEF UndoEnds, Interrupt, Ends
<1> QED
  BY <1>2, <1>3, <1>7, <1>8, <1>9, <1>10, <1>11, <1>12 DEF Next, Run, Done, InstallNext,
     InstallEnds, get_transaction_id, CheckFails, verify_dependency, Parse, Update, Orphans,
     OrphansEnd, Places

(* When all is undone, the machine is where the earliest began: what no    *)
(* transaction of the run touched is as it was found.                      *)
LEMMA UndoEndsBack ==
  ASSUME TypeOK, Places, Chain, Lefts, Known, Rewinding, Clean, UndoEnds,
         "undo" \notin failed', ids # {}, Listed(installed) # {}
  PROVE  n \in ids /\ n \in 1..2 /\ (\A j \in ids : n <= j) /\ rpm = history[n].before
<1>1. test = "undo" /\ step = "next" /\ ok /\ left = {}
  <2>1. failed' = IF ~ok THEN failed \cup {test} ELSE failed
    BY DEF UndoEnds, Ends
  <2> QED
    BY <2>1 DEF UndoEnds
<1>2. {i \in ids : n = 0 \/ i < n} = {} /\ (n # 0 => n \in ids)
  BY <1>1 DEF Lefts
<1>3. /\ Len(history) \in Nat \ {0} /\ DOMAIN history = 1..Len(history)
      /\ ids \subseteq 1..Len(history) /\ n \in Nat
  BY HistoryType DEF TypeOK
<1>4. n \in ids /\ n \in 1..Len(history) /\ \A j \in ids : n <= j
  BY <1>2, <1>3
<1>5. \A i \in 1..Len(history) : i > 1 => i \in ids
  BY <1>1, <1>3 DEF Clean, Noted, Pending
<1>6. n \in 1..2
  BY <1>3, <1>4, <1>5
<1>7. rpm \in [Pkg -> Version] /\ history[n].before \in [Pkg -> Version]
  <2>1. history[n] \in Transaction /\ rpm \in Rpm
    BY <1>3, <1>4, HistoryType
  <2> QED
    BY <2>1 DEF Transaction, Rpm
<1>8. ASSUME NEW p \in Pkg PROVE rpm[p] = history[n].before[p]
  <2>1. CASE \E i \in DOMAIN history : i >= n /\ Changed(i, p)
    BY <1>1, <1>3, <1>4, <2>1 DEF Rewinding
  <2>2. CASE \A i \in DOMAIN history : i >= n => ~Changed(i, p)
    <3>1. ~Touched(p)
      BY <1>3, <1>4, <1>6, <2>2 DEF Touched
    <3>2. rpm[p] = history[1].after[p]
      BY <3>1 DEF Known, Chain, Clean
    <3>3. history[n].before[p] = history[n].after[p]
      BY <1>3, <1>4, <2>2 DEF Changed
    <3>4. CASE n = 1
      BY <3>2, <3>3, <3>4
    <3>5. CASE n = 2
      BY <1>3, <1>4, <3>2, <3>5 DEF Chain
    <3> QED
      BY <1>6, <3>4, <3>5
  <2> QED
    BY <1>3, <2>1, <2>2
<1> QED
  BY <1>4, <1>6, <1>7, <1>8

LEMMA UndoneNext ==
  ASSUME TypeOK, Places, Chain, Lefts, Known, Clean => Rewinding /\ Undone, Clean', [Next]_vars
  PROVE  Undone'
<1>1. SUFFICES ASSUME test' = "orphans", step' = "next", n' = 0, "undo" \notin failed', ids' # {},
                      Listed(installed)' # {}
               PROVE  (\E i \in ids : (\A j \in ids : i <= j) /\ rpm = history[i].before)'
  BY DEF Undone
<1>2. CASE test = "undo" \/ test = "orphans"
  <2>1. /\ Clean /\ ~Other /\ UNCHANGED <<history, ids, installed>>
    BY <1>2, CleanBefore
  <2>2. Listed(installed)' = Listed(installed)
    BY <2>1 DEF Listed
  <2>3. CASE UndoEnds
    <3>1. n \in ids /\ (\A j \in ids : n <= j) /\ rpm = history[n].before
      BY <1>1, <2>1, <2>2, <2>3, UndoEndsBack
    <3>2. rpm' = rpm
      BY <2>3 DEF UndoEnds, machineVars
    <3> QED
      BY <2>1, <3>1, <3>2
  <2>4. CASE UNCHANGED vars
    BY <1>1, <2>1, <2>2, <2>4 DEF vars, Undone
  <2>5. CASE Run /\ ~UndoEnds
    <3>1. CASE FailsForNow \/ Succeeds \/ Fails \/ FailsForNowHalfDone \/ GivesUp
      BY <1>1, <3>1 DEF FailsForNow, Succeeds, Fails, FailsForNowHalfDone, GivesUp, Attempt, Places
    <3>2. CASE InstallNext \/ verify_dependency \/ Update \/ UndoNext \/ Orphans \/ OrphansEnd
               \/ InstallEnds \/ get_transaction_id \/ CheckFails \/ Parse
      BY <1>1, <1>2, <3>2, AfterFacts DEF InstallNext, verify_dependency, Update, UndoNext,
         Orphans, OrphansEnd, InstallEnds, get_transaction_id, CheckFails, Parse, Ends, Places
    <3> QED
      BY <2>5, <3>1, <3>2 DEF Run
  <2>6. CASE Interrupt
    BY <1>1, <2>6 DEF Interrupt
  <2> QED
    BY <2>1, <2>3, <2>4, <2>5, <2>6 DEF Next, Done
<1>3. CASE test \notin {"undo", "orphans"}
  <2>1. test \in Test /\ (test' = test \/ test' = After[test] \/ Interrupt)
    BY TestFollows DEF TypeOK
  <2> QED
    BY <1>1, <1>3, <2>1, AfterFacts DEF Test, Interrupt
<1> QED
  BY <1>2, <1>3

(* What is installed already, in this version or a newer one, is left      *)
(* alone.                                                                  *)
LEMMA ReinstallsNothing ==
  ASSUME TypeOK, test = "orphans", \A i \in Listed(orphaned) : rpm[i[1]] = i[2],
         NEW r \in Partial
  PROVE  r = rpm
<1>1. r \in [Pkg -> Version] /\ rpm \in [Pkg -> Version]
  BY DEF Partial, TypeOK, Rpm
<1>2. PICK o \in Reinstalls : \A p \in Pkg : r[p] \in {rpm[p], o[p]}
  BY DEF Partial, Outcome
<1>3. ASSUME NEW p \in Pkg PROVE o[p] = rpm[p]
  <2>1. \A v \in 1..2 : <<p, v>> \in Listed(orphaned) => ~(v > rpm[p])
    BY <1>1, <1>3 DEF Version
  <2> QED
    BY <1>2, <2>1 DEF Reinstalls
<1> QED
  BY <1>1, <1>2, <1>3

LEMMA AsFoundNext ==
  ASSUME TypeOK, Places, Chain, Ours, Lefts, Known, Clean => Rewinding /\ AsFound, Clean',
         [Next]_vars
  PROVE  AsFound'
<1>1. SUFFICES ASSUME test' \in {"orphans", "done"}, "undo" \notin failed',
                      Listed(installed)' # {}, \A i \in ids' : history'[i].by = "run",
                      \A i \in Listed(orphaned)' : found'[i[1]] = i[2]
               PROVE  rpm' = found'
  BY DEF AsFound
<1>2. test \in {"undo", "orphans", "done"} /\ ~Interrupt
  <2>1. test \in Test /\ (test' = test \/ test' = After[test] \/ Interrupt)
    BY TestFollows DEF TypeOK
  <2> QED
    BY <1>1, <2>1, AfterFacts DEF Test, Interrupt
<1>3. /\ Clean /\ ~Other /\ ~FailsForNowHalfDone
      /\ UNCHANGED <<history, ids, installed, orphaned, found>>
  BY <1>2, CleanBefore
<1>4. Listed(installed)' = Listed(installed) /\ Listed(orphaned)' = Listed(orphaned)
  BY <1>3 DEF Listed
<1>5. CASE test = "undo"
  <2>1. UndoEnds
    <3>1. test' # test
      BY <1>1, <1>5
    <3>2. ~(FailsForNow \/ Succeeds \/ Fails \/ GivesUp \/ UndoNext \/ UNCHANGED vars)
      BY <3>1 DEF FailsForNow, Succeeds, Fails, GivesUp, UndoNext, vars
    <3>3. ~(InstallNext \/ InstallEnds \/ get_transaction_id \/ CheckFails \/ verify_dependency
            \/ Parse \/ Update \/ Orphans \/ OrphansEnd)
      BY <1>5 DEF InstallNext, InstallEnds, get_transaction_id, CheckFails, verify_dependency,
         Parse, Update, Orphans, OrphansEnd, Places
    <3> QED
      BY <1>2, <1>3, <3>2, <3>3 DEF Next, Run, Done
  <2>2. /\ Len(history) \in Nat \ {0} /\ DOMAIN history = 1..Len(history)
        /\ ids \subseteq 1..Len(history)
    BY HistoryType DEF TypeOK
  <2>3. Len(history) # 1
    BY <1>1, <1>4 DEF Ours
  <2>4. 2 \in ids
    BY <1>3, <1>5, <2>2, <2>3 DEF Clean, Noted, Pending, Places
  <2>5. n \in ids /\ n \in 1..2 /\ rpm = history[n].before
    BY <1>1, <1>3, <1>4, <2>1, <2>4, UndoEndsBack
  <2>6. n = 2
    <3>1. history[n].by = "run" /\ history[1].by = "earlier"
      BY <1>1, <1>3, <2>5 DEF Known
    <3> QED
      BY <2>5, <3>1
  <2>7. history[2].before = found /\ rpm' = rpm
    BY <2>1, <2>2, <2>4 DEF Chain, UndoEnds, machineVars
  <2> QED
    BY <1>3, <2>5, <2>6, <2>7
<1>6. CASE test \in {"orphans", "done"}
  <2>1. "undo" \notin failed
    BY <1>1, StepKeeps
  <2>2. rpm = found
    BY <1>1, <1>3, <1>4, <1>6, <2>1 DEF AsFound
  <2>3. CASE \E r \in Partial : Command(r)
    <3>1. PICK r \in Partial : rpm' = r /\ step = "attempt"
      BY <2>3 DEF Command
    <3>2. test = "orphans"
      BY <1>6, <3>1 DEF Places
    <3>3. \A i \in Listed(orphaned) : rpm[i[1]] = i[2]
      BY <1>1, <1>3, <1>4, <2>2
    <3> QED
      BY <1>3, <2>2, <3>1, <3>2, <3>3, ReinstallsNothing
  <2> QED
    BY <1>3, <2>2, <2>3, StepKinds
<1> QED
  BY <1>2, <1>5, <1>6

--------------------------------------------------------------------------------
(* The first clean-up of a run in which nothing failed.                    *)

LEMMA QuietBefore ==
  ASSUME TypeOK, Places, [Next]_vars, QuietRun'
  PROVE  QuietRun
<1>1. faults \in Nat /\ others \in Nat /\ faults' >= faults /\ others' >= others
  BY StepKeeps DEF TypeOK
<1>2. faults = 0 /\ others = 0
  BY <1>1 DEF QuietRun, Quiet
<1>3. ctrlC # "torn" /\ ctrlC # "cleanup"
  BY StepKeeps DEF QuietRun, Quiet
<1> QED
  BY <1>2, <1>3 DEF QuietRun, Quiet

LEMMA UndoingNext ==
  ASSUME TypeOK, Places, Chain, Lefts, Noted, Undoing, QuietRun, QuietRun', [Next]_vars
  PROVE  Undoing'
<1>1. SUFFICES ASSUME test' = "undo", ok'
               PROVE  rpm' = IF n' = 0 THEN history'[Len(history')].after
                             ELSE IF step' = "attempt" THEN history'[n'].after
                             ELSE history'[n'].before
  BY DEF Undoing
<1>2. CASE n' = 0 /\ step' = "next" /\ (Interrupt \/ (test = "update" /\ UNCHANGED <<rpm, history>>))
  <2>1. test \in {"install", "update"} /\ history' = history
    BY <1>2 DEF Interrupt, QuietRun, Quiet, TypeOK, Test
  <2>2. rpm' = rpm
    <3>1. CASE Interrupt /\ step = "attempt"
      <4>1. PICK r \in Partial : rpm' = r /\ Record("run", r)
        BY <3>1 DEF Interrupt
      <4>2. r \in Rpm /\ "run" \in Actor
        BY <3>1, <4>1, PartialType DEF Actor
      <4>3. Len(history) \in Nat
        BY HistoryType
      <4> QED
        BY <2>1, <4>1, <4>2, <4>3, RecordFacts
    <3> QED
      BY <1>2, <3>1 DEF Interrupt
  <2> QED
    BY <1>2, <2>1, <2>2 DEF Chain
<1>3. CASE test = "undo" /\ ~Interrupt /\ ~UndoNext
  <2>1. ~Other /\ ~FailsForNowHalfDone /\ UNCHANGED history
    <3>1. ~Other /\ ~FailsForNowHalfDone
      BY FaultFacts DEF Other, FailsForNowHalfDone, QuietRun, Quiet
    <3> QED
      BY <1>3, <3>1, HistoryGrows
  <2>2. CASE FailsForNow \/ UNCHANGED vars
    <3>1. UNCHANGED <<rpm, n, step, ok>>
      BY <2>2 DEF FailsForNow, machineVars, vars
    <3> QED
      BY <1>1, <1>3, <2>1, <3>1 DEF Undoing
  <2>3. CASE Succeeds
    <3>1. /\ step = "attempt" /\ ok /\ n' = n /\ n \in DOMAIN history /\ n # 0 /\ step' = "next"
      BY <1>3, <2>3, ReturnedFacts, HistoryType DEF Succeeds, Attempt, Places
    <3>2. PICK r \in Undoes(history[n]) : rpm' = r
      BY <1>3, <2>3 DEF Succeeds, Outcome
    <3>3. rpm = history[n].after
      BY <1>3, <3>1 DEF Undoing
    <3>4. history[n].before \in [Pkg -> Version]
      <4>1. history[n] \in Transaction
        BY <3>1, HistoryType
      <4> QED
        BY <4>1 DEF Transaction, Rpm
    <3>5. rpm' = [p \in Pkg |-> history[n].before[p]]
      BY <3>2, <3>3 DEF Undoes
    <3>6. rpm' = history[n].before
      BY <3>4, <3>5
    <3> QED
      BY <2>1, <3>1, <3>6
  <2>4. CASE Fails \/ GivesUp
    BY <1>1, <2>4, ReturnedFacts DEF Fails, GivesUp
  <2>5. CASE UndoEnds
    BY <1>1, <2>5, AfterFacts DEF UndoEnds, Ends
  <2> QED
    BY <1>3, <2>1, <2>2, <2>3, <2>4, <2>5 DEF Next, Run, Done, InstallNext, InstallEnds,
       get_transaction_id, CheckFails, verify_dependency, Parse, Update, Orphans, OrphansEnd, Places
<1>4. CASE UndoNext
  <2>1. /\ UNCHANGED <<rpm, history>> /\ test = "undo" /\ step = "next" /\ ok
        /\ step' = "attempt"
    BY <1>4 DEF UndoNext, machineVars, Call
  <2>2. /\ n' \in DOMAIN history /\ n' # 0
        /\ n = 0 => \A i \in DOMAIN history : i <= n'
        /\ n # 0 => n' = n - 1 /\ n \in DOMAIN history
    BY <1>4, UndoNextFollows
  <2>3. Len(history) \in Nat \ {0} /\ DOMAIN history = 1..Len(history)
    BY HistoryType
  <2>4. CASE n = 0
    <3>1. n' = Len(history)
      <4>1. Len(history) \in DOMAIN history /\ n' \in 1..Len(history)
        BY <2>2, <2>3
      <4>2. Len(history) <= n'
        BY <2>2, <2>4, <4>1
      <4> QED
        BY <2>3, <4>1, <4>2
    <3> QED
      BY <2>1, <2>2, <2>4, <3>1 DEF Undoing
  <2>5. CASE n # 0
    <3>1. n > 1 /\ history[n].before = history[n'].after
      BY <2>2, <2>3, <2>5 DEF Chain
    <3> QED
      BY <2>1, <2>2, <2>5, <3>1 DEF Undoing
  <2> QED
    BY <2>4, <2>5
<1>5. ~(Interrupt /\ test = "undo")
  BY DEF Interrupt, QuietRun
<1>6. \/ test = "undo" /\ ~Interrupt /\ ~UndoNext
      \/ UndoNext
      \/ n' = 0 /\ step' = "next" /\ (Interrupt \/ (test = "update" /\ UNCHANGED <<rpm, history>>))
  BY <1>1, <1>5, UndoSteps
<1> QED
  BY <1>2, <1>3, <1>4, <1>6

LEMMA NextInv == ASSUME IInv, [Next]_vars PROVE IInv'
<1>1. TypeOK /\ Places /\ Chain /\ Ours /\ Lefts /\ Known /\ Written
  BY DEF IInv
<1>2. TypeOK' /\ Places' /\ Lefts' /\ Known' /\ Written'
  BY <1>1, NextTypes, LeftsNext, KnownNext, WrittenNext
<1>3. Chain' /\ Ours'
  BY <1>1, <1>2, OursNext
<1>4. ASSUME Clean' PROVE Rewinding'
  <2>1. CASE test \in {"undo", "orphans", "done"}
    <3>1. Clean /\ Rewinding
      BY <1>1, <1>4, <2>1, CleanBefore DEF IInv
    <3> QED
      BY <1>1, <1>4, <3>1, RewindingNext
  <2>2. CASE test \notin {"undo", "orphans", "done"}
    <3>1. test' = "undo" => n' = 0
      BY <1>1, <2>2, UndoSteps DEF UndoNext
    <3> QED
      BY <3>1 DEF Rewinding
  <2> QED
    BY <2>1, <2>2
<1>5. Clean' => Undone' /\ AsFound'
  BY <1>1, UndoneNext, AsFoundNext DEF IInv
<1>6. ASSUME QuietRun' PROVE Undoing'
  <2>1. QuietRun
    BY <1>1, <1>6, QuietBefore
  <2>2. Noted
    <3>1. ~(faults > 0) /\ ~halfdone
      BY <1>1, <2>1 DEF QuietRun, Quiet, Known
    <3> QED
      BY <1>1, <2>1, <3>1 DEF QuietRun, Quiet, Written
  <2> QED
    BY <1>1, <1>6, <2>1, <2>2, UndoingNext DEF IInv
<1> QED
  BY <1>2, <1>3, <1>4, <1>5, <1>6 DEF IInv

LEMMA Invariance == Spec => []IInv
  BY InitInv, NextInv, PTL DEF Spec

(* Where nothing failed, all is written down that yum did. *)
LEMMA QuietIsClean ==
  ASSUME IInv, Quiet
  PROVE  Clean
<1>1. ~(faults > 0) /\ ~halfdone
  BY DEF IInv, Quiet, Known
<1> QED
  BY <1>1 DEF IInv, Quiet, Written, Clean

(* A transaction of somebody else is undone only if another user came      *)
(* between a command and the question for its id, or if a virtual name was *)
(* provided before the run: for any packages and any number of failures,   *)
(* with Ctrl-C wherever it may come.                                       *)
THEOREM IdsAreOurs == Spec => []OnlyOurs
<1>1. IInv => OnlyOurs
  BY DEF IInv, Ours
<1> QED
  BY <1>1, Invariance, PTL

(* Every undo of a first clean-up finds the packages as its transaction    *)
(* left them, however many transactions there were.                        *)
THEOREM UndosFit == Spec => []UndoFits
<1>1. ASSUME IInv, QuietRun, test = "undo", step = "attempt" PROVE Undoable(history[n])
  <2>1. ok /\ n # 0
    BY <1>1 DEF IInv, Places
  <2>2. rpm = history[n].after
    BY <1>1, <2>1 DEF IInv, Undoing
  <2> QED
    BY <2>2 DEF Undoable
<1>2. IInv => UndoFits
  BY <1>1 DEF UndoFits, QuietRun
<1> QED
  BY <1>2, Invariance, PTL

(* The undos take the machine back to where it was before the earliest     *)
(* transaction that was written down, also if Ctrl-C had them begin again  *)
(* half way.                                                               *)
THEOREM UndosGoBack == Spec => []BackToEarliest
<1>1. ASSUME IInv, test = "orphans", step = "next", n = 0, Quiet, "undo" \notin failed, ids # {},
             Listed(installed) # {}
      PROVE  rpm = history[CHOOSE i \in ids : \A j \in ids : i <= j].before
  <2>1. PICK i \in ids : (\A j \in ids : i <= j) /\ rpm = history[i].before
    BY <1>1, QuietIsClean DEF IInv, Undone
  <2>2. ids \subseteq Nat
    BY <1>1, HistoryType DEF IInv, TypeOK
  <2>3. \A k \in ids : (\A j \in ids : k <= j) => k = i
    BY <2>1, <2>2
  <2>4. i = CHOOSE k \in ids : \A j \in ids : k <= j
    BY <2>1, <2>3
  <2> QED
    BY <2>1, <2>4
<1>2. IInv => BackToEarliest
  BY <1>1 DEF BackToEarliest
<1> QED
  BY <1>2, Invariance, PTL

(* A machine that is not as it was found is reported by a failed test, but *)
(* for the exceptions that Reported names, of which Ctrl-C is one only if  *)
(* it came between what yum did and the note of it, or between a failure   *)
(* and the end of its test: for any packages, wanted names, limits and     *)
(* numbers of failures.                                                    *)
THEOREM ChangesReported == Spec => []Reported
<1>1. IInv => Reported
  <2> SUFFICES ASSUME IInv, test = "done", others = 0, rpm # found, failed = {}, ~halfdone,
                      \A i \in ids : history[i].by = "run", ctrlC # "torn",
                      \A i \in Listed(orphaned) : found[i[1]] = i[2], Listed(installed) # {}
               PROVE  FALSE
    BY DEF Reported
  <2>1. Noted
    BY DEF IInv, Written, Reporting
  <2> QED
    BY <2>1 DEF IInv, Clean, AsFound
<1> QED
  BY <1>1, Invariance, PTL

================================================================================
