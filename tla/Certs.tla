--------------------------------- MODULE Certs ---------------------------------
(***************************************************************************)
(* install_cert and remove_cert of osgtest/library/core.py, and the tests  *)
(* that call them: a certificate and its key are installed in one          *)
(* directory, certificate first, and removed key first (test_200_voms 24-  *)
(* 25 and test_780_voms 37-39; test_155_stashcache 218-219 and             *)
(* test_835_stashcache 55-58). What was at a target is moved to            *)
(* <target>.osgtest.backup, and core.state records what was done.          *)
(*                                                                         *)
(* Between two statements a call may be interrupted, or the disk be full.  *)
(* Owners and permissions, which nothing restores, are left out.           *)
(***************************************************************************)

EXTENDS Naturals, Sequences

CONSTANTS
  Key,        \* target keys, all in one directory
  Order,      \* the keys in the order in which they are installed
  Absent, Original, Ours, Partial,  \* what is at a path
  Others,     \* BOOLEAN: the directory may hold other files
  NoCall,
  Faults      \* which of "io", "interrupt" happen

Content == {Absent, Original, Ours, Partial}
Entry == {"target", "backup", "dir"}
Op == {"install", "remove"}
Step == {"move", "record_backup", "mkdir", "record_dir", "copy", "record",
         "unlink", "move_back", "rmdir"}
Call == [op : Op, key : Key, step : Step]

ASSUME ContentAssumption ==
  /\ Absent \notin {Original, Ours, Partial} /\ Original \notin {Ours, Partial}
ASSUME OrderAssumption ==
  Order \in Seq(Key) /\ \A i, j \in DOMAIN Order : Order[i] = Order[j] => i = j
ASSUME NoCallAssumption == NoCall \notin Call
ASSUME CertFaultAssumption == Faults \subseteq {"io", "interrupt"}

VARIABLES
  target,    \* [Key -> Content]: at config[key]
  backup,    \* [Key -> Content]: at config[key] + '.osgtest.backup'
  dir,       \* BOOLEAN: the directory exists
  others,    \* BOOLEAN: other files are in it
  state,     \* [Key -> SUBSET Entry]: the keys of core.state
  call,      \* the call in progress and its next step
  phase,     \* which test is running, or has ended
  next,      \* index in Order of the next call of the running test
  first,     \* history: target as the run found it
  firstDir,  \* history: the directory existed before the run
  raised     \* history: the calls that raised an exception

certVars == <<target, backup, dir, others, state, call, phase, next, first,
              firstDir, raised>>

files == <<target, backup, dir, others>>

Empty == ~others /\ \A k \in Key : target[k] = Absent /\ backup[k] = Absent

TypeOK ==
  /\ target \in [Key -> Content] /\ backup \in [Key -> Content]
  /\ dir \in BOOLEAN /\ others \in BOOLEAN
  /\ state \in [Key -> SUBSET Entry]
  /\ call \in Call \cup {NoCall}
  /\ phase \in {"setup", "installing", "tests", "removing", "done"}
  /\ next \in 0..(Len(Order) + 1)
  /\ first \in [Key -> Content] /\ firstDir \in BOOLEAN
  /\ raised \subseteq Op

(* A machine on which no earlier run has left anything behind. *)
Init ==
  /\ target \in [Key -> {Absent, Original}]
  /\ backup = [k \in Key |-> Absent]
  /\ others \in BOOLEAN /\ (others => Others)
  /\ dir \in BOOLEAN /\ (~Empty => dir)
  /\ state = [k \in Key |-> {}]
  /\ call = NoCall /\ phase = "setup" /\ next = 0
  /\ first = target /\ firstDir = dir /\ raised = {}

--------------------------------------------------------------------------------
(* The tests.                                                              *)

(* The set-up test, unless it is skipped. *)
StartInstalls ==
  /\ phase = "setup"
  /\ phase' = "installing" /\ next' = 1
  /\ UNCHANGED <<files, state, call, first, firstDir, raised>>

SkipInstalls ==
  /\ phase = "setup"
  /\ phase' = "tests"
  /\ UNCHANGED <<files, state, call, next, first, firstDir, raised>>

(* The tear-down test: "Do the keys first, so that the directories will be *)
(* empty for the certs" (test_780_voms 37).                                *)
StartRemoves ==
  /\ phase = "tests"
  /\ phase' = "removing" /\ next' = Len(Order)
  /\ UNCHANGED <<files, state, call, first, firstDir, raised>>

InstallCert ==
  /\ phase = "installing" /\ call = NoCall /\ next <= Len(Order)
  /\ call' = [op |-> "install", key |-> Order[next], step |-> "move"]
  /\ next' = next + 1
  /\ UNCHANGED <<files, state, phase, first, firstDir, raised>>

(* Mutant: the certificate is removed first. *)
RemoveCertFirst ==
  /\ phase = "removing" /\ call = NoCall /\ next > 0
  /\ call' = [op |-> "remove", key |-> Order[Len(Order) + 1 - next], step |-> "unlink"]
  /\ next' = next - 1
  /\ UNCHANGED <<files, state, phase, first, firstDir, raised>>

RemoveCert ==
  /\ phase = "removing" /\ call = NoCall /\ next > 0
  /\ call' = [op |-> "remove", key |-> Order[next], step |-> "unlink"]
  /\ next' = next - 1
  /\ UNCHANGED <<files, state, phase, first, firstDir, raised>>

EndTest ==
  /\ call = NoCall
  /\ \/ phase = "installing" /\ next > Len(Order) /\ phase' = "tests"
     \/ phase = "removing" /\ next = 0 /\ phase' = "done"
  /\ UNCHANGED <<files, state, call, next, first, firstDir, raised>>

--------------------------------------------------------------------------------
(* The steps of a call.                                                    *)

At(step) == call # NoCall /\ call.step = step
Goto(step) == call' = [call EXCEPT !.step = step] /\ UNCHANGED <<next, raised>>
Return == call' = NoCall /\ UNCHANGED <<next, raised>>

(* An exception ends the test that made the call. *)
Raise ==
  /\ call' = NoCall /\ raised' = raised \cup {call.op}
  /\ next' = IF phase = "installing" THEN Len(Order) + 1 ELSE 0

Frame == UNCHANGED <<others, phase, first, firstDir>>

Record(entry) == state' = [state EXCEPT ![call.key] = @ \cup {entry}]

(* install_cert: shutil.move of what is at the target, over any backup. *)
MoveAside ==
  /\ At("move")
  /\ IF target[call.key] # Absent
       THEN /\ backup' = [backup EXCEPT ![call.key] = target[call.key]]
            /\ target' = [target EXCEPT ![call.key] = Absent]
            /\ Goto("record_backup")
       ELSE Goto("mkdir") /\ UNCHANGED <<target, backup>>
  /\ UNCHANGED <<dir, state>> /\ Frame

(* Mutant: the key is misspelt. *)
RecordBackupMisspelt ==
  /\ At("record_backup")
  /\ Record("backups") /\ Goto("mkdir")
  /\ UNCHANGED <<target, backup, dir>> /\ Frame

RecordBackup ==
  /\ At("record_backup")
  /\ Record("backup") /\ Goto("mkdir")
  /\ UNCHANGED <<target, backup, dir>> /\ Frame

MakeDir ==
  /\ At("mkdir")
  /\ IF dir THEN Goto("copy") ELSE Goto("record_dir")
  /\ dir' = TRUE
  /\ UNCHANGED <<target, backup, state>> /\ Frame

RecordDir ==
  /\ At("record_dir")
  /\ Record("dir") /\ Goto("copy")
  /\ UNCHANGED <<target, backup, dir>> /\ Frame

CopyCert ==
  /\ At("copy")
  /\ target' = [target EXCEPT ![call.key] = Ours]
  /\ Goto("record")
  /\ UNCHANGED <<backup, dir, state>> /\ Frame

(* state[target_key]; then chown and chmod. *)
RecordTarget ==
  /\ At("record")
  /\ Record("target") /\ Return
  /\ UNCHANGED <<target, backup, dir>> /\ Frame

(* Mutant: the target is removed whether or not install_cert made it. *)
UnlinkAlways ==
  /\ At("unlink")
  /\ target' = [target EXCEPT ![call.key] = Absent]
  /\ Goto("move_back")
  /\ UNCHANGED <<backup, dir, state>> /\ Frame

(* remove_cert: os.remove of the recorded target. *)
Unlink ==
  /\ At("unlink")
  /\ IF "target" \in state[call.key]
       THEN target' = [target EXCEPT ![call.key] = Absent]
       ELSE UNCHANGED target
  /\ Goto("move_back")
  /\ UNCHANGED <<backup, dir, state>> /\ Frame

(* The recorded backup is moved to state[target_key]: a KeyError if the    *)
(* copy was never made.                                                    *)
MoveBack ==
  /\ At("move_back")
  /\ \/ /\ "backup" \notin state[call.key]
        /\ Goto("rmdir") /\ UNCHANGED <<target, backup>>
     \/ /\ {"backup", "target"} \subseteq state[call.key]
        /\ target' = [target EXCEPT ![call.key] = backup[call.key]]
        /\ backup' = [backup EXCEPT ![call.key] = Absent]
        /\ Goto("rmdir")
     \/ /\ "backup" \in state[call.key] /\ "target" \notin state[call.key]
        /\ Raise /\ UNCHANGED <<target, backup>>
  /\ UNCHANGED <<dir, state>> /\ Frame

(* The directory goes if this key's installation made it and it is empty. *)
RemoveDir ==
  /\ At("rmdir")
  /\ dir' = (dir /\ ~("dir" \in state[call.key] /\ Empty))
  /\ Return
  /\ UNCHANGED <<target, backup, state>> /\ Frame

--------------------------------------------------------------------------------
(* What goes wrong.                                                        *)

(* shutil.copy raises, at once or with part of the file written. *)
CopyFails ==
  /\ "io" \in Faults /\ At("copy")
  /\ \E left \in {Absent, Partial} : target' = [target EXCEPT ![call.key] = left]
  /\ Raise
  /\ UNCHANGED <<backup, dir, state>> /\ Frame

(* Ctrl-C. The clean-up that follows it does not remove certificates. *)
Interrupt ==
  /\ "interrupt" \in Faults /\ call # NoCall
  /\ call' = NoCall /\ phase' = "done"
  /\ raised' = raised \cup {call.op}
  /\ UNCHANGED <<files, state, next, first, firstDir>>

CallStep ==
  \/ MoveAside \/ RecordBackup \/ MakeDir \/ RecordDir \/ CopyCert \/ RecordTarget
  \/ Unlink \/ MoveBack \/ RemoveDir

Next ==
  \/ StartInstalls \/ SkipInstalls \/ StartRemoves \/ EndTest
  \/ InstallCert \/ RemoveCert \/ CallStep
  \/ CopyFails \/ Interrupt

Spec == Init /\ [][Next]_certVars

--------------------------------------------------------------------------------
(* Properties.                                                             *)

(* "Carefully install a certificate" (core 710): whatever fails and        *)
(* wherever a call is interrupted, a file that the run found at a target   *)
(* is there or in its backup (core 722-733, 744-748).                      *)
OriginalKept ==
  \A k \in Key : first[k] = Original => Original \in {target[k], backup[k]}

(* If no call raised, the tear-down leaves targets, backups and directory  *)
(* as the run found them, although the first call of install_cert made the *)
(* directory for all (core 727-731) and remove_cert leaves the entries of  *)
(* core.state in place (744-752).                                          *)
Undone ==
  phase = "done" /\ raised = {} =>
    target = first /\ dir = firstDir /\ \A k \in Key : backup[k] = Absent

(* "Record each directory and file created by this process into the config *)
(* dictionary; do so immediately after creation, so that the remove_cert() *)
(* function knows exactly what to remove/restore" (core 711-714): the      *)
(* tear-down brings back a certificate whose installation failed.          *)
FailedInstallUndone ==
  phase = "done" => \A k \in Key : first[k] = Original => target[k] = Original

================================================================================
