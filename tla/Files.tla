--------------------------------- MODULE Files ---------------------------------
(***************************************************************************)
(* The backup mechanism of osgtest/library/files.py: preserve, write,      *)
(* append, replace, restore and preserve_and_remove, over the file system, *)
(* the backup directory and the in-memory registry _backups.               *)
(*                                                                         *)
(* A call is a sequence of steps, one per system call that changes         *)
(* something, because the process may die between any two of them: the     *)
(* alarm handler of the driver ends in os.abort, and files outlive it.     *)
(* The lines of a file are a set: the code asks only whether a line is     *)
(* present, adds one, or rewrites each.                                    *)
(***************************************************************************)

CONSTANTS
  Path, Owner,
  Basename,      \* [Path -> names]: os.path.basename
  Line,          \* lines of text
  Uid, Mode,     \* owners and permissions of files
  Root,          \* the uid that osg-test runs as
  CopyMode,      \* the mode of a file that copying creates, before it is set
  WriteMode,     \* write's default chmod, 0600
  Original,      \* files the machine may have before any test runs
  NewAttr,       \* <<chown, chmod>> arguments that callers of write pass
  NoFile,        \* nothing at a path
  Unregistered,  \* the pair is not a key of _backups
  Nothing,       \* _backups[pair] is None: there was no file to back up
  NoCall,        \* no call is in progress
  Faults         \* which faults happen, see FaultKind

File == [text : SUBSET Line, mode : Mode, own : Uid]
FileState == File \cup {NoFile}
Pair == Path \X Owner

(* Mutant: the owner is left out of the name of the backup file. *)
BackupPathNoOwner(p, o) == <<Basename[p], CHOOSE q \in Owner : TRUE>>

(* get_backup_path: only the last component of the path and the owner. *)
BackupPath(p, o) == <<Basename[p], o>>
Slot == {Basename[p] : p \in Path} \X Owner

Op == {"write", "append", "preserve", "preserve_and_remove", "restore"}
Step == {"stale", "check", "copy", "record", "read", "rename", "remove",
         "unlink", "move", "finish"}
Call == [op : Op, step : Step, path : Path, owner : Owner, temp : FileState]

ASSUME RootAssumption == Root \in Uid /\ CopyMode \in Mode /\ WriteMode \in Mode
ASSUME InputAssumption == Original \subseteq File /\ NewAttr \subseteq Uid \X Mode
ASSUME SentinelAssumption ==
  /\ NoFile \notin File
  /\ Unregistered \notin FileState
  /\ NoCall \notin Call
  /\ Unregistered \notin Uid \cup {Nothing}
  /\ Nothing \notin Uid

(* The process dies; a copy or a move fails; Ctrl-C, late when it comes    *)
(* after the backup has been moved back and before the pair is forgotten.  *)
FaultKind == {"crash", "io", "interrupt", "late interrupt"}
ASSUME FaultAssumption == Faults \subseteq FaultKind

VARIABLES
  fs,       \* [Path -> FileState]: the files that tests modify
  dir,      \* [Slot -> FileState]: the files in _backup_directory
  backups,  \* [Pair -> Uid \cup {Nothing, Unregistered}]: _backups
  call      \* the call in progress and its next step

vars == <<fs, dir, backups, call>>

TypeOK ==
  /\ fs \in [Path -> FileState]
  /\ dir \in [Slot -> FileState]
  /\ backups \in [Pair -> Uid \cup {Nothing, Unregistered}]
  /\ call \in Call \cup {NoCall}

Init ==
  /\ fs \in [Path -> Original \cup {NoFile}]
  /\ dir = [s \in Slot |-> NoFile]
  /\ backups = [k \in Pair |-> Unregistered]
  /\ call = NoCall

Registered(p, o) == backups[<<p, o>>] # Unregistered

--------------------------------------------------------------------------------
(* Starting a call.                                                        *)

Begin(op, step, p, o, temp) ==
  /\ call = NoCall
  /\ call' = [op |-> op, step |-> step, path |-> p, owner |-> o, temp |-> temp]
  /\ UNCHANGED <<fs, dir, backups>>

(* The attributes of the temporary file: those of the file it replaces, or *)
(* the chown and chmod arguments when there is none.                       *)
TempFile(p, text, own, mode) ==
  IF fs[p] = NoFile THEN [text |-> text, mode |-> mode, own |-> own]
                    ELSE [fs[p] EXCEPT !.text = text]

(* write: the temporary file is complete before preserve is called. *)
Write(p, o, backup) ==
  \E text \in SUBSET Line, attr \in NewAttr :
    Begin("write", IF backup THEN "check" ELSE "rename", p, o,
          TempFile(p, text, attr[1], attr[2]))

(* replace and replace_regexpr: read raises if there is no file; every     *)
(* line is rewritten, and the result handed to write.                      *)
Replace(p, o, backup) ==
  /\ fs[p] # NoFile
  /\ \E rewrite \in [Line -> Line] :
       Begin("write", IF backup THEN "check" ELSE "rename", p, o,
             [fs[p] EXCEPT !.text = {rewrite[l] : l \in fs[p].text}])

AppendTo(p, o, backup) ==
  Begin("append", IF backup THEN "check" ELSE "read", p, o, NoFile)

Preserve(p, o) == Begin("preserve", "check", p, o, NoFile)

PreserveAndRemove(p, o) == Begin("preserve_and_remove", "stale", p, o, NoFile)

(* restore raises, or returns if told to, when the pair is not registered. *)
Restore(p, o) ==
  /\ Registered(p, o)
  /\ Begin("restore", "unlink", p, o, NoFile)

--------------------------------------------------------------------------------
(* The steps of a call.                                                    *)

At(step) == call # NoCall /\ call.step = step
Goto(step) == call' = [call EXCEPT !.step = step]
Return == call' = NoCall

(* A raised exception ends the call too: nothing done so far is undone. *)
Raise == call' = NoCall

ThisPair == <<call.path, call.owner>>
ThisSlot == BackupPath(call.path, call.owner)

(* Mutant: without the test that the backup is stale. *)
RemoveStaleUnchecked ==
  /\ At("stale")
  /\ Goto("check") /\ dir' = [dir EXCEPT ![ThisSlot] = NoFile]
  /\ UNCHANGED <<fs, backups>>

(* preserve_and_remove first calls remove_stale_backup. *)
RemoveStale ==
  /\ At("stale")
  /\ IF Registered(call.path, call.owner)
       THEN Raise /\ UNCHANGED dir
       ELSE Goto("check") /\ dir' = [dir EXCEPT ![ThisSlot] = NoFile]
  /\ UNCHANGED <<fs, backups>>

(* What follows preserve in the function that called it. *)
AfterPreserve ==
  \/ call.op = "write" /\ Goto("rename")
  \/ call.op = "append" /\ Goto("read")
  \/ call.op = "preserve_and_remove" /\ Goto("remove")
  \/ call.op = "preserve" /\ Return

(* Mutant: without the test that the backup file exists. *)
PreserveCheckNoExists ==
  /\ At("check")
  /\ ~Registered(call.path, call.owner)
  /\ \/ /\ fs[call.path] = NoFile
        /\ backups' = [backups EXCEPT ![ThisPair] = Nothing]
        /\ AfterPreserve
     \/ fs[call.path] # NoFile /\ Goto("copy") /\ UNCHANGED backups
  /\ UNCHANGED <<fs, dir>>

(* preserve: refuse a used pair and an existing backup file; register None *)
(* when there is no file at the path.                                      *)
PreserveCheck ==
  /\ At("check")
  /\ \/ /\ Registered(call.path, call.owner) \/ dir[ThisSlot] # NoFile
        /\ Raise
        /\ UNCHANGED backups
     \/ /\ ~Registered(call.path, call.owner) /\ dir[ThisSlot] = NoFile
        /\ fs[call.path] = NoFile
        /\ backups' = [backups EXCEPT ![ThisPair] = Nothing]
        /\ AfterPreserve
     \/ /\ ~Registered(call.path, call.owner) /\ dir[ThisSlot] = NoFile
        /\ fs[call.path] # NoFile
        /\ Goto("copy")
        /\ UNCHANGED backups
  /\ UNCHANGED <<fs, dir>>

(* shutil.copy2 keeps the mode, and the copy belongs to root. *)
PreserveCopy ==
  /\ At("copy")
  /\ dir' = [dir EXCEPT ![ThisSlot] = [fs[call.path] EXCEPT !.own = Root]]
  /\ Goto("record")
  /\ UNCHANGED <<fs, backups>>

(* Mutants: the mode is recorded for the owner; the owner of the copy is. *)
PreserveRecordMode ==
  /\ At("record")
  /\ backups' = [backups EXCEPT ![ThisPair] = fs[call.path].mode]
  /\ AfterPreserve
  /\ UNCHANGED <<fs, dir>>

PreserveRecordCopy ==
  /\ At("record")
  /\ backups' = [backups EXCEPT ![ThisPair] = dir[ThisSlot].own]
  /\ AfterPreserve
  /\ UNCHANGED <<fs, dir>>

PreserveRecord ==
  /\ At("record")
  /\ backups' = [backups EXCEPT ![ThisPair] = fs[call.path].own]
  /\ AfterPreserve
  /\ UNCHANGED <<fs, dir>>

(* os.rename of the temporary file. *)
Rename ==
  /\ At("rename")
  /\ fs' = [fs EXCEPT ![call.path] = call.temp]
  /\ Return
  /\ UNCHANGED <<dir, backups>>

(* append, after preserve: nothing to do if the line is there and force is *)
(* not given; else write without a backup, with the default chown, chmod.  *)
AppendRead ==
  /\ At("read")
  /\ \E line \in Line, force \in BOOLEAN :
       LET old == IF fs[call.path] = NoFile THEN {} ELSE fs[call.path].text
       IN IF ~force /\ line \in old
            THEN Return
            ELSE call' = [call EXCEPT !.step = "rename",
                   !.temp = TempFile(call.path, old \cup {line}, Root, WriteMode)]
  /\ UNCHANGED <<fs, dir, backups>>

(* preserve_and_remove: the last step. *)
RemovePreserved ==
  /\ At("remove")
  /\ fs' = [fs EXCEPT ![call.path] = NoFile]
  /\ Return
  /\ UNCHANGED <<dir, backups>>

(* Mutant: the present file is removed only if there is a backup. *)
RestoreUnlinkBackedUp ==
  /\ At("unlink")
  /\ fs' = IF backups[ThisPair] = Nothing THEN fs
           ELSE [fs EXCEPT ![call.path] = NoFile]
  /\ Goto("move")
  /\ UNCHANGED <<dir, backups>>

(* restore: os.remove of the present file, if any. *)
RestoreUnlink ==
  /\ At("unlink")
  /\ fs' = [fs EXCEPT ![call.path] = NoFile]
  /\ Goto("move")
  /\ UNCHANGED <<dir, backups>>

(* restore: shutil.move of the backup, if one was made and is still there. *)
RestoreMove ==
  /\ At("move")
  /\ IF backups[ThisPair] # Nothing /\ dir[ThisSlot] # NoFile
       THEN /\ fs' = [fs EXCEPT ![call.path] = dir[ThisSlot]]
            /\ dir' = [dir EXCEPT ![ThisSlot] = NoFile]
       ELSE UNCHANGED <<fs, dir>>
  /\ Goto("finish")
  /\ UNCHANGED backups

WithOwner(f, uid) == IF f = NoFile THEN NoFile ELSE [f EXCEPT !.own = uid]

(* Mutant: without os.chown. *)
RestoreFinishNoChown ==
  /\ At("finish")
  /\ backups' = [backups EXCEPT ![ThisPair] = Unregistered]
  /\ Return
  /\ UNCHANGED <<fs, dir>>

(* restore: os.chown, then the pair leaves the registry. *)
RestoreFinish ==
  /\ At("finish")
  /\ fs' = IF backups[ThisPair] = Nothing THEN fs
           ELSE [fs EXCEPT ![call.path] = WithOwner(@, backups[ThisPair])]
  /\ backups' = [backups EXCEPT ![ThisPair] = Unregistered]
  /\ Return
  /\ UNCHANGED dir

--------------------------------------------------------------------------------
(* What else happens to the files and to the process.                      *)

(* A full disk: copy2 leaves a prefix of the file in the backup directory  *)
(* and raises before the pair is registered.                               *)
CopyFails ==
  /\ "io" \in Faults /\ At("copy")
  /\ \E part \in SUBSET fs[call.path].text :
       dir' = [dir EXCEPT ![ThisSlot] =
                 [text |-> part, mode |-> CopyMode, own |-> Root]]
  /\ Raise
  /\ UNCHANGED <<fs, backups>>

(* The backup directory is on another file system, so shutil.move copies:  *)
(* it raises with part of the file at the path, before it unlinks.         *)
MoveFails ==
  /\ "io" \in Faults /\ At("move")
  /\ backups[ThisPair] # Nothing /\ dir[ThisSlot] # NoFile
  /\ \E part \in SUBSET dir[ThisSlot].text :
       fs' = [fs EXCEPT ![call.path] =
                 [text |-> part, mode |-> CopyMode, own |-> Root]]
  /\ Raise
  /\ UNCHANGED <<dir, backups>>

(* Ctrl-C: KeyboardInterrupt leaves the call between two of its steps, and *)
(* the same process goes on to the clean-up tests.                         *)
Interrupt ==
  /\ call # NoCall
  /\ (IF call.step = "finish" THEN "late interrupt" ELSE "interrupt") \in Faults
  /\ Raise
  /\ UNCHANGED <<fs, dir, backups>>

(* The process dies (os.abort in the alarm handler, kill, power) and       *)
(* osg-test is started again: files stay, the registry is empty.           *)
Crash ==
  /\ "crash" \in Faults
  /\ backups' = [k \in Pair |-> Unregistered]
  /\ call' = NoCall
  /\ UNCHANGED <<fs, dir>>

(* The last clean-up test removes the backup directory with all that is in *)
(* it, or with what it can (ignore_errors), whether or not the test then   *)
(* fails, and the run ends.                                                *)
EndOfRun ==
  /\ call = NoCall
  /\ \E kept \in {{}} \cup (IF "io" \in Faults THEN SUBSET Slot ELSE {}) :
       dir' = [s \in Slot |-> IF s \in kept THEN dir[s] ELSE NoFile]
  /\ backups' = [k \in Pair |-> Unregistered]
  /\ UNCHANGED <<fs, call>>

(* A test or a daemon removes or rewrites the file itself, between calls. *)
OutsideChange(p) ==
  /\ call = NoCall
  /\ \E f \in FileState : fs' = [fs EXCEPT ![p] = f]
  /\ UNCHANGED <<dir, backups, call>>

CallStep ==
  \/ RemoveStale \/ PreserveCheck \/ PreserveCopy \/ PreserveRecord
  \/ Rename \/ AppendRead \/ RemovePreserved
  \/ RestoreUnlink \/ RestoreMove \/ RestoreFinish

Fault == CopyFails \/ MoveFails \/ Interrupt \/ Crash

StartCall(p, o) ==
  \/ \E backup \in BOOLEAN :
       Write(p, o, backup) \/ Replace(p, o, backup) \/ AppendTo(p, o, backup)
  \/ Preserve(p, o) \/ PreserveAndRemove(p, o) \/ Restore(p, o)

Next ==
  \/ \E p \in Path, o \in Owner : StartCall(p, o)
  \/ CallStep
  \/ Fault
  \/ EndOfRun
  \/ \E p \in Path : OutsideChange(p)

Spec == Init /\ [][Next]_vars

--------------------------------------------------------------------------------
(* Properties.                                                             *)

(* Two paths never share a backup file. The module does not ensure it: it  *)
(* holds only if the tests never give one owner two files of one name.     *)
BasenamesDistinct ==
  \A p, q \in Path : Basename[p] = Basename[q] => p = q

RestoreAt(step, p, o) ==
  At(step) /\ call.path = p /\ call.owner = o

(* Where the original of a pair with a backup is: in the backup directory, *)
(* or, in the last step of its restore, back at its path.                  *)
BackupNow(p, o) ==
  IF RestoreAt("finish", p, o) THEN fs[p] ELSE dir[BackupPath(p, o)]

HasBackup(p, o) == backups[<<p, o>>] \notin {Unregistered, Nothing}

(* A pair that is registered with the owner of its original always has     *)
(* that original to restore (preserve 86-91, restore 205-217).             *)
RegistryMatchesDirectory ==
  \A p \in Path, o \in Owner : HasBackup(p, o) => BackupNow(p, o) # NoFile

(* Whatever crashes, reruns and name clashes happen, a file in the backup  *)
(* directory is never overwritten: until it is moved back or deleted it    *)
(* is the copy that was completed first (the exists test, preserve 83-84). *)
BackupNeverOverwritten ==
  [][\A s \in Slot : dir[s] # NoFile => dir'[s] \in {dir[s], NoFile}]_vars

(* The state saved for each pair, as BackupStore sees it: the original     *)
(* with the owner that the registry recorded.                              *)
SavedState(p, o) ==
  IF backups[<<p, o>>] = Unregistered THEN Unregistered
  ELSE IF backups[<<p, o>>] = Nothing THEN NoFile
  ELSE WithOwner(BackupNow(p, o), backups[<<p, o>>])

Saved == [k \in Pair |-> SavedState(k[1], k[2])]

Store == INSTANCE BackupStore WITH
  content <- fs, saved <- Saved, NotSaved <- Unregistered

(* The mechanism keeps BackupStore's promise: what restore leaves at the   *)
(* path is what preserve found there, owner and mode included, whatever    *)
(* the other pairs did in between (files.py 5-20, 63-91, 198-217).         *)
StoreSpec == Store!Spec

================================================================================
