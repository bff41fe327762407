------------------------------- MODULE BackupUse -------------------------------
(***************************************************************************)
(* The files module as the test modules use it. A component writes without *)
(* a backup only to a file it already holds a backup of (test_180_cvmfs    *)
(* 14-24, test_150_xrootd 105-139), daemons and tests touch a file only    *)
(* while some component holds it, and of several components that hold the  *)
(* same file the first is the last to restore it (test_380_cvmfs 60-70     *)
(* inside the life of test_180_cvmfs 45 and test_820_cvmfs 25).            *)
(*                                                                         *)
(* History variables: the state of each file before the first test of the  *)
(* run, the owner that was the first to hold it, and the paths that met    *)
(* one of three misfortunes: a crash in the middle of their use, a restore *)
(* that was interrupted half way, a true backup that was taken for stale.  *)
(* A run ends with test 99 of special_cleanup, which deletes the backups   *)
(* that are left; the next run takes the machine as it finds it.           *)
(***************************************************************************)

EXTENDS Files

VARIABLES
  original,  \* [Path -> FileState]
  outer,     \* [Path -> SUBSET Owner]: the first of the present holders
  crashed, half, stale,  \* SUBSET Path
  lastTest   \* test_99_backups: "none" (not yet), "passed", "failed"

useVars == <<fs, dir, backups, call, original, outer, crashed, half, stale, lastTest>>

UseTypeOK ==
  /\ TypeOK
  /\ original \in [Path -> FileState] /\ outer \in [Path -> SUBSET Owner]
  /\ crashed \subseteq Path /\ half \subseteq Path /\ stale \subseteq Path
  /\ lastTest \in {"none", "passed", "failed"}

UseInit ==
  /\ Init
  /\ original = fs
  /\ outer = [p \in Path |-> {}]
  /\ crashed = {} /\ half = {} /\ stale = {} /\ lastTest = "none"

Holders(p) == {o \in Owner : Registered(p, o)}

UseCall(p, o) ==
  \/ Write(p, o, TRUE) \/ Replace(p, o, TRUE) \/ AppendTo(p, o, TRUE)
  \/ Registered(p, o) /\ (Write(p, o, FALSE) \/ AppendTo(p, o, FALSE))
  \/ Preserve(p, o) \/ PreserveAndRemove(p, o)
  \/ (o \in outer[p] => Holders(p) = {o}) /\ Restore(p, o)

(* A step registers one owner at most. *)
OuterAfter(p) == IF Holders(p) = {} THEN Holders(p)' ELSE outer[p] \cap Holders(p)'

SameText(f, g) == f # NoFile /\ f.text = g.text /\ f.mode = g.mode

(* p is held, or about to be, when the process dies. *)
InUse(p) == Holders(p) # {} \/ (call # NoCall /\ call.path = p)

(* Ctrl-C after the backup of p was moved back and before the del: the     *)
(* pair stays registered, and its backup is gone (205-217).                *)
HalfRestored(p) ==
  Interrupt /\ At("finish") /\ call.path = p /\ backups[ThisPair] # Nothing

(* remove_stale_backup deletes a true backup that a dead process made. *)
StaleRemoved(p) ==
  /\ RemoveStale /\ call.path = p /\ p \in crashed /\ original[p] # NoFile
  /\ SameText(dir[ThisSlot], original[p]) /\ dir'[ThisSlot] = NoFile

(* Not every step that ends a call and empties the registry is a crash:    *)
(* the end of the last restore does the same.                              *)
UseCrash == Crash /\ crashed' = crashed \cup {p \in Path : InUse(p)}

TestStep ==
  /\ lastTest = "none"
  /\ \/ /\ \/ \E p \in Path, o \in Owner : UseCall(p, o)
           \/ CallStep
           \/ CopyFails \/ MoveFails \/ Interrupt
           \/ \E p \in Path : Holders(p) # {} /\ OutsideChange(p)
        /\ UNCHANGED crashed
     \/ UseCrash
  /\ outer' = [p \in Path |-> OuterAfter(p)]
  /\ half' = half \cup {p \in Path : HalfRestored(p)}
  /\ stale' = stale \cup {p \in Path : StaleRemoved(p)}
  /\ UNCHANGED <<original, lastTest>>

AllRestored ==
  /\ \A p \in Path, o \in Owner : ~Registered(p, o)
  /\ \A s \in Slot : dir[s] = NoFile

(* Mutant: the test looks at the record alone, which a crash has emptied. *)
LastTestRecordOnly ==
  /\ lastTest = "none" /\ EndOfRun
  /\ lastTest' = IF \A p \in Path, o \in Owner : ~Registered(p, o)
                 THEN "passed" ELSE "failed"
  /\ outer' = [p \in Path |-> {}]
  /\ UNCHANGED <<original, crashed, half, stale>>

(* "Backups were not restored fully" *)
LastTest ==
  /\ lastTest = "none" /\ EndOfRun
  /\ lastTest' = IF AllRestored THEN "passed" ELSE "failed"
  /\ outer' = [p \in Path |-> {}]
  /\ UNCHANGED <<original, crashed, half, stale>>

NextRun ==
  /\ lastTest # "none" /\ lastTest' = "none"
  /\ original' = fs
  /\ crashed' = {} /\ half' = {} /\ stale' = {}
  /\ UNCHANGED <<fs, dir, backups, call, outer>>

UseNext == TestStep \/ LastTest \/ NextRun

UseSpec == UseInit /\ [][UseNext]_useVars

--------------------------------------------------------------------------------

Pristine(p) == Holders(p) = {} => fs[p] = original[p]

(* A file that no component holds is exactly as the run found it: "Restores *)
(* the path to its state prior to being written by its owner" (files.py:    *)
(* 199), composed over the owners of a whole run. What the last test then   *)
(* deletes it reports.                                                      *)
PristineWhenReleased ==
  call = NoCall /\ lastTest # "failed" => \A p \in Path : Pristine(p)

(* It is so over nested owners, failed copies, failed moves and interrupts *)
(* of every call, up to the end of the run, unless the process died while  *)
(* the file was in use, a restore was interrupted half way, or the last    *)
(* test says that a backup was left.                                       *)
PristineUnlessDisturbed ==
  call = NoCall /\ lastTest # "failed" =>
    \A p \in Path \ (half \cup crashed) : Pristine(p)

(* The original can still be found, at its path or among the backups of it. *)
Kept(p) ==
  \/ original[p] = NoFile
  \/ SameText(fs[p], original[p])
  \/ \E o \in Owner : SameText(dir[BackupPath(p, o)], original[p])

(* Whatever crashes, interrupts and I/O errors happen, within a run and    *)
(* its reruns after a crash the last copy of an original is destroyed in   *)
(* three ways only: remove_stale_backup deletes the backup that a process  *)
(* that died had made; a restore is interrupted half way, after which the  *)
(* pair promises a backup that is gone; or the last test deletes what is   *)
(* left in the directory, and then it fails (special_cleanup 228-230). A   *)
(* last test that passes means that every other original is at its path.   *)
OriginalNeverLost ==
  lastTest # "failed" => \A p \in Path \ (half \cup stale) : Kept(p)

================================================================================
