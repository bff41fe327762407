------------------------------ MODULE BackupStore ------------------------------
(***************************************************************************)
(* What the backup mechanism of osgtest/library/files.py promises to the   *)
(* test modules, without its directory of backup files: for every          *)
(* (path, owner) pair a component may save the present state of the path,  *)
(* that saved state never changes while it is kept, and putting it back    *)
(* leaves at the path exactly what was saved, owner and mode included.     *)
(* "Backups are identified by a (filepath, owner) pair" (files.py:5).      *)
(***************************************************************************)

CONSTANTS
  Path,      \* paths that tests modify
  Owner,     \* components that own backups
  FileState, \* what can be found at a path, absence included
  NotSaved   \* the pair holds no saved state; not a FileState

VARIABLES
  content,   \* [Path -> FileState]: what is at each path
  saved      \* [Path \X Owner -> FileState \cup {NotSaved}]

vars == <<content, saved>>

Pair == Path \X Owner

Init ==
  /\ content \in [Path -> FileState]
  /\ saved = [k \in Pair |-> NotSaved]

(* The test, or a library call on its behalf, changes the file at p. *)
Change(p) ==
  /\ \E f \in FileState : content' = [content EXCEPT ![p] = f]
  /\ UNCHANGED saved

(* The state of p is saved for o, which held no saved state of p. *)
Save(p, o) ==
  /\ saved[<<p, o>>] = NotSaved
  /\ saved' = [saved EXCEPT ![<<p, o>>] = content[p]]
  /\ UNCHANGED content

(* What o saved of p is at p again, and o holds it no longer. *)
PutBack(p, o) ==
  /\ saved[<<p, o>>] # NotSaved
  /\ content' = [content EXCEPT ![p] = saved[<<p, o>>]]
  /\ saved' = [saved EXCEPT ![<<p, o>>] = NotSaved]

(* The process that remembered the pairs is gone. *)
Forget ==
  /\ saved' = [k \in Pair |-> NotSaved]
  /\ UNCHANGED content

Next ==
  \/ \E p \in Path : Change(p)
  \/ \E p \in Path, o \in Owner : Save(p, o) \/ PutBack(p, o)
  \/ Forget

Spec == Init /\ [][Next]_vars

================================================================================
