------------------------------- MODULE FilesProofs -------------------------------
(***************************************************************************)
(* Theorems about modules Files and BackupUse, for any files, owners and   *)
(* faults. First the calls of files.py one by one and the store that they  *)
(* implement; then the use that the test modules make of them, late        *)
(* interrupts included, for paths of different names: without that the     *)
(* properties of BackupUse do not hold (PristineWhenReleased).             *)
(***************************************************************************)

EXTENDS BackupUse, TLAPS

(* The records that calls, files and temporary files are built from have   *)
(* the types that TypeOK gives them.                                       *)
LEMMA TempFileType ==
  ASSUME TypeOK, NEW p \in Path, NEW text \in SUBSET Line,
         NEW own \in Uid, NEW mode \in Mode
  PROVE  TempFile(p, text, own, mode) \in File
BY DEF TypeOK, TempFile, FileState, File

LEMMA WithOwnerType ==
  ASSUME NEW f \in FileState, NEW uid \in Uid
  PROVE  /\ WithOwner(f, uid) \in FileState
         /\ f # NoFile => WithOwner(f, uid) \in File
BY DEF WithOwner, FileState, File

LEMMA BeginType ==
  ASSUME TypeOK, NEW op \in Op, NEW step \in Step, NEW p \in Path,
         NEW o \in Owner, NEW temp \in FileState, Begin(op, step, p, o, temp)
  PROVE  TypeOK'
BY DEF TypeOK, Begin, Call

(* In a call, the pair and its backup path have their types. *)
LEMMA CallType ==
  ASSUME TypeOK, call # NoCall
  PROVE  /\ call \in Call
         /\ call.path \in Path /\ call.owner \in Owner /\ call.temp \in FileState
         /\ call.op \in Op /\ call.step \in Step
         /\ ThisPair \in Pair /\ ThisSlot \in Slot
<1>1. call \in Call
  BY DEF TypeOK
<1>2. call.path \in Path /\ call.owner \in Owner
  BY <1>1 DEF Call
<1>3. call.temp \in FileState /\ call.op \in Op /\ call.step \in Step
  BY <1>1 DEF Call
<1>4. ThisPair \in Pair /\ ThisSlot \in Slot
  BY <1>2 DEF ThisPair, ThisSlot, BackupPath, Pair, Slot
<1> QED BY <1>1, <1>2, <1>3, <1>4

LEMMA GotoType ==
  ASSUME TypeOK, call # NoCall, NEW step \in Step, Goto(step)
  PROVE  call' \in Call
BY CallType DEF Goto, Call

(* A call that is started leaves everything well typed. *)
LEMMA StartType ==
  ASSUME TypeOK, NEW p \in Path, NEW o \in Owner, StartCall(p, o)
  PROVE  TypeOK'
<1> USE DEF Op, Step
<1>1. ASSUME NEW backup \in BOOLEAN, Write(p, o, backup)
      PROVE  TypeOK'
  <2>1. PICK text \in SUBSET Line, attr \in NewAttr :
          Begin("write", IF backup THEN "check" ELSE "rename", p, o,
                TempFile(p, text, attr[1], attr[2]))
    BY <1>1 DEF Write
  <2>2. attr[1] \in Uid /\ attr[2] \in Mode
    BY InputAssumption
  <2>3. TempFile(p, text, attr[1], attr[2]) \in FileState
    BY <2>2, TempFileType DEF FileState
  <2> QED BY <2>1, <2>3, BeginType
<1>2. ASSUME NEW backup \in BOOLEAN, Replace(p, o, backup)
      PROVE  TypeOK'
  <2>1. PICK rewrite \in [Line -> Line] :
          Begin("write", IF backup THEN "check" ELSE "rename", p, o,
                [fs[p] EXCEPT !.text = {rewrite[l] : l \in fs[p].text}])
    BY <1>2 DEF Replace
  <2>2. fs[p] \in File
    BY <1>2 DEF Replace, TypeOK, FileState
  <2>3. [fs[p] EXCEPT !.text = {rewrite[l] : l \in fs[p].text}] \in FileState
    BY <2>2 DEF File, FileState
  <2> QED BY <2>1, <2>3, BeginType
<1>3. ASSUME NEW backup \in BOOLEAN, AppendTo(p, o, backup)
      PROVE  TypeOK'
  BY <1>3, BeginType DEF AppendTo, FileState
<1>4. CASE Preserve(p, o)
  BY <1>4, BeginType DEF Preserve, FileState
<1>5. CASE PreserveAndRemove(p, o)
  BY <1>5, BeginType DEF PreserveAndRemove, FileState
<1>6. CASE Restore(p, o)
  BY <1>6, BeginType DEF Restore, FileState
<1> QED BY <1>1, <1>2, <1>3, <1>4, <1>5, <1>6 DEF StartCall

LEMMA AfterPreserveType ==
  ASSUME TypeOK, call # NoCall, AfterPreserve
  PROVE  call' \in Call \cup {NoCall}
BY GotoType DEF AfterPreserve, Return, Step

(* What the code relies on between two steps of a call. In preserve, after *)
(* the check: the pair is not registered, there is a file, and the backup  *)
(* file is absent or is the complete copy. In restore: the pair is         *)
(* registered, and nothing is at the path until the original is.           *)
PreserveInv ==
  /\ At("copy") \/ At("record") =>
       ~Registered(call.path, call.owner) /\ fs[call.path] # NoFile
  /\ At("copy") => dir[ThisSlot] = NoFile
  /\ At("record") => dir[ThisSlot] = WithOwner(fs[call.path], Root)

RestoreInv ==
  /\ At("unlink") \/ At("move") \/ At("finish") => Registered(call.path, call.owner)
  /\ At("move") => fs[call.path] = NoFile
  /\ At("finish") /\ backups[ThisPair] = Nothing => fs[call.path] = NoFile

CallInv == PreserveInv /\ RestoreInv

(* A step of a call leaves everything well typed. *)
LEMMA CallStepType ==
  ASSUME TypeOK, CallInv, CallStep
  PROVE  TypeOK'
<1> USE DEF At, Raise, Return, CallInv
<1>1. CASE RemoveStale
  <2>1. call' \in Call \cup {NoCall}
    BY <1>1, GotoType DEF RemoveStale, Step
  <2> QED BY <1>1, <2>1, CallType DEF RemoveStale, TypeOK, FileState
<1>2. CASE PreserveCheck
  <2>1. call' \in Call \cup {NoCall}
    BY <1>2, GotoType, AfterPreserveType DEF PreserveCheck, Step
  <2>2. backups' \in [Pair -> Uid \cup {Nothing, Unregistered}]
    BY <1>2, CallType DEF PreserveCheck, TypeOK
  <2> QED BY <1>2, <2>1, <2>2 DEF PreserveCheck, TypeOK
<1>3. CASE PreserveCopy
  <2>1. call' \in Call
    BY <1>3, GotoType DEF PreserveCopy, Step
  <2>2. fs[call.path] \in File
    BY <1>3, CallType DEF PreserveCopy, PreserveInv, TypeOK, FileState
  <2>3. [fs[call.path] EXCEPT !.own = Root] \in FileState
    BY <2>2, RootAssumption DEF File, FileState
  <2> QED BY <1>3, <2>1, <2>3 DEF PreserveCopy, TypeOK
<1>4. CASE PreserveRecord
  <2>1. call' \in Call \cup {NoCall}
    BY <1>4, AfterPreserveType DEF PreserveRecord
  <2>2. fs[call.path] \in File
    BY <1>4, CallType DEF PreserveRecord, PreserveInv, TypeOK, FileState
  <2>3. fs[call.path].own \in Uid
    BY <2>2 DEF File
  <2> QED BY <1>4, <2>1, <2>3 DEF PreserveRecord, TypeOK
<1>5. CASE Rename
  BY <1>5, CallType DEF Rename, TypeOK
<1>6. CASE AppendRead
  <2>1. call # NoCall /\ UNCHANGED <<fs, dir, backups>>
    BY <1>6 DEF AppendRead
  <2>2. PICK line \in Line, force \in BOOLEAN :
          LET old == IF fs[call.path] = NoFile THEN {} ELSE fs[call.path].text
          IN IF ~force /\ line \in old
               THEN call' = NoCall
               ELSE call' = [call EXCEPT !.step = "rename",
                      !.temp = TempFile(call.path, old \cup {line}, Root, WriteMode)]
    BY <1>6 DEF AppendRead
  <2> DEFINE old == IF fs[call.path] = NoFile THEN {} ELSE fs[call.path].text
             new == TempFile(call.path, old \cup {line}, Root, WriteMode)
  <2>3. old \cup {line} \in SUBSET Line
    BY <2>1, CallType DEF TypeOK, FileState, File
  <2>4. new \in FileState
    BY <2>1, <2>3, CallType, RootAssumption, TempFileType DEF FileState
  <2>5. [call EXCEPT !.step = "rename", !.temp = new] \in Call
    BY <2>1, <2>4, CallType DEF Call, Step
  <2> QED BY <2>1, <2>2, <2>5 DEF TypeOK
<1>7. CASE RemovePreserved
  BY <1>7 DEF RemovePreserved, TypeOK, FileState
<1>8. CASE RestoreUnlink
  BY <1>8, GotoType DEF RestoreUnlink, TypeOK, FileState, Step
<1>9. CASE RestoreMove
  <2>1. call' \in Call
    BY <1>9, GotoType DEF RestoreMove, Step
  <2> QED BY <1>9, <2>1, CallType DEF RestoreMove, TypeOK, FileState
<1>10. CASE RestoreFinish
  <2>1. fs' \in [Path -> FileState]
    <3>1. backups[ThisPair] # Nothing => backups[ThisPair] \in Uid
      BY <1>10, CallType DEF RestoreFinish, TypeOK, RestoreInv, Registered, ThisPair
    <3>2. fs[call.path] \in FileState
      BY <1>10, CallType DEF RestoreFinish, TypeOK
    <3> QED BY <1>10, <3>1, <3>2, WithOwnerType DEF RestoreFinish, TypeOK
  <2>2. backups' \in [Pair -> Uid \cup {Nothing, Unregistered}]
    BY <1>10 DEF RestoreFinish, TypeOK
  <2> QED BY <1>10, <2>1, <2>2 DEF RestoreFinish, TypeOK
<1> QED BY <1>1, <1>2, <1>3, <1>4, <1>5, <1>6, <1>7, <1>8, <1>9, <1>10
        DEF CallStep

LEMMA FaultType ==
  ASSUME TypeOK, CallInv, Fault
  PROVE  TypeOK'
<1> USE DEF At, Raise
<1>1. CASE CopyFails
  <2>1. PICK part \in SUBSET fs[call.path].text :
          dir' = [dir EXCEPT ![ThisSlot] =
                    [text |-> part, mode |-> CopyMode, own |-> Root]]
    BY <1>1 DEF CopyFails
  <2>2. fs[call.path] \in File
    BY <1>1, CallType DEF CopyFails, CallInv, PreserveInv, TypeOK, FileState
  <2>3. [text |-> part, mode |-> CopyMode, own |-> Root] \in FileState
    BY <2>2, RootAssumption DEF File, FileState
  <2> QED BY <1>1, <2>1, <2>3 DEF CopyFails, TypeOK
<1>2. CASE MoveFails
  <2>1. PICK part \in SUBSET dir[ThisSlot].text :
          fs' = [fs EXCEPT ![call.path] =
                   [text |-> part, mode |-> CopyMode, own |-> Root]]
    BY <1>2 DEF MoveFails
  <2>2. dir[ThisSlot] \in File
    BY <1>2, CallType DEF MoveFails, TypeOK, FileState
  <2>3. [text |-> part, mode |-> CopyMode, own |-> Root] \in FileState
    BY <2>2, RootAssumption DEF File, FileState
  <2> QED BY <1>2, <2>1, <2>3 DEF MoveFails, TypeOK
<1>3. CASE Interrupt
  BY <1>3 DEF Interrupt, TypeOK
<1>4. CASE Crash
  BY <1>4 DEF Crash, TypeOK
<1> QED BY <1>1, <1>2, <1>3, <1>4 DEF Fault

LEMMA NextType ==
  ASSUME TypeOK, CallInv, [Next]_vars
  PROVE  TypeOK'
<1>1. ASSUME NEW p \in Path, NEW o \in Owner, StartCall(p, o)
      PROVE  TypeOK'
  BY <1>1, StartType
<1>2. CASE CallStep
  BY <1>2, CallStepType
<1>3. CASE Fault
  BY <1>3, FaultType
<1>4. CASE EndOfRun
  <2>1. dir' \in [Slot -> FileState]
    BY <1>4 DEF EndOfRun, TypeOK, FileState
  <2> QED BY <1>4, <2>1 DEF EndOfRun, TypeOK
<1>5. ASSUME NEW p \in Path, OutsideChange(p)
      PROVE  TypeOK'
  BY <1>5 DEF OutsideChange, TypeOK
<1>6. CASE UNCHANGED vars
  BY <1>6 DEF vars, TypeOK
<1> QED BY <1>1, <1>2, <1>3, <1>4, <1>5, <1>6 DEF Next

(* A call begins in the middle of nothing: the invariant speaks only of    *)
(* later steps, and restore has just looked the pair up.                   *)
LEMMA StartCallInv ==
  ASSUME TypeOK, NEW p \in Path, NEW o \in Owner, StartCall(p, o)
  PROVE  CallInv'
<1> USE DEF CallInv, PreserveInv, RestoreInv, At, Begin
<1>1. ASSUME NEW backup \in BOOLEAN, Write(p, o, backup)
      PROVE  CallInv'
  BY <1>1 DEF Write
<1>2. ASSUME NEW backup \in BOOLEAN, Replace(p, o, backup)
      PROVE  CallInv'
  BY <1>2 DEF Replace
<1>3. ASSUME NEW backup \in BOOLEAN, AppendTo(p, o, backup)
      PROVE  CallInv'
  BY <1>3 DEF AppendTo
<1>4. CASE Preserve(p, o)
  BY <1>4 DEF Preserve
<1>5. CASE PreserveAndRemove(p, o)
  BY <1>5 DEF PreserveAndRemove
<1>6. CASE Restore(p, o)
  BY <1>6 DEF Restore, Registered
<1> QED BY <1>1, <1>2, <1>3, <1>4, <1>5, <1>6 DEF StartCall

(* The function that called preserve goes on to a step of its own. *)
LEMMA AfterPreserveStep ==
  ASSUME TypeOK, call # NoCall, AfterPreserve
  PROVE  /\ call' # NoCall => call'.step \in {"rename", "read", "remove"}
         /\ call' # NoCall => call'.path = call.path /\ call'.owner = call.owner
BY CallType DEF AfterPreserve, Goto, Return, Call

(* A step other than the last of a call only moves on to another step. *)
LEMMA GotoStep ==
  ASSUME TypeOK, call # NoCall, NEW step \in Step, Goto(step)
  PROVE  /\ call' # NoCall /\ call'.step = step
         /\ call'.path = call.path /\ call'.owner = call.owner
         /\ ThisPair' = ThisPair /\ ThisSlot' = ThisSlot
<1>1. call \in Call /\ call' \in Call
  BY CallType, GotoType
<1>2. call' # NoCall
  BY <1>1, SentinelAssumption
<1>3. call'.step = step /\ call'.path = call.path /\ call'.owner = call.owner
  BY <1>1 DEF Goto, Call
<1> QED BY <1>2, <1>3 DEF ThisPair, ThisSlot, BackupPath

LEMMA CallStepInv ==
  ASSUME TypeOK, CallInv, CallStep
  PROVE  CallInv'
<1> USE DEF CallInv, PreserveInv, RestoreInv, At, Raise, Return
<1>1. CASE RemoveStale
  BY <1>1, GotoStep DEF RemoveStale, Step
<1>2. CASE PreserveCheck
  <2>1. CASE call' = NoCall
    BY <2>1
  <2>2. CASE call' # NoCall /\ AfterPreserve
    BY <1>2, <2>2, AfterPreserveStep DEF PreserveCheck
  <2>3. CASE Goto("copy") /\ fs[call.path] # NoFile /\ UNCHANGED backups
             /\ ~Registered(call.path, call.owner) /\ dir[ThisSlot] = NoFile
    BY <1>2, <2>3, GotoStep DEF PreserveCheck, Registered, Step
  <2> QED BY <1>2, <2>1, <2>2, <2>3 DEF PreserveCheck
<1>3. CASE PreserveCopy
  <2>1. /\ call' # NoCall /\ call'.step = "record"
        /\ call'.path = call.path /\ call'.owner = call.owner
        /\ ThisSlot' = ThisSlot
    BY <1>3, GotoStep DEF PreserveCopy, Step
  <2>2. dir'[ThisSlot] = WithOwner(fs[call.path], Root)
    BY <1>3, CallType DEF PreserveCopy, TypeOK, WithOwner
  <2> QED BY <1>3, <2>1, <2>2 DEF PreserveCopy, Registered, WithOwner
<1>4. CASE PreserveRecord
  BY <1>4, AfterPreserveStep DEF PreserveRecord
<1>5. CASE Rename
  BY <1>5 DEF Rename
<1>6. CASE AppendRead
  <2>1. call' # NoCall => call'.step = "rename"
    BY <1>6, CallType DEF AppendRead, Call
  <2> QED BY <2>1
<1>7. CASE RemovePreserved
  BY <1>7 DEF RemovePreserved
<1>8. CASE RestoreUnlink
  <2>1. fs'[call.path] = NoFile
    BY <1>8, CallType DEF RestoreUnlink, TypeOK
  <2> QED BY <1>8, <2>1, GotoStep DEF RestoreUnlink, Step, Registered
<1>9. CASE RestoreMove
  BY <1>9, GotoStep DEF RestoreMove, Step, Registered
<1>10. CASE RestoreFinish
  BY <1>10 DEF RestoreFinish
<1> QED BY <1>1, <1>2, <1>3, <1>4, <1>5, <1>6, <1>7, <1>8, <1>9, <1>10
        DEF CallStep

LEMMA NextCallInv ==
  ASSUME TypeOK, CallInv, [Next]_vars
  PROVE  CallInv'
<1> USE DEF CallInv, PreserveInv, RestoreInv, At
<1>1. ASSUME NEW p \in Path, NEW o \in Owner, StartCall(p, o)
      PROVE  CallInv'
  BY <1>1, StartCallInv
<1>2. CASE CallStep
  BY <1>2, CallStepInv
<1>3. CASE Fault
  BY <1>3 DEF Fault, CopyFails, MoveFails, Interrupt, Crash, Raise
<1>4. CASE EndOfRun
  BY <1>4 DEF EndOfRun
<1>5. ASSUME NEW p \in Path, OutsideChange(p)
      PROVE  CallInv'
  BY <1>5 DEF OutsideChange
<1>6. CASE UNCHANGED vars
  BY <1>6 DEF vars, ThisSlot, ThisPair, BackupPath, Registered
<1> QED BY <1>1, <1>2, <1>3, <1>4, <1>5, <1>6 DEF Next

(* Every reachable state is well typed, and a call in progress finds what  *)
(* its earlier steps established, whatever faults happen.                  *)
THEOREM TypeCorrect == Spec => [](TypeOK /\ CallInv)
<1>1. Init => TypeOK /\ CallInv
  BY InputAssumption DEF Init, TypeOK, FileState, CallInv, PreserveInv, RestoreInv,
     At
<1>2. TypeOK /\ CallInv /\ [Next]_vars => (TypeOK /\ CallInv)'
  BY NextType, NextCallInv
<1> QED BY <1>1, <1>2, PTL DEF Spec

--------------------------------------------------------------------------------

(* A file in the backup directory is never overwritten: preserve copies    *)
(* only to a backup path that it found absent. No assumption on the faults *)
(* or on the names of files is needed.                                     *)
THEOREM NeverOverwritten == Spec => BackupNeverOverwritten
<1> DEFINE Undisturbed == \A s \in Slot : dir[s] # NoFile => dir'[s] \in {dir[s], NoFile}
<1>1. TypeOK /\ CallInv /\ [Next]_vars => [Undisturbed]_vars
  <2> SUFFICES ASSUME TypeOK, CallInv, Next
               PROVE  Undisturbed
    OBVIOUS
  <2> USE DEF Begin, At
  <2>1. ASSUME NEW p \in Path, NEW o \in Owner, StartCall(p, o)
        PROVE  Undisturbed
    BY <2>1 DEF StartCall, Write, Replace, AppendTo, Preserve, PreserveAndRemove,
       Restore
  <2>2. CASE CallStep
    <3>1. CASE RemoveStale
      BY <3>1, CallType DEF RemoveStale, TypeOK
    <3>2. CASE PreserveCopy
      BY <3>2, CallType DEF PreserveCopy, CallInv, PreserveInv, TypeOK
    <3>3. CASE RestoreMove
      BY <3>3, CallType DEF RestoreMove, TypeOK
    <3>4. CASE UNCHANGED dir
      BY <3>4
    <3> QED BY <2>2, <3>1, <3>2, <3>3, <3>4 DEF CallStep, PreserveCheck,
          PreserveRecord, Rename, AppendRead, RemovePreserved, RestoreUnlink,
          RestoreFinish
  <2>3. CASE Fault
    <3>1. CASE CopyFails
      BY <3>1, CallType DEF CopyFails, CallInv, PreserveInv, TypeOK
    <3> QED BY <2>3, <3>1 DEF Fault, MoveFails, Interrupt, Crash
  <2>4. CASE EndOfRun
    BY <2>4 DEF EndOfRun
  <2>5. ASSUME NEW p \in Path, OutsideChange(p)
        PROVE  Undisturbed
    BY <2>5 DEF OutsideChange
  <2> QED BY <2>1, <2>2, <2>3, <2>4, <2>5 DEF Next
<1> QED BY <1>1, TypeCorrect, PTL DEF BackupNeverOverwritten, Spec

--------------------------------------------------------------------------------
(* From here on, the paths have different names, and no KeyboardInterrupt  *)
(* comes between the move of a restore and its end.                        *)

(* Pairs with different names have different backup files. *)
LEMMA SlotsDistinct ==
  ASSUME BasenamesDistinct, NEW p \in Path, NEW o \in Owner,
         NEW q \in Path, NEW w \in Owner, <<p, o>> # <<q, w>>
  PROVE  BackupPath(p, o) # BackupPath(q, w)
BY DEF BasenamesDistinct, BackupPath

LEMMA BackupPathType ==
  ASSUME NEW p \in Path, NEW o \in Owner
  PROVE  BackupPath(p, o) \in Slot /\ <<p, o>> \in Pair
BY DEF BackupPath, Slot, Pair

(* The step leaves every pair as it is registered, and the original of     *)
(* every pair that has one.                                                *)
SavedSame ==
  \A p \in Path, o \in Owner :
    /\ backups'[<<p, o>>] = backups[<<p, o>>]
    /\ HasBackup(p, o) => BackupNow(p, o)' = BackupNow(p, o)

LEMMA SavedSameSaved ==
  ASSUME SavedSame
  PROVE  Saved' = Saved
<1>1. ASSUME NEW p \in Path, NEW o \in Owner
      PROVE  SavedState(p, o)' = SavedState(p, o)
  BY DEF SavedSame, SavedState, HasBackup
<1>2. \A k \in Pair : SavedState(k[1], k[2])' = SavedState(k[1], k[2])
  BY <1>1 DEF Pair
<1> QED BY <1>2 DEF Saved

(* What is saved for p and o is the only thing that changes. *)
LEMMA SavedOther ==
  ASSUME NEW p \in Path, NEW o \in Owner,
         \A q \in Path, w \in Owner :
           <<q, w>> # <<p, o>> => SavedState(q, w)' = SavedState(q, w)
  PROVE  Saved' = [Saved EXCEPT ![<<p, o>>] = SavedState(p, o)']
<1>1. \A k \in Pair : /\ k = <<k[1], k[2]>> /\ k[1] \in Path /\ k[2] \in Owner
  BY DEF Pair
<1>2. \A k \in Pair : k # <<p, o>> => SavedState(k[1], k[2])' = SavedState(k[1], k[2])
  BY <1>1
<1> QED BY <1>1, <1>2 DEF Saved

(* The invariant of the registry and the directory. *)
Consistent == TypeOK /\ CallInv /\ RegistryMatchesDirectory

LEMMA RegistryKept ==
  ASSUME RegistryMatchesDirectory, SavedSame
  PROVE  RegistryMatchesDirectory'
BY DEF RegistryMatchesDirectory, SavedSame, HasBackup

(* A step that changes neither the directory nor the registry, and neither *)
(* begins nor ends at the last step of a restore, changes nothing saved.   *)
LEMMA QuietStep ==
  ASSUME UNCHANGED <<dir, backups>>, ~At("finish"), ~At("finish")'
  PROVE  SavedSame
BY DEF SavedSame, BackupNow, RestoreAt, HasBackup

LEMMA StartQuiet ==
  ASSUME TypeOK, NEW p \in Path, NEW o \in Owner, StartCall(p, o)
  PROVE  SavedSame /\ UNCHANGED fs
<1>1. ASSUME NEW op \in Op, NEW step \in Step \ {"finish"}, NEW temp,
             Begin(op, step, p, o, temp)
      PROVE  SavedSame /\ UNCHANGED fs
  <2>1. ~At("finish") /\ ~At("finish")'
    BY <1>1 DEF At, Begin
  <2> QED BY <1>1, <2>1, QuietStep DEF Begin
<1> QED BY <1>1 DEF StartCall, Write, Replace, AppendTo, Preserve,
            PreserveAndRemove, Restore, Op, Step

(* The steps of a call that only change files or move on. *)
LEMMA StepsThatSaveNothing ==
  ASSUME BasenamesDistinct, TypeOK, CallInv,
         RemoveStale \/ PreserveCopy \/ Rename \/ AppendRead \/ RemovePreserved
           \/ RestoreUnlink \/ RestoreMove \/ CopyFails \/ MoveFails
  PROVE  SavedSame
<1> USE DEF Raise, Return
<1>1. CASE RemoveStale
  <2>1. /\ ~Registered(call.path, call.owner) \/ UNCHANGED dir
        /\ call # NoCall /\ call.path \in Path /\ call.owner \in Owner
    BY <1>1, CallType DEF RemoveStale, At
  <2>2. ~At("finish") /\ ~At("finish")'
    BY <1>1, GotoStep DEF RemoveStale, At, Step
  <2>3. ASSUME NEW p \in Path, NEW o \in Owner, HasBackup(p, o)
        PROVE  dir'[BackupPath(p, o)] = dir[BackupPath(p, o)]
    <3>1. <<p, o>> # <<call.path, call.owner>> \/ UNCHANGED dir
      BY <2>1, <2>3 DEF HasBackup, Registered
    <3>2. BackupPath(p, o) # ThisSlot \/ UNCHANGED dir
      BY <2>1, <3>1, SlotsDistinct DEF ThisSlot
    <3> QED BY <1>1, <3>2, BackupPathType DEF RemoveStale, TypeOK
  <2> QED BY <1>1, <2>2, <2>3 DEF RemoveStale, SavedSame, BackupNow, RestoreAt
<1>2. CASE PreserveCopy \/ CopyFails
  <2>1. /\ ~Registered(call.path, call.owner)
        /\ call # NoCall /\ call.path \in Path /\ call.owner \in Owner
    BY <1>2, CallType DEF PreserveCopy, CopyFails, At, CallInv, PreserveInv
  <2>2. ~At("finish") /\ ~At("finish")'
    BY <1>2, GotoStep DEF PreserveCopy, CopyFails, At, Step
  <2>3. ASSUME NEW p \in Path, NEW o \in Owner, HasBackup(p, o)
        PROVE  dir'[BackupPath(p, o)] = dir[BackupPath(p, o)]
    <3>1. <<p, o>> # <<call.path, call.owner>>
      BY <2>1, <2>3 DEF HasBackup, Registered
    <3>2. BackupPath(p, o) # ThisSlot
      BY <2>1, <3>1, SlotsDistinct DEF ThisSlot
    <3> QED BY <1>2, <3>2, BackupPathType DEF PreserveCopy, CopyFails, TypeOK
  <2> QED BY <1>2, <2>2, <2>3 DEF PreserveCopy, CopyFails, SavedSame, BackupNow,
  RestoreAt
<1>3. CASE Rename \/ RemovePreserved \/ MoveFails
  BY <1>3, QuietStep DEF Rename, RemovePreserved, MoveFails, At
<1>4. CASE AppendRead
  <2>1. call' # NoCall => call'.step = "rename"
    BY <1>4, CallType DEF AppendRead, At, Call
  <2> QED BY <1>4, <2>1, QuietStep DEF AppendRead, At
<1>5. CASE RestoreUnlink
  <2>1. ~At("finish") /\ ~At("finish")'
    BY <1>5, GotoStep DEF RestoreUnlink, At, Step
  <2> QED BY <1>5, <2>1, QuietStep DEF RestoreUnlink
<1>6. CASE RestoreMove
  <2>1. /\ call # NoCall /\ call.path \in Path /\ call.owner \in Owner
        /\ ~At("finish") /\ At("finish")'
        /\ call'.path = call.path /\ call'.owner = call.owner
    BY <1>6, CallType, GotoStep DEF RestoreMove, At, Step
  <2>2. ASSUME NEW p \in Path, NEW o \in Owner, HasBackup(p, o)
        PROVE  BackupNow(p, o)' = BackupNow(p, o)
    <3>1. CASE p = call.path /\ o = call.owner
      <4>1. backups[ThisPair] # Nothing
        BY <2>2, <3>1 DEF HasBackup, ThisPair
      <4>2. fs'[call.path] = dir[ThisSlot]
        BY <1>6, <2>1, <4>1 DEF RestoreMove, TypeOK, CallInv, RestoreInv
      <4> QED BY <2>1, <3>1, <4>2 DEF BackupNow, RestoreAt, ThisSlot
    <3>2. CASE <<p, o>> # <<call.path, call.owner>>
      <4>1. BackupPath(p, o) # ThisSlot
        BY <2>1, <3>2, SlotsDistinct DEF ThisSlot
      <4>2. dir'[BackupPath(p, o)] = dir[BackupPath(p, o)]
        BY <1>6, <4>1, BackupPathType DEF RestoreMove, TypeOK
      <4> QED BY <2>1, <3>2, <4>2 DEF BackupNow, RestoreAt
    <3> QED BY <3>1, <3>2
  <2> QED BY <1>6, <2>2 DEF RestoreMove, SavedSame
<1> QED BY <1>1, <1>2, <1>3, <1>4, <1>5, <1>6

(* A step that saves nothing and touches at most one file is a Change of   *)
(* the abstract store.                                                     *)
LEMMA ChangeStep ==
  ASSUME TypeOK, TypeOK', SavedSame, NEW p \in Path,
         \/ UNCHANGED fs
         \/ \E f : fs' = [fs EXCEPT ![p] = f]
  PROVE  Store!Change(p)
<1>1. fs'[p] \in FileState /\ fs' = [fs EXCEPT ![p] = fs'[p]]
  BY DEF TypeOK
<1> QED BY <1>1, SavedSameSaved DEF Store!Change

(* What was not saved is saved, and it is the state of the path. *)
LEMMA SaveStep ==
  ASSUME BasenamesDistinct, TypeOK, CallInv, TypeOK',
         PreserveCheck \/ PreserveRecord,
         backups' # backups
  PROVE  /\ Store!Save(call.path, call.owner)
         /\ RegistryMatchesDirectory => RegistryMatchesDirectory'
<1>1. PICK p \in Path, o \in Owner :
        /\ p = call.path /\ o = call.owner
        /\ call # NoCall /\ ThisPair \in Pair /\ ThisPair = <<p, o>>
  BY CallType DEF PreserveCheck, PreserveRecord, At, ThisPair
<1>2. /\ ~Registered(p, o) /\ UNCHANGED <<fs, dir>>
      /\ AfterPreserve
      /\ ~At("finish")
      /\ \E u : backups' = [backups EXCEPT ![<<p, o>>] = u]
  BY <1>1 DEF PreserveCheck, PreserveRecord, CallInv, PreserveInv, At
<1>3. ~At("finish")'
  BY <1>1, <1>2, AfterPreserveStep DEF At
<1>4. ASSUME NEW q \in Path, NEW w \in Owner, <<q, w>> # <<p, o>>
      PROVE  /\ SavedState(q, w)' = SavedState(q, w)
             /\ RegistryMatchesDirectory /\ HasBackup(q, w)' => BackupNow(q, w)' # NoFile
  <2>1. backups'[<<q, w>>] = backups[<<q, w>>]
    BY <1>1, <1>2, <1>4, BackupPathType DEF TypeOK
  <2>2. BackupNow(q, w)' = BackupNow(q, w)
    BY <1>1, <1>2, <1>3 DEF BackupNow, RestoreAt
  <2> QED BY <2>1, <2>2 DEF SavedState, HasBackup, RegistryMatchesDirectory
<1>5. BackupNow(p, o)' = dir[ThisSlot]
  BY <1>1, <1>2, <1>3 DEF BackupNow, RestoreAt, ThisSlot
<1>6. /\ SavedState(p, o)' = fs[p]
      /\ HasBackup(p, o)' => BackupNow(p, o)' # NoFile
  <2>1. CASE PreserveCheck
    <3>1. fs[p] = NoFile /\ backups'[<<p, o>>] = Nothing
      BY <1>1, <2>1 DEF PreserveCheck, TypeOK
    <3> QED BY <3>1, SentinelAssumption DEF SavedState, HasBackup
  <2>2. CASE PreserveRecord
    <3>1. backups'[<<p, o>>] = fs[p].own
      BY <1>1, <2>2 DEF PreserveRecord, TypeOK
    <3>2. fs[p] \in File /\ dir[ThisSlot] = WithOwner(fs[p], Root)
      BY <1>1, <2>2 DEF PreserveRecord, At, CallInv, PreserveInv, TypeOK, FileState
    <3>3. fs[p].own \in Uid /\ fs[p].own # Unregistered /\ fs[p].own # Nothing
      BY <3>2, SentinelAssumption DEF File
    <3>4. /\ dir[ThisSlot] # NoFile
          /\ WithOwner(dir[ThisSlot], fs[p].own) = fs[p]
      BY <3>2, SentinelAssumption, RootAssumption DEF WithOwner, File
    <3> QED BY <1>5, <3>1, <3>3, <3>4 DEF SavedState
  <2> QED BY <2>1, <2>2
<1>7. Saved[<<p, o>>] = Unregistered
  BY <1>1, <1>2 DEF Saved, SavedState, Registered, Pair
<1>8. Saved' = [Saved EXCEPT ![<<p, o>>] = fs[p]]
  BY <1>1, <1>4, <1>6, SavedOther
<1>9. Store!Save(p, o)
  BY <1>1, <1>2, <1>7, <1>8 DEF Store!Save
<1>10. RegistryMatchesDirectory => RegistryMatchesDirectory'
  BY <1>4, <1>6 DEF RegistryMatchesDirectory
<1> QED BY <1>1, <1>9, <1>10

(* The last step of restore leaves at the path what was saved. *)
LEMMA PutBackStep ==
  ASSUME BasenamesDistinct, TypeOK, CallInv, TypeOK', RestoreFinish
  PROVE  /\ Store!PutBack(call.path, call.owner)
         /\ RegistryMatchesDirectory => RegistryMatchesDirectory'
<1>1. PICK p \in Path, o \in Owner :
        /\ p = call.path /\ o = call.owner
        /\ call # NoCall /\ ThisPair \in Pair /\ ThisPair = <<p, o>>
  BY CallType DEF RestoreFinish, At, ThisPair
<1>2. Registered(p, o) /\ UNCHANGED dir /\ ~At("finish")' /\ RestoreAt("finish", p, o)
  BY <1>1 DEF RestoreFinish, CallInv, RestoreInv, At, Return, RestoreAt
<1>3. ASSUME NEW q \in Path, NEW w \in Owner, <<q, w>> # <<p, o>>
      PROVE  /\ SavedState(q, w)' = SavedState(q, w)
             /\ RegistryMatchesDirectory /\ HasBackup(q, w)' => BackupNow(q, w)' # NoFile
  <2>1. backups'[<<q, w>>] = backups[<<q, w>>]
    BY <1>1, <1>3, BackupPathType DEF RestoreFinish, TypeOK
  <2>2. BackupNow(q, w)' = BackupNow(q, w)
    BY <1>1, <1>2, <1>3 DEF BackupNow, RestoreAt
  <2> QED BY <2>1, <2>2 DEF SavedState, HasBackup, RegistryMatchesDirectory
<1>4. backups'[<<p, o>>] = Unregistered
  BY <1>1 DEF RestoreFinish, TypeOK
<1>5. SavedState(p, o)' = Unregistered
  BY <1>4 DEF SavedState
<1>6. fs' = [fs EXCEPT ![p] = SavedState(p, o)]
  <2>1. CASE backups[<<p, o>>] = Nothing
    <3>1. fs' = fs /\ fs[p] = NoFile
      BY <1>1, <2>1 DEF RestoreFinish, CallInv, RestoreInv
    <3> QED BY <1>2, <2>1, <3>1 DEF SavedState, Registered, TypeOK
  <2>2. CASE backups[<<p, o>>] # Nothing
    BY <1>1, <1>2, <2>2 DEF RestoreFinish, SavedState, Registered, BackupNow
  <2> QED BY <2>1, <2>2
<1>7. Saved[<<p, o>>] = SavedState(p, o) /\ SavedState(p, o) # Unregistered
  <2>1. Saved[<<p, o>>] = SavedState(p, o)
    BY <1>1 DEF Saved, Pair
  <2>2. fs'[p] = SavedState(p, o) /\ fs'[p] \in FileState
    BY <1>1, <1>6 DEF TypeOK
  <2> QED BY <2>1, <2>2, SentinelAssumption
<1>8. Saved' = [Saved EXCEPT ![<<p, o>>] = Unregistered]
  BY <1>1, <1>3, <1>5, SavedOther
<1>9. Store!PutBack(p, o)
  BY <1>1, <1>6, <1>7, <1>8 DEF Store!PutBack
<1>10. RegistryMatchesDirectory => RegistryMatchesDirectory'
  BY <1>3, <1>4 DEF RegistryMatchesDirectory, HasBackup
<1> QED BY <1>1, <1>9, <1>10

(* A registry that is empty has saved nothing. *)
LEMMA ForgetStep ==
  ASSUME Crash \/ EndOfRun
  PROVE  Store!Forget /\ RegistryMatchesDirectory'
<1>1. UNCHANGED fs /\ backups' = [k \in Pair |-> Unregistered]
  BY DEF Crash, EndOfRun
<1>2. \A p \in Path, o \in Owner :
        SavedState(p, o)' = Unregistered /\ ~HasBackup(p, o)'
  BY <1>1, BackupPathType DEF SavedState, HasBackup
<1>3. Saved' = [k \in Pair |-> Unregistered]
  BY <1>2 DEF Saved, Pair
<1> QED BY <1>1, <1>2, <1>3 DEF Store!Forget, Store!Pair, Pair, RegistryMatchesDirectory

(* Every step of the code keeps the registry and the directory consistent  *)
(* and is a step of the abstract store.                                    *)
LEMMA StoreStep ==
  ASSUME BasenamesDistinct, "late interrupt" \notin Faults, Consistent, [Next]_vars
  PROVE  RegistryMatchesDirectory' /\ [Store!Next]_<<fs, Saved>>
<1> USE DEF Consistent
<1>1. TypeOK'
  BY NextType
<1>2. ASSUME NEW p \in Path, SavedSame,
             UNCHANGED fs \/ \E f : fs' = [fs EXCEPT ![p] = f]
      PROVE  RegistryMatchesDirectory' /\ Store!Next
  BY <1>1, <1>2, RegistryKept, ChangeStep DEF Store!Next
<1>3. ASSUME NEW p \in Path, NEW o \in Owner, StartCall(p, o)
      PROVE  RegistryMatchesDirectory' /\ Store!Next
  BY <1>2, <1>3, StartQuiet
<1>4. CASE RemoveStale \/ PreserveCopy \/ Rename \/ AppendRead \/ RemovePreserved
             \/ RestoreUnlink \/ RestoreMove \/ CopyFails \/ MoveFails
  <2>1. call.path \in Path
    BY <1>4, CallType DEF RemoveStale, PreserveCopy, Rename, AppendRead,
       RemovePreserved, RestoreUnlink, RestoreMove, CopyFails, MoveFails, At
  <2>2. UNCHANGED fs \/ \E f : fs' = [fs EXCEPT ![call.path] = f]
    BY <1>4 DEF RemoveStale, PreserveCopy, Rename, AppendRead,
       RemovePreserved, RestoreUnlink, RestoreMove, CopyFails, MoveFails
  <2> QED BY <1>2, <1>4, <2>1, <2>2, StepsThatSaveNothing
<1>5. CASE PreserveCheck \/ PreserveRecord
  <2>1. call.path \in Path /\ call.owner \in Owner
    BY <1>5, CallType DEF PreserveCheck, PreserveRecord, At
  <2>2. CASE backups' # backups
    BY <1>1, <1>5, <2>1, <2>2, SaveStep DEF Store!Next
  <2>3. CASE backups' = backups
    <3>1. UNCHANGED <<fs, dir>> /\ ~At("finish")
      BY <1>5 DEF PreserveCheck, PreserveRecord, At
    <3>2. ~At("finish")'
      BY <1>5, GotoStep, AfterPreserveStep
      DEF PreserveCheck, PreserveRecord, At, Raise, Step
    <3>3. SavedSame
      BY <2>3, <3>1, <3>2, QuietStep
    <3> QED BY <1>2, <2>1, <3>1, <3>3
  <2> QED BY <2>2, <2>3
<1>6. CASE RestoreFinish
  <2>1. call.path \in Path /\ call.owner \in Owner
    BY <1>6, CallType DEF RestoreFinish, At
  <2> QED BY <1>1, <1>6, <2>1, PutBackStep DEF Store!Next
<1>7. CASE Crash \/ EndOfRun
  BY <1>7, ForgetStep DEF Store!Next
<1>8. ASSUME NEW p \in Path, OutsideChange(p)
      PROVE  RegistryMatchesDirectory' /\ Store!Next
  <2>1. ~At("finish") /\ ~At("finish")'
    BY <1>8 DEF OutsideChange, At
  <2> QED BY <1>2, <1>8, <2>1, QuietStep DEF OutsideChange
<1>9. CASE Interrupt
  <2>1. ~At("finish") /\ ~At("finish")' /\ UNCHANGED <<fs, dir, backups>>
    BY <1>9 DEF Interrupt, At, Raise
  <2>2. SavedSame
    BY <2>1, QuietStep
  <2>3. call.path \in Path
    BY <1>9, CallType DEF Interrupt
  <2> QED BY <1>2, <2>1, <2>2, <2>3
<1>10. CASE UNCHANGED vars
  <2>1. SavedSame
    BY <1>10 DEF vars, SavedSame, BackupNow, RestoreAt, At
  <2> QED BY <1>10, <2>1, RegistryKept, SavedSameSaved DEF vars
<1> QED BY <1>3, <1>4, <1>5, <1>6, <1>7, <1>8, <1>9, <1>10
        DEF Next, CallStep, Fault

(* Under the two assumptions, every registered pair with a backup has its  *)
(* original to restore.                                                    *)
THEOREM RegistryConsistent ==
  ASSUME BasenamesDistinct, "late interrupt" \notin Faults
  PROVE  Spec => []RegistryMatchesDirectory
<1>1. Init => RegistryMatchesDirectory
  BY BackupPathType DEF Init, RegistryMatchesDirectory, HasBackup
<1>2. TypeOK /\ CallInv /\ RegistryMatchesDirectory /\ [Next]_vars
        => RegistryMatchesDirectory'
  BY StoreStep DEF Consistent
<1> QED BY <1>1, <1>2, TypeCorrect, PTL DEF Spec

(* Under the same assumptions the mechanism implements the abstract store: *)
(* what restore leaves at a path is what preserve found there.             *)
THEOREM ImplementsStore ==
  ASSUME BasenamesDistinct, "late interrupt" \notin Faults
  PROVE  Spec => StoreSpec
<1>1. Init => Store!Init
  <2> SUFFICES ASSUME Init
               PROVE  Store!Init
    OBVIOUS
  <2>1. fs \in [Path -> FileState]
    BY InputAssumption DEF Init, FileState
  <2>2. \A p \in Path, o \in Owner : SavedState(p, o) = Unregistered
    BY BackupPathType DEF Init, SavedState
  <2>3. Saved = [k \in Pair |-> Unregistered]
    BY <2>2 DEF Saved, Pair
  <2> QED BY <2>1, <2>3 DEF Store!Init, Store!Pair, Pair
<1>2. TypeOK /\ CallInv /\ RegistryMatchesDirectory /\ [Next]_vars
        => [Store!Next]_<<fs, Saved>>
  BY StoreStep DEF Consistent
<1> QED BY <1>1, <1>2, TypeCorrect, RegistryConsistent, PTL
        DEF Spec, StoreSpec, Store!Spec, Store!vars

--------------------------------------------------------------------------------
(* The use of the calls by the test modules.                               *)

(* The first to hold a path holds it still, and is one owner. *)
OuterInv ==
  \A p \in Path :
    /\ outer[p] \subseteq Holders(p)
    /\ Holders(p) # {} => \E o \in Owner : outer[p] = {o}

(* A call changes a file after its pair was registered, and a restore that *)
(* is under way is not of the first holder unless no other is left.        *)
UseInv ==
  /\ At("rename") \/ At("read") \/ At("remove") => Registered(call.path, call.owner)
  /\ At("unlink") \/ At("move") \/ At("finish") =>
       (call.owner \in outer[call.path] => Holders(call.path) = {call.owner})

(* What the first holder saved is the original, or nobody holds it and it  *)
(* is there.                                                               *)
PristineInv ==
  lastTest # "failed" =>
    \A p \in Path \ (half \cup crashed) :
      /\ Pristine(p)
      /\ \A o \in outer[p] : SavedState(p, o) = original[p]

(* A backup that no registered pair stands for, and that no call is about  *)
(* to register.                                                            *)
OrphanOf(p, o) ==
  /\ ~Registered(p, o) /\ ~RestoreAt("record", p, o)
  /\ SameText(dir[BackupPath(p, o)], original[p])
Orphan(p) == \E o \in Owner : OrphanOf(p, o)

AtPath(p) == Holders(p) = {} /\ SameText(fs[p], original[p])
AtFirst(p) == \E o \in outer[p] : SameText(SavedState(p, o), original[p])

KeptInv ==
  lastTest # "failed" =>
    \A p \in Path \ (half \cup stale) :
      original[p] = NoFile \/ AtPath(p) \/ AtFirst(p) \/ Orphan(p)

(* After the last test of a run nothing is held, until the next run. *)
OverInv ==
  lastTest # "none" =>
    call = NoCall /\ \A p \in Path : Holders(p) = {} /\ outer[p] = {}

Base == UseTypeOK /\ CallInv /\ OuterInv /\ UseInv /\ OverInv

--------------------------------------------------------------------------------
(* What a step does, in the terms of BackupStore.                          *)

LEMMA UseCallIsCall ==
  ASSUME NEW p \in Path, NEW o \in Owner, UseCall(p, o)
  PROVE  StartCall(p, o)
BY DEF UseCall, StartCall

LEMMA UseStepIsStep ==
  ASSUME [UseNext]_useVars
  PROVE  [Next]_vars
BY UseCallIsCall DEF UseNext, useVars, vars, Next, TestStep, UseCrash, Fault, LastTest, NextRun

(* A pair is registered when something is saved for it. *)
LEMMA RegisteredSavedOf ==
  ASSUME TypeOK, NEW p \in Path, NEW o \in Owner
  PROVE  /\ SavedState(p, o) \in FileState \cup {Unregistered}
         /\ Registered(p, o) <=> SavedState(p, o) # Unregistered
         /\ Saved[<<p, o>>] = SavedState(p, o)
<1>1. <<p, o>> \in Pair /\ BackupPath(p, o) \in Slot
  BY BackupPathType
<1>2. BackupNow(p, o) \in FileState
  BY <1>1 DEF BackupNow, TypeOK
<1>3. backups[<<p, o>>] \in Uid \cup {Nothing, Unregistered}
  BY <1>1 DEF TypeOK
<1>4. CASE backups[<<p, o>>] = Unregistered
  BY <1>1, <1>4 DEF SavedState, Registered, Saved
<1>5. CASE backups[<<p, o>>] = Nothing
  BY <1>1, <1>5, SentinelAssumption DEF SavedState, Registered, Saved, FileState
<1>6. CASE backups[<<p, o>>] \in Uid
  <2>1. WithOwner(BackupNow(p, o), backups[<<p, o>>]) \in FileState
    BY <1>2, <1>6, WithOwnerType
  <2> QED BY <1>1, <1>6, <2>1, SentinelAssumption DEF SavedState, Registered, Saved
<1> QED BY <1>3, <1>4, <1>5, <1>6

SavedFacts ==
  \A p \in Path, o \in Owner :
    /\ SavedState(p, o) \in FileState \cup {Unregistered}
    /\ Registered(p, o) <=> SavedState(p, o) # Unregistered
    /\ Saved[<<p, o>>] = SavedState(p, o)

LEMMA RegisteredSaved ==
  /\ TypeOK => SavedFacts
  /\ TypeOK' => SavedFacts'
<1>1. TypeOK => SavedFacts
  BY RegisteredSavedOf DEF SavedFacts
<1> QED BY <1>1, PTL

(* A saved text comes from the backup, and keeps it. *)
LEMMA SavedText ==
  ASSUME TypeOK, NEW p \in Path, NEW o \in Owner, NEW f \in FileState,
         Registered(p, o), SameText(SavedState(p, o), f)
  PROVE  SameText(BackupNow(p, o), f)
<1>1. <<p, o>> \in Pair /\ BackupPath(p, o) \in Slot
  BY BackupPathType
<1>2. BackupNow(p, o) \in FileState
  BY <1>1 DEF BackupNow, TypeOK
<1>3. SavedState(p, o) = WithOwner(BackupNow(p, o), backups[<<p, o>>])
  BY DEF SavedState, Registered, SameText
<1> QED BY <1>2, <1>3 DEF SameText, WithOwner, FileState, File

(* The three ways in which a step of the tests saves, puts back or changes. *)
Touches == UNCHANGED fs \/ \E p \in Path : Holders(p) # {} /\ \E f : fs' = [fs EXCEPT ![p] = f]
SavesNothing == SavedSame /\ Touches
Saves == \E p \in Path, o \in Owner : Store!Save(p, o)
PutsBack ==
  \E p \in Path, o \in Owner :
    Store!PutBack(p, o) /\ (o \in outer[p] => Holders(p) = {o})

(* A restore that is interrupted half way spoils its own pair only. *)
HalfRestores(p) ==
  /\ p \in half' /\ UNCHANGED <<fs, backups>>
  /\ \A q \in Path \ {p}, o \in Owner : SavedState(q, o)' = SavedState(q, o)

LEMMA CallHolds ==
  ASSUME TypeOK, call # NoCall, Registered(call.path, call.owner)
  PROVE  call.path \in Path /\ Holders(call.path) # {}
BY CallType DEF Holders

LEMMA CallStepEffect ==
  ASSUME BasenamesDistinct, Base, TypeOK', CallStep \/ CopyFails \/ MoveFails
  PROVE  SavesNothing \/ Saves \/ PutsBack
<1> USE DEF Base, UseTypeOK
<1>1. CASE RemoveStale \/ PreserveCopy \/ AppendRead \/ CopyFails
  <2>1. SavedSame
    BY <1>1, StepsThatSaveNothing
  <2>2. UNCHANGED fs
    BY <1>1 DEF RemoveStale, PreserveCopy, AppendRead, CopyFails
  <2> QED BY <2>1, <2>2 DEF SavesNothing, Touches
<1>2. CASE Rename \/ RemovePreserved \/ RestoreUnlink \/ RestoreMove \/ MoveFails
  <2>1. SavedSame
    BY <1>2, StepsThatSaveNothing
  <2>2. call # NoCall /\ Registered(call.path, call.owner)
    BY <1>2 DEF Rename, RemovePreserved, RestoreUnlink, RestoreMove, MoveFails, UseInv,
       CallInv, RestoreInv, At
  <2>3. call.path \in Path /\ Holders(call.path) # {}
    BY <2>2, CallHolds
  <2>4. UNCHANGED fs \/ \E f : fs' = [fs EXCEPT ![call.path] = f]
    BY <1>2 DEF Rename, RemovePreserved, RestoreUnlink, RestoreMove, MoveFails
  <2> QED BY <2>1, <2>3, <2>4 DEF SavesNothing, Touches
<1>3. CASE PreserveCheck \/ PreserveRecord
  <2>1. call.path \in Path /\ call.owner \in Owner
    BY <1>3, CallType DEF PreserveCheck, PreserveRecord, At
  <2>2. CASE backups' # backups
    BY <1>3, <2>1, <2>2, SaveStep DEF Saves
  <2>3. CASE backups' = backups
    <3>1. UNCHANGED <<fs, dir>> /\ ~At("finish")
      BY <1>3 DEF PreserveCheck, PreserveRecord, At
    <3>2. ~At("finish")'
      BY <1>3, GotoStep, AfterPreserveStep DEF PreserveCheck, PreserveRecord, At, Raise, Step
    <3> QED BY <2>3, <3>1, <3>2, QuietStep DEF SavesNothing, Touches
  <2> QED BY <2>2, <2>3
<1>4. CASE RestoreFinish
  <2>1. call.path \in Path /\ call.owner \in Owner
    BY <1>4, CallType DEF RestoreFinish, At
  <2>2. Store!PutBack(call.path, call.owner)
    BY <1>4, PutBackStep
  <2> QED BY <1>4, <2>1, <2>2 DEF PutsBack, UseInv, RestoreFinish
<1> QED BY <1>1, <1>2, <1>3, <1>4 DEF CallStep

LEMMA InterruptEffect ==
  ASSUME BasenamesDistinct, Base, TypeOK', TestStep, Interrupt
  PROVE  SavesNothing \/ \E p \in Path : HalfRestores(p)
<1> USE DEF Base, UseTypeOK
<1>1. /\ call # NoCall /\ call.path \in Path /\ UNCHANGED <<fs, dir, backups>>
      /\ call' = NoCall
  BY CallType DEF Interrupt, Raise
<1>2. CASE At("finish") /\ backups[ThisPair] # Nothing
  <2>1. call.path \in half'
    BY <1>1, <1>2 DEF TestStep, HalfRestored
  <2>2. ASSUME NEW q \in Path \ {call.path}, NEW o \in Owner
        PROVE  SavedState(q, o)' = SavedState(q, o)
    BY <1>1, <2>2 DEF SavedState, BackupNow, RestoreAt, At
  <2> QED BY <1>1, <2>1, <2>2 DEF HalfRestores
<1>3. CASE ~(At("finish") /\ backups[ThisPair] # Nothing)
  <2>1. SavedSame
    BY <1>1, <1>3 DEF SavedSame, HasBackup, BackupNow, RestoreAt, At, ThisPair
  <2> QED BY <1>1, <2>1 DEF SavesNothing, Touches
<1> QED BY <1>2, <1>3

(* Every step of the tests is one of five. *)
LEMMA TestStepEffect ==
  ASSUME BasenamesDistinct, Base, TypeOK', TestStep
  PROVE  \/ SavesNothing \/ Saves \/ PutsBack
         \/ \E p \in Path : HalfRestores(p)
         \/ UseCrash
<1> USE DEF Base, UseTypeOK
<1>1. ASSUME NEW p \in Path, NEW o \in Owner, UseCall(p, o)
      PROVE  SavesNothing
  BY <1>1, UseCallIsCall, StartQuiet DEF SavesNothing, Touches
<1>2. CASE CallStep \/ CopyFails \/ MoveFails
  BY <1>2, CallStepEffect
<1>3. CASE Interrupt
  BY <1>3, InterruptEffect
<1>4. ASSUME NEW p \in Path, Holders(p) # {}, OutsideChange(p)
      PROVE  SavesNothing
  <2>1. ~At("finish") /\ ~At("finish")' /\ UNCHANGED <<dir, backups>>
    BY <1>4 DEF OutsideChange, At
  <2>2. SavedSame
    BY <2>1, QuietStep
  <2>3. Touches
    BY <1>4 DEF OutsideChange, Touches
  <2> QED BY <2>2, <2>3 DEF SavesNothing
<1> QED BY <1>1, <1>2, <1>3, <1>4 DEF TestStep

--------------------------------------------------------------------------------
(* Who holds a path after a step.                                          *)

LEMMA HoldersSaved ==
  ASSUME TypeOK, NEW p \in Path
  PROVE  Holders(p) = {o \in Owner : SavedState(p, o) # Unregistered}
BY RegisteredSaved DEF Holders, SavedFacts

LEMMA HoldersSame ==
  ASSUME backups' = backups, NEW p \in Path
  PROVE  Holders(p)' = Holders(p)
BY DEF Holders, Registered

LEMMA SavesNothingHolders ==
  ASSUME TypeOK, SavesNothing, NEW p \in Path
  PROVE  /\ Holders(p)' = Holders(p)
         /\ \A o \in Owner : SavedState(p, o)' = SavedState(p, o)
         /\ Holders(p) = {} => fs'[p] = fs[p]
<1>1. \A o \in Owner : backups'[<<p, o>>] = backups[<<p, o>>]
  BY DEF SavesNothing, SavedSame
<1>2. Holders(p)' = Holders(p)
  BY <1>1 DEF Holders, Registered
<1>3. \A o \in Owner : SavedState(p, o)' = SavedState(p, o)
  BY DEF SavesNothing, SavedSame, SavedState, HasBackup
<1>4. Holders(p) = {} => fs'[p] = fs[p]
  BY DEF SavesNothing, Touches, TypeOK
<1> QED BY <1>2, <1>3, <1>4

(* Of a save: p is held by o too, with the present state saved. *)
LEMMA SaveHolders ==
  ASSUME TypeOK, TypeOK', NEW p \in Path, NEW o \in Owner, Store!Save(p, o),
         NEW q \in Path
  PROVE  /\ UNCHANGED fs /\ o \notin Holders(p)
         /\ Holders(q)' = IF q = p THEN Holders(p) \cup {o} ELSE Holders(q)
         /\ SavedState(p, o)' = fs[p]
         /\ \A w \in Owner : <<q, w>> # <<p, o>> => SavedState(q, w)' = SavedState(q, w)
<1>1. /\ Saved[<<p, o>>] = Unregistered /\ UNCHANGED fs
      /\ Saved' = [Saved EXCEPT ![<<p, o>>] = fs[p]]
  BY DEF Store!Save
<1>2. \A w \in Owner : <<q, w>> \in Pair /\ <<p, o>> \in Pair
  BY DEF Pair
<1>3. \A w \in Owner : <<q, w>> # <<p, o>> => Saved'[<<q, w>>] = Saved[<<q, w>>]
  BY <1>1, <1>2 DEF Saved
<1>4. Saved'[<<p, o>>] = fs[p]
  BY <1>1, <1>2 DEF Saved
<1>5. SavedFacts /\ SavedFacts'
  BY RegisteredSaved
<1>6. /\ Saved[<<p, o>>] = SavedState(p, o) /\ Saved'[<<p, o>>] = SavedState(p, o)'
      /\ \A w \in Owner : <<q, w>> # <<p, o>> => SavedState(q, w)' = SavedState(q, w)
  BY <1>3, <1>5 DEF SavedFacts
<1>7. fs[p] # Unregistered
  BY SentinelAssumption DEF TypeOK
<1>8. o \notin Holders(p) /\ SavedState(p, o)' = fs[p]
  BY <1>1, <1>4, <1>5, <1>6 DEF Holders, SavedFacts
<1>9. \A w \in Owner : <<q, w>> # <<p, o>> => (Registered(q, w)' <=> Registered(q, w))
  BY <1>5, <1>6 DEF SavedFacts
<1>10. Registered(p, o)'
  BY <1>5, <1>7, <1>8 DEF SavedFacts
<1> QED BY <1>1, <1>6, <1>8, <1>9, <1>10 DEF Holders

(* Of a restore: o is gone, and the path is as o saved it. *)
LEMMA PutBackHolders ==
  ASSUME TypeOK, TypeOK', NEW p \in Path, NEW o \in Owner, Store!PutBack(p, o),
         NEW q \in Path
  PROVE  /\ o \in Holders(p)
         /\ Holders(q)' = IF q = p THEN Holders(p) \ {o} ELSE Holders(q)
         /\ fs'[q] = IF q = p THEN SavedState(p, o) ELSE fs[q]
         /\ \A w \in Owner : <<q, w>> # <<p, o>> => SavedState(q, w)' = SavedState(q, w)
<1>1. /\ Saved[<<p, o>>] # Unregistered
      /\ fs' = [fs EXCEPT ![p] = Saved[<<p, o>>]]
      /\ Saved' = [Saved EXCEPT ![<<p, o>>] = Unregistered]
  BY DEF Store!PutBack
<1>2. \A w \in Owner : <<q, w>> \in Pair /\ <<p, o>> \in Pair
  BY DEF Pair
<1>3. \A w \in Owner : <<q, w>> # <<p, o>> => Saved'[<<q, w>>] = Saved[<<q, w>>]
  BY <1>1, <1>2 DEF Saved
<1>4. Saved'[<<p, o>>] = Unregistered
  BY <1>1, <1>2 DEF Saved
<1>5. SavedFacts /\ SavedFacts'
  BY RegisteredSaved
<1>6. /\ Saved[<<p, o>>] = SavedState(p, o) /\ Saved'[<<p, o>>] = SavedState(p, o)'
      /\ \A w \in Owner : <<q, w>> # <<p, o>> => SavedState(q, w)' = SavedState(q, w)
  BY <1>3, <1>5 DEF SavedFacts
<1>7. fs'[q] = IF q = p THEN SavedState(p, o) ELSE fs[q]
  BY <1>1, <1>6 DEF TypeOK
<1>8. o \in Holders(p) /\ ~Registered(p, o)'
  BY <1>1, <1>4, <1>5, <1>6 DEF Holders, SavedFacts
<1>9. \A w \in Owner : <<q, w>> # <<p, o>> => (Registered(q, w)' <=> Registered(q, w))
  BY <1>5, <1>6 DEF SavedFacts
<1> QED BY <1>6, <1>7, <1>8, <1>9 DEF Holders

(* The registry is empty: nobody holds anything. *)
LEMMA ForgottenHolders ==
  ASSUME Crash \/ EndOfRun, NEW p \in Path
  PROVE  UNCHANGED fs /\ Holders(p)' = {} /\ call' = NoCall
BY BackupPathType DEF Crash, EndOfRun, Holders, Registered

LEMMA OuterNext ==
  ASSUME BasenamesDistinct, Base, TypeOK', TestStep
  PROVE  OuterInv'
<1> USE DEF Base, UseTypeOK
<1> SUFFICES ASSUME NEW p \in Path
             PROVE  /\ outer'[p] \subseteq Holders(p)'
                    /\ Holders(p)' # {} => \E o \in Owner : outer'[p] = {o}
  BY DEF OuterInv
<1>1. outer'[p] = IF Holders(p) = {} THEN Holders(p)' ELSE outer[p] \cap Holders(p)'
  BY DEF TestStep, OuterAfter
<1>2. /\ outer[p] \subseteq Holders(p)
      /\ Holders(p) # {} => \E o \in Owner : outer[p] = {o}
  BY DEF OuterInv
<1>3. CASE Holders(p)' = Holders(p)
  BY <1>1, <1>2, <1>3
<1>4. CASE SavesNothing
  BY <1>3, <1>4, SavesNothingHolders
<1>5. CASE Saves
  <2>1. PICK q \in Path, o \in Owner : Store!Save(q, o)
    BY <1>5 DEF Saves
  <2>2. Holders(p)' = IF p = q THEN Holders(p) \cup {o} ELSE Holders(p)
    BY <2>1, SaveHolders
  <2> QED BY <1>1, <1>2, <2>2
<1>6. CASE PutsBack
  <2>1. PICK q \in Path, o \in Owner :
          Store!PutBack(q, o) /\ (o \in outer[q] => Holders(q) = {o})
    BY <1>6 DEF PutsBack
  <2>2. Holders(p)' = IF p = q THEN Holders(p) \ {o} ELSE Holders(p)
    BY <2>1, PutBackHolders
  <2>3. CASE p = q /\ o \in outer[p]
    BY <1>1, <2>1, <2>2, <2>3
  <2>4. CASE p # q \/ o \notin outer[p]
    BY <1>1, <1>2, <2>2, <2>4
  <2> QED BY <2>3, <2>4
<1>7. CASE \E q \in Path : HalfRestores(q)
  BY <1>3, <1>7, HoldersSame DEF HalfRestores
<1>8. CASE UseCrash
  BY <1>1, <1>8, ForgottenHolders DEF UseCrash
<1> QED BY <1>4, <1>5, <1>6, <1>7, <1>8, TestStepEffect

(* A call begins with what it may rely on, and its steps keep it.          *)
LEMMA UseStart ==
  ASSUME Base, NEW p \in Path, NEW o \in Owner, UseCall(p, o),
         outer'[p] = OuterAfter(p)
  PROVE  UseInv'
<1> USE DEF Begin, At, UseInv
<1>1. CASE Write(p, o, TRUE) \/ Replace(p, o, TRUE) \/ AppendTo(p, o, TRUE)
             \/ Preserve(p, o) \/ PreserveAndRemove(p, o)
  BY <1>1 DEF Write, Replace, AppendTo, Preserve, PreserveAndRemove
<1>2. CASE Registered(p, o) /\ (Write(p, o, FALSE) \/ AppendTo(p, o, FALSE))
  BY <1>2 DEF Write, AppendTo, Registered
<1>3. CASE (o \in outer[p] => Holders(p) = {o}) /\ Restore(p, o)
  <2>1. /\ call'.step = "unlink" /\ call'.path = p /\ call'.owner = o
        /\ UNCHANGED backups
    BY <1>3 DEF Restore
  <2>2. Holders(p)' = Holders(p) /\ Holders(p) # {}
    BY <1>3, <2>1, HoldersSame DEF Restore, Holders
  <2>3. o \in outer'[p] => o \in outer[p]
    BY <2>2 DEF OuterAfter
  <2> QED BY <1>3, <2>1, <2>2, <2>3
<1> QED BY <1>1, <1>2, <1>3 DEF UseCall

(* In a call that has registered its pair, or found it registered, later   *)
(* steps find it so too.                                                   *)
LEMMA UseCallStep ==
  ASSUME Base, CallStep, TypeOK', \A p \in Path : outer'[p] = OuterAfter(p)
  PROVE  UseInv'
<1> USE DEF Base, UseTypeOK
<1>1. call # NoCall /\ call.path \in Path /\ call.owner \in Owner /\ ThisPair \in Pair
  BY CallType DEF CallStep, RemoveStale, PreserveCheck, PreserveCopy, PreserveRecord, Rename,
     AppendRead, RemovePreserved, RestoreUnlink, RestoreMove, RestoreFinish, At
<1>2. CASE RemoveStale \/ PreserveCopy
  BY <1>1, <1>2, GotoStep DEF RemoveStale, PreserveCopy, Step, At, UseInv, Raise
<1>3. ASSUME AfterPreserve, NEW u \in Uid \cup {Nothing},
             backups' = [backups EXCEPT ![ThisPair] = u]
      PROVE  UseInv'
  <2>1. backups'[ThisPair] # Unregistered
    BY <1>1, <1>3, SentinelAssumption DEF TypeOK
  <2> QED BY <1>1, <1>3, <2>1, AfterPreserveStep DEF At, UseInv, Registered, ThisPair
<1>4. CASE PreserveCheck
  BY <1>1, <1>3, <1>4, GotoStep DEF PreserveCheck, Step, At, UseInv, Raise
<1>5. CASE PreserveRecord
  <2>1. fs[call.path] \in File
    BY <1>1, <1>5 DEF PreserveRecord, CallInv, PreserveInv, TypeOK, FileState
  <2> QED BY <1>3, <1>5, <2>1 DEF PreserveRecord, File
<1>6. CASE Rename \/ RemovePreserved \/ RestoreFinish
  BY <1>6 DEF Rename, RemovePreserved, RestoreFinish, Return, UseInv, At
<1>7. CASE AppendRead
  <2>1. call' # NoCall => /\ call'.step = "rename" /\ call'.path = call.path
                          /\ call'.owner = call.owner
    BY <1>1, <1>7, CallType DEF AppendRead, Return, Call
  <2> QED BY <1>7, <2>1 DEF AppendRead, UseInv, At, Registered
<1>8. CASE RestoreUnlink \/ RestoreMove
  <2>1. /\ call'.path = call.path /\ call'.owner = call.owner /\ UNCHANGED backups
        /\ call'.step \in {"move", "finish"}
    BY <1>1, <1>8, GotoStep DEF RestoreUnlink, RestoreMove, Step
  <2>2. Holders(call.path)' = Holders(call.path)
    BY <1>1, <2>1, HoldersSame
  <2>3. Holders(call.path) # {}
    BY <1>1, <1>8, CallHolds DEF RestoreUnlink, RestoreMove, CallInv, RestoreInv, At
  <2>4. outer'[call.path] \subseteq outer[call.path]
    BY <1>1, <2>2, <2>3 DEF OuterAfter
  <2> QED BY <1>8, <2>1, <2>2, <2>4, HoldersSame DEF RestoreUnlink, RestoreMove, UseInv, At
<1> QED BY <1>2, <1>4, <1>5, <1>6, <1>7, <1>8 DEF CallStep

LEMMA UseInvNext ==
  ASSUME Base, TypeOK', TestStep
  PROVE  UseInv'
<1>1. \A p \in Path : outer'[p] = OuterAfter(p)
  BY DEF TestStep
<1>2. ASSUME NEW p \in Path, NEW o \in Owner, UseCall(p, o)
      PROVE  UseInv'
  BY <1>1, <1>2, UseStart
<1>3. CASE CallStep
  BY <1>1, <1>3, UseCallStep
<1>4. CASE call' = NoCall
  BY <1>4 DEF UseInv, At
<1>5. CASE CopyFails \/ MoveFails \/ Interrupt \/ UseCrash
  BY <1>4, <1>5 DEF CopyFails, MoveFails, Interrupt, UseCrash, Crash, Raise
<1>6. ASSUME NEW p \in Path, OutsideChange(p)
      PROVE  UseInv'
  BY <1>4, <1>6 DEF OutsideChange
<1> QED BY <1>2, <1>3, <1>5, <1>6 DEF TestStep

--------------------------------------------------------------------------------
(* What nobody holds is as it was found.                                   *)

LEMMA PristineNext ==
  ASSUME BasenamesDistinct, Base, TypeOK', PristineInv, TestStep
  PROVE  PristineInv'
<1> USE DEF Base, UseTypeOK
<1> SUFFICES ASSUME NEW p \in Path, p \notin half', p \notin crashed'
             PROVE  /\ Holders(p)' = {} => fs'[p] = original[p]
                    /\ \A o \in outer'[p] : SavedState(p, o)' = original[p]
  BY DEF PristineInv, Pristine, TestStep
<1>1. p \notin half /\ p \notin crashed
  BY DEF TestStep, UseCrash
<1>2. /\ Holders(p) = {} => fs[p] = original[p]
      /\ \A o \in outer[p] : SavedState(p, o) = original[p]
  BY <1>1 DEF PristineInv, Pristine, TestStep
<1>3. outer'[p] = IF Holders(p) = {} THEN Holders(p)' ELSE outer[p] \cap Holders(p)'
  BY DEF TestStep, OuterAfter
<1>4. /\ outer[p] \subseteq Holders(p)
      /\ Holders(p) # {} => \E o \in Owner : outer[p] = {o}
  BY DEF OuterInv
<1>5. Holders(p) \subseteq Owner
  BY DEF Holders
<1>6. CASE SavesNothing
  BY <1>2, <1>3, <1>4, <1>5, <1>6, SavesNothingHolders
<1>7. CASE Saves
  <2>1. PICK q \in Path, o \in Owner : Store!Save(q, o)
    BY <1>7 DEF Saves
  <2>2. /\ UNCHANGED fs /\ o \notin Holders(q)
        /\ Holders(p)' = IF p = q THEN Holders(q) \cup {o} ELSE Holders(p)
        /\ SavedState(q, o)' = fs[q]
        /\ \A w \in Owner : <<p, w>> # <<q, o>> => SavedState(p, w)' = SavedState(p, w)
    BY <2>1, SaveHolders
  <2> QED BY <1>2, <1>3, <1>4, <1>5, <2>2
<1>8. CASE PutsBack
  <2>1. PICK q \in Path, o \in Owner :
          Store!PutBack(q, o) /\ (o \in outer[q] => Holders(q) = {o})
    BY <1>8 DEF PutsBack
  <2>2. /\ o \in Holders(q)
        /\ Holders(p)' = IF p = q THEN Holders(q) \ {o} ELSE Holders(p)
        /\ fs'[p] = IF p = q THEN SavedState(q, o) ELSE fs[p]
        /\ \A w \in Owner : <<p, w>> # <<q, o>> => SavedState(p, w)' = SavedState(p, w)
    BY <2>1, PutBackHolders
  <2>3. CASE p # q
    BY <1>2, <1>3, <1>4, <1>5, <2>2, <2>3
  <2>4. CASE p = q /\ o \in outer[p]
    BY <1>2, <1>3, <2>1, <2>2, <2>4
  <2>5. CASE p = q /\ o \notin outer[p]
    BY <1>2, <1>3, <1>4, <1>5, <2>2, <2>5
  <2> QED BY <2>3, <2>4, <2>5
<1>9. ASSUME NEW q \in Path, HalfRestores(q)
      PROVE  /\ Holders(p)' = {} => fs'[p] = original[p]
             /\ \A o \in outer'[p] : SavedState(p, o)' = original[p]
  <2>1. p # q /\ Holders(p)' = Holders(p)
    BY <1>9, HoldersSame DEF HalfRestores
  <2> QED BY <1>2, <1>3, <1>4, <1>5, <1>9, <2>1 DEF HalfRestores
<1>10. CASE UseCrash
  <2>1. Holders(p) = {} /\ Crash
    BY <1>10 DEF UseCrash, InUse
  <2> QED BY <1>2, <1>3, <2>1, ForgottenHolders
<1> QED BY <1>6, <1>7, <1>8, <1>9, <1>10, TestStepEffect

--------------------------------------------------------------------------------
(* The last copy of an original.                                           *)

(* A backup that no pair stands for stays, unless it is taken for stale in *)
(* the process that made it.                                               *)
LEMMA OrphanStep ==
  ASSUME BasenamesDistinct, Base, TestStep, NEW p \in Path, NEW o \in Owner, OrphanOf(p, o),
         p \in crashed, p \notin stale', original[p] # NoFile,
         CallStep \/ CopyFails
  PROVE  OrphanOf(p, o)'
<1> USE DEF Base, UseTypeOK
<1>1. /\ call # NoCall /\ call.path \in Path /\ call.owner \in Owner
      /\ ThisPair \in Pair /\ ThisSlot \in Slot
  BY CallType DEF CallStep, RemoveStale, PreserveCheck, PreserveCopy, PreserveRecord, Rename,
     AppendRead, RemovePreserved, RestoreUnlink, RestoreMove, RestoreFinish, CopyFails, At
<1>2. /\ ~Registered(p, o) /\ ~RestoreAt("record", p, o)
      /\ SameText(dir[BackupPath(p, o)], original[p]) /\ UNCHANGED original
  BY DEF OrphanOf, TestStep
<1>3. BackupPath(p, o) \in Slot /\ <<p, o>> \in Pair /\ dir[BackupPath(p, o)] # NoFile
  BY <1>2, BackupPathType DEF SameText
<1>4. CASE <<call.path, call.owner>> # <<p, o>>
  <2>1. BackupPath(p, o) # ThisSlot
    BY <1>1, <1>4, SlotsDistinct DEF ThisSlot
  <2>2. dir'[BackupPath(p, o)] = dir[BackupPath(p, o)]
    BY <1>3, <2>1 DEF CallStep, RemoveStale, PreserveCheck, PreserveCopy, PreserveRecord,
       Rename, AppendRead, RemovePreserved, RestoreUnlink, RestoreMove, RestoreFinish, CopyFails,
       TypeOK
  <2>3. backups'[<<p, o>>] = backups[<<p, o>>]
    BY <1>1, <1>3, <1>4 DEF CallStep, RemoveStale, PreserveCheck, PreserveCopy, PreserveRecord,
       Rename, AppendRead, RemovePreserved, RestoreUnlink, RestoreMove, RestoreFinish, CopyFails,
       TypeOK, ThisPair
  <2>4. ~RestoreAt("record", p, o)'
    <3>1. CASE PreserveCopy
      BY <1>1, <1>4, <3>1, GotoStep DEF PreserveCopy, RestoreAt, Step
    <3>2. CASE ~PreserveCopy
      <4>1. ~At("record")'
        BY <1>1, <3>2, GotoStep, AfterPreserveStep, CallType
        DEF CallStep, RemoveStale, PreserveCheck, PreserveRecord, Rename, AppendRead,
            RemovePreserved, RestoreUnlink, RestoreMove, RestoreFinish, CopyFails, At, Step,
            Raise, Return, Call
      <4> QED BY <4>1 DEF RestoreAt
    <3> QED BY <3>1, <3>2
  <2> QED BY <1>2, <2>2, <2>3, <2>4 DEF OrphanOf, Registered
<1>5. CASE call.path = p /\ call.owner = o
  <2>1. ThisSlot = BackupPath(p, o) /\ ThisPair = <<p, o>>
    BY <1>5 DEF ThisSlot, ThisPair
  <2>2. CASE RemoveStale
    <3>1. dir'[ThisSlot] = NoFile /\ Goto("check")
      BY <1>1, <1>2, <1>5, <2>2 DEF RemoveStale, TypeOK
    <3>2. StaleRemoved(p)
      BY <1>2, <1>5, <2>1, <2>2, <3>1 DEF StaleRemoved
    <3> QED BY <3>2 DEF TestStep
  <2>3. CASE PreserveCheck
    <3>1. Raise /\ UNCHANGED <<dir, backups>>
      BY <1>3, <2>1, <2>3 DEF PreserveCheck
    <3> QED BY <1>2, <3>1 DEF Raise, OrphanOf, Registered, RestoreAt, At
  <2>4. CASE AppendRead
    <3>1. ~At("record")'
      BY <1>1, <2>4, CallType DEF AppendRead, Return, At, Call
    <3> QED BY <1>2, <2>4, <3>1 DEF AppendRead, OrphanOf, Registered, RestoreAt
  <2>5. CASE PreserveCopy \/ CopyFails
    BY <1>3, <2>1, <2>5 DEF PreserveCopy, CopyFails, CallInv, PreserveInv
  <2>6. CASE PreserveRecord
    BY <1>2, <1>5, <2>6 DEF PreserveRecord, RestoreAt
  <2>7. CASE Rename \/ RemovePreserved \/ RestoreUnlink \/ RestoreMove \/ RestoreFinish
    BY <1>2, <1>5, <2>7 DEF Rename, RemovePreserved, RestoreUnlink, RestoreMove, RestoreFinish,
       CallInv, RestoreInv, UseInv, At
  <2> QED BY <2>2, <2>3, <2>4, <2>5, <2>6, <2>7 DEF CallStep
<1> QED BY <1>4, <1>5

LEMMA OrphanNext ==
  ASSUME BasenamesDistinct, Base, TestStep, NEW p \in Path, Orphan(p),
         p \in crashed \/ Crash, p \notin stale', original[p] # NoFile
  PROVE  Orphan(p)'
<1>1. PICK o \in Owner : OrphanOf(p, o)
  BY DEF Orphan
<1>2. OrphanOf(p, o)'
  <2>1. ASSUME UNCHANGED <<dir, backups>>, ~At("record")'
        PROVE  OrphanOf(p, o)'
    BY <1>1, <2>1 DEF OrphanOf, Registered, RestoreAt, TestStep
  <2>2. ASSUME NEW q \in Path, NEW w \in Owner, UseCall(q, w)
        PROVE  OrphanOf(p, o)'
    BY <2>1, <2>2 DEF UseCall, Write, Replace, AppendTo, Preserve, PreserveAndRemove, Restore,
       Begin, At
  <2>3. CASE Crash
    BY <1>1, <2>3, BackupPathType DEF Crash, OrphanOf, Registered, RestoreAt, At, TestStep
  <2>4. CASE CallStep \/ CopyFails
    <3>1. CASE p \in crashed
      BY <1>1, <2>4, <3>1, OrphanStep
    <3>2. CASE Crash
      BY <2>3, <3>2
    <3> QED BY <3>1, <3>2
  <2>5. CASE MoveFails \/ Interrupt
    BY <2>1, <2>5 DEF MoveFails, Interrupt, Raise, At
  <2>6. ASSUME NEW q \in Path, OutsideChange(q)
        PROVE  OrphanOf(p, o)'
    BY <2>1, <2>6 DEF OutsideChange, At
  <2> QED BY <2>2, <2>3, <2>4, <2>5, <2>6 DEF TestStep, UseCrash
<1> QED BY <1>2 DEF Orphan

(* A path that was not disturbed has its original: at its place when nobody *)
(* holds it, saved by the first holder otherwise.                          *)
LEMMA UndisturbedKept ==
  ASSUME OuterInv', PristineInv', TypeOK', lastTest' # "failed",
         NEW p \in Path, p \notin half', p \notin crashed'
  PROVE  (original[p] = NoFile \/ AtPath(p) \/ AtFirst(p))'
<1>1. /\ Holders(p)' = {} => fs'[p] = original'[p]
      /\ \A o \in outer'[p] : SavedState(p, o)' = original'[p]
  BY DEF PristineInv, Pristine
<1>2. Holders(p)' # {} => \E o \in Owner : outer'[p] = {o}
  BY DEF OuterInv
<1> QED BY <1>1, <1>2 DEF AtPath, AtFirst, SameText

(* What the first holder saved stays with it, and is back at the path when *)
(* it leaves as the last; after a crash it is a backup that nobody holds.  *)
LEMMA KeptTestStep ==
  ASSUME BasenamesDistinct, Base, TypeOK', TestStep, NEW p \in Path, p \notin half',
         original[p] # NoFile, AtPath(p) \/ AtFirst(p)
  PROVE  (AtPath(p) \/ AtFirst(p) \/ Orphan(p))'
<1> USE DEF Base, UseTypeOK
<1>1. original' = original /\ original[p] \in FileState
  BY DEF TestStep
<1>2. outer'[p] = IF Holders(p) = {} THEN Holders(p)' ELSE outer[p] \cap Holders(p)'
  BY DEF TestStep, OuterAfter
<1>3. outer[p] \subseteq Holders(p) /\ Holders(p) \subseteq Owner
  BY DEF OuterInv, Holders
<1>4. CASE SavesNothing
  <2>1. /\ Holders(p)' = Holders(p)
        /\ \A o \in Owner : SavedState(p, o)' = SavedState(p, o)
        /\ Holders(p) = {} => fs'[p] = fs[p]
    BY <1>4, SavesNothingHolders
  <2> QED BY <1>1, <1>2, <1>3, <2>1 DEF AtPath, AtFirst
<1>5. CASE Saves
  <2>1. PICK q \in Path, o \in Owner : Store!Save(q, o)
    BY <1>5 DEF Saves
  <2>2. /\ UNCHANGED fs /\ o \notin Holders(q)
        /\ Holders(p)' = IF p = q THEN Holders(q) \cup {o} ELSE Holders(p)
        /\ SavedState(q, o)' = fs[q]
        /\ \A w \in Owner : <<p, w>> # <<q, o>> => SavedState(p, w)' = SavedState(p, w)
    BY <2>1, SaveHolders
  <2>3. CASE AtPath(p)
    BY <1>1, <1>2, <2>2, <2>3 DEF AtPath, AtFirst
  <2>4. CASE AtFirst(p)
    <3>1. PICK w \in outer[p] : SameText(SavedState(p, w), original[p])
      BY <2>4 DEF AtFirst
    <3>2. <<p, w>> # <<q, o>> /\ w \in outer'[p] /\ w \in Owner
      BY <1>2, <1>3, <2>2
    <3> QED BY <1>1, <2>2, <3>1, <3>2 DEF AtFirst
  <2> QED BY <2>3, <2>4
<1>6. CASE PutsBack
  <2>1. PICK q \in Path, o \in Owner :
          Store!PutBack(q, o) /\ (o \in outer[q] => Holders(q) = {o})
    BY <1>6 DEF PutsBack
  <2>2. /\ o \in Holders(q)
        /\ Holders(p)' = IF p = q THEN Holders(q) \ {o} ELSE Holders(p)
        /\ fs'[p] = IF p = q THEN SavedState(q, o) ELSE fs[p]
        /\ \A w \in Owner : <<p, w>> # <<q, o>> => SavedState(p, w)' = SavedState(p, w)
    BY <2>1, PutBackHolders
  <2>3. CASE AtPath(p)
    BY <1>1, <2>2, <2>3 DEF AtPath
  <2>4. CASE AtFirst(p)
    <3>1. PICK w \in outer[p] : SameText(SavedState(p, w), original[p])
      BY <2>4 DEF AtFirst
    <3>2. CASE <<p, w>> # <<q, o>>
      <4>1. w \in outer'[p] /\ w \in Owner
        BY <1>2, <1>3, <2>2, <3>2
      <4> QED BY <1>1, <2>2, <3>1, <3>2, <4>1 DEF AtFirst
    <3>3. CASE p = q /\ w = o
      BY <1>1, <2>1, <2>2, <3>1, <3>3 DEF AtPath
    <3> QED BY <3>2, <3>3
  <2> QED BY <2>3, <2>4
<1>7. ASSUME NEW q \in Path, HalfRestores(q)
      PROVE  (AtPath(p) \/ AtFirst(p))'
  <2>1. p # q /\ Holders(p)' = Holders(p)
    BY <1>7, HoldersSame DEF HalfRestores
  <2> QED BY <1>1, <1>2, <1>3, <1>7, <2>1 DEF HalfRestores, AtPath, AtFirst
<1>8. CASE UseCrash
  <2>1. UNCHANGED fs /\ Holders(p)' = {} /\ call' = NoCall
    BY <1>8, ForgottenHolders DEF UseCrash
  <2>2. CASE AtPath(p)
    BY <1>1, <2>1, <2>2 DEF AtPath
  <2>3. CASE AtFirst(p)
    <3>1. PICK w \in outer[p] : SameText(SavedState(p, w), original[p])
      BY <2>3 DEF AtFirst
    <3>2. w \in Owner /\ Registered(p, w)
      BY <1>3, <3>1 DEF Holders
    <3>3. SameText(BackupNow(p, w), original[p])
      BY <1>1, <3>1, <3>2, SavedText
    <3>4. CASE RestoreAt("finish", p, w)
      BY <1>1, <2>1, <3>3, <3>4 DEF BackupNow, AtPath
    <3>5. CASE ~RestoreAt("finish", p, w)
      <4>1. ~Registered(p, w)' /\ UNCHANGED dir
        BY <1>8, <3>2, BackupPathType DEF UseCrash, Crash, Registered
      <4> QED BY <1>1, <2>1, <3>2, <3>3, <3>5, <4>1
              DEF BackupNow, Orphan, OrphanOf, RestoreAt, At
    <3> QED BY <3>4, <3>5
  <2> QED BY <2>2, <2>3
<1> QED BY <1>4, <1>5, <1>6, <1>7, <1>8, TestStepEffect

LEMMA KeptInvNext ==
  ASSUME BasenamesDistinct, Base, Base', PristineInv', KeptInv, TestStep
  PROVE  KeptInv'
<1> SUFFICES ASSUME NEW p \in Path, p \notin half', p \notin stale', original[p] # NoFile
             PROVE  (AtPath(p) \/ AtFirst(p) \/ Orphan(p))'
  BY DEF KeptInv, TestStep
<1>1. p \notin half /\ p \notin stale /\ original' = original
      /\ lastTest = "none" /\ lastTest' = "none"
  BY DEF TestStep
<1>2. CASE p \notin crashed'
  BY <1>1, <1>2, UndisturbedKept DEF Base, UseTypeOK
<1>3. CASE p \in crashed' /\ (AtPath(p) \/ AtFirst(p))
  BY <1>3, KeptTestStep DEF Base, UseTypeOK
<1>4. CASE p \in crashed' /\ Orphan(p)
  <2>1. p \in crashed \/ Crash
    BY <1>4 DEF TestStep, UseCrash
  <2> QED BY <1>4, <2>1, OrphanNext
<1> QED BY <1>1, <1>2, <1>3, <1>4 DEF KeptInv

--------------------------------------------------------------------------------

UseIInv == Base /\ PristineInv /\ KeptInv

LEMMA UseInit0 == UseInit => UseIInv
<1> SUFFICES ASSUME UseInit
             PROVE  UseIInv
  OBVIOUS
<1>1. TypeOK /\ CallInv /\ call = NoCall
  BY InputAssumption DEF UseInit, Init, TypeOK, FileState, CallInv, PreserveInv, RestoreInv, At
<1>2. \A p \in Path : Holders(p) = {}
  BY BackupPathType DEF UseInit, Init, Holders, Registered
<1>3. UseTypeOK /\ OuterInv /\ UseInv
  BY <1>1, <1>2 DEF UseInit, UseTypeOK, OuterInv, UseInv, At, TypeOK
<1>4. PristineInv /\ KeptInv /\ OverInv
  BY <1>2 DEF UseInit, PristineInv, Pristine, KeptInv, AtPath, SameText, OverInv
<1> QED BY <1>1, <1>3, <1>4 DEF UseIInv, Base

LEMMA UseTypeNext ==
  ASSUME UseTypeOK, CallInv, [UseNext]_useVars
  PROVE  UseTypeOK' /\ CallInv'
<1>1. TypeOK' /\ CallInv'
  BY UseStepIsStep, NextType, NextCallInv DEF UseTypeOK
<1>2. CASE TestStep
  BY <1>1, <1>2 DEF TestStep, UseCrash, UseTypeOK, OuterAfter, Holders
<1>3. CASE LastTest
  BY <1>1, <1>3 DEF LastTest, UseTypeOK
<1>4. CASE NextRun
  BY <1>1, <1>4 DEF NextRun, UseTypeOK, TypeOK
<1>5. CASE UNCHANGED useVars
  BY <1>1, <1>5 DEF useVars, UseTypeOK
<1> QED BY <1>1, <1>2, <1>3, <1>4, <1>5 DEF UseNext

(* A last test that passes found no backup and nothing held, so that every *)
(* original was at its path or lost before.                                *)
LEMMA LastTestInv ==
  ASSUME UseIInv, TypeOK', LastTest
  PROVE  (OuterInv /\ UseInv /\ OverInv /\ PristineInv /\ KeptInv)'
<1>1. /\ \A p \in Path : Holders(p)' = {} /\ outer'[p] = {}
      /\ call' = NoCall /\ UNCHANGED <<fs, original, half, crashed, stale>>
  BY ForgottenHolders DEF LastTest, EndOfRun
<1>2. (OuterInv /\ UseInv /\ OverInv)'
  BY <1>1 DEF OuterInv, UseInv, OverInv, At
<1>3. ASSUME lastTest' # "failed"
      PROVE  /\ \A p \in Path : Holders(p) = {} /\ outer[p] = {}
             /\ \A s \in Slot : dir[s] = NoFile
  <2>1. AllRestored
    BY <1>3 DEF LastTest
  <2>2. \A p \in Path : Holders(p) = {}
    BY <2>1 DEF AllRestored, Holders
  <2> QED BY <2>1, <2>2 DEF AllRestored, UseIInv, Base, OuterInv
<1>4. PristineInv'
  BY <1>1, <1>3 DEF UseIInv, PristineInv, Pristine, LastTest
<1>5. ASSUME lastTest' # "failed", NEW p \in Path, p \notin half, p \notin stale,
             original[p] # NoFile
      PROVE  SameText(fs[p], original[p])
  <2>1. AtPath(p) \/ AtFirst(p) \/ Orphan(p)
    BY <1>5 DEF UseIInv, KeptInv, LastTest
  <2>2. ~AtFirst(p)
    BY <1>3, <1>5 DEF AtFirst
  <2>3. ~Orphan(p)
    BY <1>3, <1>5, BackupPathType DEF Orphan, OrphanOf, SameText
  <2> QED BY <2>1, <2>2, <2>3 DEF AtPath
<1>6. KeptInv'
  BY <1>1, <1>5 DEF KeptInv, AtPath
<1> QED BY <1>2, <1>4, <1>6

(* A new run begins with what it finds, and with nothing held. *)
LEMMA NextRunInv ==
  ASSUME Base, TypeOK', NextRun
  PROVE  (OuterInv /\ UseInv /\ OverInv /\ PristineInv /\ KeptInv)'
<1>1. \A p \in Path : Holders(p)' = {} /\ outer'[p] = {}
  BY HoldersSame DEF NextRun, Base, OverInv
<1>2. call' = NoCall /\ original' = fs /\ fs' = fs /\ lastTest' = "none"
  BY DEF NextRun, Base, OverInv
<1> QED BY <1>1, <1>2 DEF NextRun, OuterInv, UseInv, OverInv, At, PristineInv, Pristine,
        KeptInv, AtPath, SameText

LEMMA UseInvariance ==
  ASSUME BasenamesDistinct
  PROVE  UseSpec => []UseIInv
<1>1. ASSUME UseIInv, [UseNext]_useVars
      PROVE  UseIInv'
  <2>1. UseTypeOK' /\ CallInv' /\ TypeOK'
    BY <1>1, UseTypeNext DEF UseIInv, Base, UseTypeOK
  <2>2. CASE TestStep
    <3>1. OuterInv' /\ UseInv' /\ PristineInv'
      BY <1>1, <2>1, <2>2, OuterNext, UseInvNext, PristineNext DEF UseIInv
    <3>2. OverInv'
      BY <2>2 DEF TestStep, OverInv
    <3>3. KeptInv'
      BY <1>1, <2>1, <2>2, <3>1, <3>2, KeptInvNext DEF UseIInv, Base
    <3> QED BY <2>1, <3>1, <3>2, <3>3 DEF UseIInv, Base
  <2>3. CASE LastTest
    BY <1>1, <2>1, <2>3, LastTestInv DEF UseIInv, Base
  <2>4. CASE NextRun
    BY <1>1, <2>1, <2>4, NextRunInv DEF UseIInv, Base
  <2>5. CASE UNCHANGED useVars
    BY <1>1, <2>1, <2>5
    DEF useVars, UseIInv, Base, OuterInv, UseInv, OverInv, PristineInv, Pristine, KeptInv, AtPath,
        AtFirst, Orphan, OrphanOf, Holders, Registered, SavedState, BackupNow, RestoreAt, At
  <2> QED BY <1>1, <2>2, <2>3, <2>4, <2>5 DEF UseNext
<1> QED BY <1>1, UseInit0, PTL DEF UseSpec

(* A file that no component holds is exactly as the run found it, after    *)
(* any number of nested owners, failed copies and moves, interrupts and    *)
(* runs, but for the paths that were in use when the process died, or      *)
(* whose restore was interrupted half way; a run whose last test passes    *)
(* has left such a file as it was.                                         *)
THEOREM FilesPristine ==
  ASSUME BasenamesDistinct
  PROVE  UseSpec => []PristineUnlessDisturbed
<1>1. UseIInv => PristineUnlessDisturbed
  BY DEF UseIInv, PristineInv, PristineUnlessDisturbed
<1> QED BY <1>1, UseInvariance, PTL

(* Unless the last test fails, the last copy of an original is destroyed   *)
(* in two ways only: as a stale backup of a process that died, or by a     *)
(* restore interrupted half way. The last test itself destroys no last     *)
(* copy without failing.                                                   *)
THEOREM OriginalsKept ==
  ASSUME BasenamesDistinct
  PROVE  UseSpec => []OriginalNeverLost
<1>1. ASSUME UseIInv
      PROVE  OriginalNeverLost
  <2> SUFFICES ASSUME lastTest # "failed", NEW p \in Path, p \notin half, p \notin stale,
                      original[p] # NoFile
               PROVE  Kept(p)
    BY DEF OriginalNeverLost, Kept
  <2>1. AtPath(p) \/ AtFirst(p) \/ Orphan(p)
    BY <1>1 DEF UseIInv, KeptInv
  <2>2. CASE AtPath(p) \/ Orphan(p)
    BY <2>2 DEF AtPath, Orphan, OrphanOf, Kept
  <2>3. CASE AtFirst(p)
    <3>1. PICK o \in outer[p] : SameText(SavedState(p, o), original[p])
      BY <2>3 DEF AtFirst
    <3>2. o \in Owner /\ Registered(p, o) /\ original[p] \in FileState /\ TypeOK
      BY <1>1, <3>1 DEF UseIInv, Base, UseTypeOK, OuterInv, Holders
    <3>3. SameText(BackupNow(p, o), original[p])
      BY <3>1, <3>2, SavedText
    <3> QED BY <3>2, <3>3 DEF BackupNow, Kept
  <2> QED BY <2>1, <2>2, <2>3
<1> QED BY <1>1, UseInvariance, PTL

================================================================================
