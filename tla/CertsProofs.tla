------------------------------ MODULE CertsProofs ------------------------------
(***************************************************************************)
(* Proofs about Certs. The invariant follows each key through the run:     *)
(* until its installation begins nothing about it has changed; from then   *)
(* on its original is in the backup, until remove_cert moves it back,      *)
(* which happens once because the keys of Order are distinct.              *)
(***************************************************************************)

EXTENDS Certs, TLAPS

Untouched(k) == state[k] = {} /\ target[k] = first[k] /\ backup[k] = Absent
Moved(k) == first[k] = Original => backup[k] = Original
Safe(k) == first[k] = Original => target[k] = Original \/ backup[k] = Original

Installing(step) ==
  step \in {"move", "record_backup", "mkdir", "record_dir", "copy", "record"}

(* Where the call in progress is. *)
CallInv ==
  call # NoCall =>
    \/ /\ call.op = "install" /\ phase = "installing" /\ Installing(call.step)
       /\ next \in 2..(Len(Order) + 1) /\ call.key = Order[next - 1]
       /\ IF call.step = "move" THEN Untouched(call.key) ELSE Moved(call.key)
    \/ /\ call.op = "remove" /\ phase = "removing"
       /\ next \in 0..(Len(Order) - 1) /\ call.key = Order[next + 1]
       /\ call.step \in {"unlink", "move_back", "rmdir"}
       /\ call.step # "rmdir" /\ "target" \in state[call.key] => Moved(call.key)

(* What is known of the keys whose call has not begun. *)
KeyInv ==
  /\ phase = "setup" => call = NoCall /\ \A k \in Key : Untouched(k)
  /\ phase = "installing" =>
       /\ next \in 1..(Len(Order) + 1)
       /\ \A i \in next..Len(Order) : Untouched(Order[i])
  /\ phase = "tests" => call = NoCall
  /\ phase \in {"setup", "installing", "tests"} =>
       \A k \in Key : "target" \in state[k] => Moved(k)
  /\ phase = "removing" =>
       /\ next \in 0..Len(Order)
       /\ \A i \in 1..next : "target" \in state[Order[i]] => Moved(Order[i])
  /\ phase = "done" => call = NoCall

IInv == TypeOK /\ CallInv /\ KeyInv /\ \A k \in Key : Safe(k)

--------------------------------------------------------------------------------

LEMMA OrderType == \A i \in 1..Len(Order) : Order[i] \in Key
BY OrderAssumption

LEMMA OrderDistinct ==
  \A i, j \in 1..Len(Order) : Order[i] = Order[j] => i = j
BY OrderAssumption

LEMMA OrderLength == Len(Order) \in Nat
BY OrderAssumption

LEMMA ContentDistinct == Absent # Original /\ Ours # Original /\ Partial # Original
BY ContentAssumption

LEMMA InitInv == Init => IInv
<1> SUFFICES ASSUME Init PROVE IInv
  OBVIOUS
<1> USE OrderLength DEF Init
<1>1. TypeOK
  BY DEF TypeOK, Content
<1>2. CallInv
  BY DEF CallInv
<1>3. KeyInv
  BY DEF KeyInv, Untouched
<1>4. \A k \in Key : Safe(k)
  BY DEF Safe
<1> QED
  BY <1>1, <1>2, <1>3, <1>4 DEF IInv

(* Steps that start or end a test or a call, and so touch no file. *)
LEMMA TestSteps ==
  ASSUME IInv, StartInstalls \/ SkipInstalls \/ StartRemoves \/ EndTest
               \/ InstallCert \/ RemoveCert \/ Interrupt
  PROVE  IInv'
<1> USE OrderLength, OrderType DEF IInv, files
<1>1. UNCHANGED <<target, backup, state, first>> /\ \A k \in Key :
        /\ Untouched(k)' <=> Untouched(k)
        /\ Moved(k)' <=> Moved(k)
        /\ Safe(k)' <=> Safe(k)
  BY DEF StartInstalls, SkipInstalls, StartRemoves, EndTest, InstallCert,
         RemoveCert, Interrupt, Untouched, Moved, Safe
<1>2. CASE StartInstalls
  <2>1. TypeOK'
    BY <1>2 DEF StartInstalls, TypeOK
  <2>2. CallInv' /\ KeyInv'
    BY <1>1, <1>2 DEF StartInstalls, CallInv, KeyInv, TypeOK
  <2> QED BY <1>1, <2>1, <2>2
<1>3. CASE SkipInstalls
  <2>1. TypeOK'
    BY <1>3 DEF SkipInstalls, TypeOK
  <2>2. CallInv' /\ KeyInv'
    BY <1>1, <1>3 DEF SkipInstalls, CallInv, KeyInv, TypeOK
  <2> QED BY <1>1, <2>1, <2>2
<1>4. CASE StartRemoves
  <2>1. TypeOK'
    BY <1>4 DEF StartRemoves, TypeOK
  <2>2. CallInv' /\ KeyInv'
    BY <1>1, <1>4 DEF StartRemoves, CallInv, KeyInv, TypeOK
  <2> QED BY <1>1, <2>1, <2>2
<1>5. CASE EndTest
  <2>1. TypeOK'
    BY <1>5 DEF EndTest, TypeOK
  <2>2. CallInv' /\ KeyInv'
    BY <1>1, <1>5 DEF EndTest, CallInv, KeyInv, TypeOK
  <2> QED BY <1>1, <2>1, <2>2
<1>6. CASE InstallCert
  <2>1. TypeOK'
    BY <1>6 DEF InstallCert, TypeOK, KeyInv, Call, Op, Step
  <2>2. CallInv'
    BY <1>1, <1>6 DEF InstallCert, CallInv, KeyInv, TypeOK, Installing
  <2>3. KeyInv'
    BY <1>1, <1>6, NoCallAssumption, <2>1 DEF InstallCert, KeyInv, TypeOK
  <2> QED BY <1>1, <2>1, <2>2, <2>3
<1>7. CASE RemoveCert
  <2>1. TypeOK'
    BY <1>7 DEF RemoveCert, TypeOK, KeyInv, Call, Op, Step
  <2>2. CallInv'
    BY <1>1, <1>7 DEF RemoveCert, CallInv, KeyInv, TypeOK
  <2>3. KeyInv'
    BY <1>1, <1>7, NoCallAssumption, <2>1 DEF RemoveCert, KeyInv, TypeOK
  <2> QED BY <1>1, <2>1, <2>2, <2>3
<1>8. CASE Interrupt
  <2>1. TypeOK'
    BY <1>8 DEF Interrupt, TypeOK, Call
  <2>2. CallInv' /\ KeyInv'
    BY <1>1, <1>8 DEF Interrupt, CallInv, KeyInv, TypeOK
  <2> QED BY <1>1, <2>1, <2>2
<1> QED
  BY <1>2, <1>3, <1>4, <1>5, <1>6, <1>7, <1>8

(* The call in progress is at most one step on, at most one key changed.   *)
LEMMA CallSteps ==
  ASSUME IInv, CallStep \/ CopyFails
  PROVE  IInv'
<1> USE OrderLength, OrderType, ContentDistinct, NoCallAssumption DEF IInv
<1> DEFINE k == call.key
<1>0. call # NoCall /\ call \in Call /\ k \in Key
  BY DEF CallStep, CopyFails, At, TypeOK, Call, MoveAside, RecordBackup, MakeDir,
     RecordDir, CopyCert, RecordTarget, Unlink, MoveBack, RemoveDir
<1>1. CASE MoveAside
  <2>1. TypeOK'
    BY <1>0, <1>1 DEF MoveAside, Goto, Return, Frame, At, TypeOK, Content, Entry,
       Call, Step
  <2>2. CallInv'
    BY <1>0, <1>1, <2>1 DEF MoveAside, Goto, Return, Frame, At, TypeOK, CallInv,
       KeyInv, Call,
       Installing, Untouched, Moved
  <2>3. KeyInv'
    BY <1>0, <1>1, <2>1, OrderDistinct DEF MoveAside, Goto, Return, Frame, At,
       TypeOK, CallInv,
       KeyInv, Installing, Untouched, Moved
  <2>4. (\A key \in Key : Safe(key))'
    BY <1>0, <1>1 DEF MoveAside, Goto, Return, Frame, At, TypeOK, CallInv,
       Installing,
       Untouched, Moved, Safe
  <2> QED BY <2>1, <2>2, <2>3, <2>4
<1>2. CASE RecordBackup
  <2>1. TypeOK'
    BY <1>0, <1>2 DEF RecordBackup, Record, Goto, Return, Frame, At, TypeOK,
       Content, Entry, Call, Step
  <2>2. CallInv'
    BY <1>0, <1>2, <2>1 DEF RecordBackup, Record, Goto, Return, Frame, At, TypeOK,
       CallInv, KeyInv, Call,
       Installing, Untouched, Moved
  <2>3. KeyInv'
    BY <1>0, <1>2, <2>1, OrderDistinct DEF RecordBackup, Record, Goto, Return,
       Frame, At, TypeOK, CallInv,
       KeyInv, Installing, Untouched, Moved
  <2>4. (\A key \in Key : Safe(key))'
    BY <1>0, <1>2 DEF RecordBackup, Record, Goto, Return, Frame, At, TypeOK,
       CallInv, Installing,
       Untouched, Moved, Safe
  <2> QED BY <2>1, <2>2, <2>3, <2>4
<1>3. CASE MakeDir
  <2>1. TypeOK'
    BY <1>0, <1>3 DEF MakeDir, Goto, Return, Frame, At, TypeOK, Content, Entry,
       Call, Step
  <2>2. CallInv'
    BY <1>0, <1>3, <2>1 DEF MakeDir, Goto, Return, Frame, At, TypeOK, CallInv,
       KeyInv, Call,
       Installing, Untouched, Moved
  <2>3. KeyInv'
    BY <1>0, <1>3, <2>1, OrderDistinct DEF MakeDir, Goto, Return, Frame, At,
       TypeOK, CallInv,
       KeyInv, Installing, Untouched, Moved
  <2>4. (\A key \in Key : Safe(key))'
    BY <1>0, <1>3 DEF MakeDir, Goto, Return, Frame, At, TypeOK, CallInv, Installing,
       Untouched, Moved, Safe
  <2> QED BY <2>1, <2>2, <2>3, <2>4
<1>4. CASE RecordDir
  <2>1. TypeOK'
    BY <1>0, <1>4 DEF RecordDir, Record, Goto, Return, Frame, At, TypeOK, Content,
       Entry, Call, Step
  <2>2. CallInv'
    BY <1>0, <1>4, <2>1 DEF RecordDir, Record, Goto, Return, Frame, At, TypeOK,
       CallInv, KeyInv, Call,
       Installing, Untouched, Moved
  <2>3. KeyInv'
    BY <1>0, <1>4, <2>1, OrderDistinct DEF RecordDir, Record, Goto, Return, Frame,
       At, TypeOK, CallInv,
       KeyInv, Installing, Untouched, Moved
  <2>4. (\A key \in Key : Safe(key))'
    BY <1>0, <1>4 DEF RecordDir, Record, Goto, Return, Frame, At, TypeOK, CallInv,
       Installing,
       Untouched, Moved, Safe
  <2> QED BY <2>1, <2>2, <2>3, <2>4
<1>5. CASE CopyCert
  <2>1. TypeOK'
    BY <1>0, <1>5 DEF CopyCert, Goto, Return, Frame, At, TypeOK, Content, Entry,
       Call, Step
  <2>2. CallInv'
    BY <1>0, <1>5, <2>1 DEF CopyCert, Goto, Return, Frame, At, TypeOK, CallInv,
       KeyInv, Call,
       Installing, Untouched, Moved
  <2>3. KeyInv'
    BY <1>0, <1>5, <2>1, OrderDistinct DEF CopyCert, Goto, Return, Frame, At,
       TypeOK, CallInv,
       KeyInv, Installing, Untouched, Moved
  <2>4. (\A key \in Key : Safe(key))'
    BY <1>0, <1>5 DEF CopyCert, Goto, Return, Frame, At, TypeOK, CallInv,
       Installing,
       Untouched, Moved, Safe
  <2> QED BY <2>1, <2>2, <2>3, <2>4
<1>6. CASE RecordTarget
  <2>1. TypeOK'
    BY <1>0, <1>6 DEF RecordTarget, Record, Goto, Return, Frame, At, TypeOK,
       Content, Entry, Call, Step
  <2>2. CallInv'
    BY <1>0, <1>6, <2>1 DEF RecordTarget, Record, Goto, Return, Frame, At, TypeOK,
       CallInv, KeyInv, Call,
       Installing, Untouched, Moved
  <2>3. KeyInv'
    BY <1>0, <1>6, <2>1, OrderDistinct DEF RecordTarget, Record, Goto, Return,
       Frame, At, TypeOK, CallInv,
       KeyInv, Installing, Untouched, Moved
  <2>4. (\A key \in Key : Safe(key))'
    BY <1>0, <1>6 DEF RecordTarget, Record, Goto, Return, Frame, At, TypeOK,
       CallInv, Installing,
       Untouched, Moved, Safe
  <2> QED BY <2>1, <2>2, <2>3, <2>4
<1>7. CASE Unlink
  <2>1. TypeOK'
    BY <1>0, <1>7 DEF Unlink, Goto, Return, Frame, At, TypeOK, Content, Entry,
       Call, Step
  <2>2. CallInv'
    BY <1>0, <1>7, <2>1 DEF Unlink, Goto, Return, Frame, At, TypeOK, CallInv,
       KeyInv, Call,
       Installing, Untouched, Moved
  <2>3. KeyInv'
    BY <1>0, <1>7, <2>1, OrderDistinct DEF Unlink, Goto, Return, Frame, At, TypeOK,
       CallInv,
       KeyInv, Installing, Untouched, Moved
  <2>4. (\A key \in Key : Safe(key))'
    BY <1>0, <1>7 DEF Unlink, Goto, Return, Frame, At, TypeOK, CallInv, Installing,
       Untouched, Moved, Safe
  <2> QED BY <2>1, <2>2, <2>3, <2>4
<1>8. CASE MoveBack
  <2>1. TypeOK'
    BY <1>0, <1>8 DEF MoveBack, Raise, Goto, Return, Frame, At, TypeOK, Content,
       Entry, Call, Step
  <2>2. CallInv'
    BY <1>0, <1>8, <2>1 DEF MoveBack, Raise, Goto, Return, Frame, At, TypeOK,
       CallInv, KeyInv, Call,
       Installing, Untouched, Moved
  <2>3. KeyInv'
    BY <1>0, <1>8, <2>1, OrderDistinct DEF MoveBack, Raise, Goto, Return, Frame,
       At, TypeOK, CallInv,
       KeyInv, Installing, Untouched, Moved
  <2>4. (\A key \in Key : Safe(key))'
    BY <1>0, <1>8 DEF MoveBack, Raise, Goto, Return, Frame, At, TypeOK, CallInv,
       Installing,
       Untouched, Moved, Safe
  <2> QED BY <2>1, <2>2, <2>3, <2>4
<1>9. CASE RemoveDir
  <2>1. TypeOK'
    BY <1>0, <1>9 DEF RemoveDir, Goto, Return, Frame, At, TypeOK, Content, Entry,
       Call, Step
  <2>2. CallInv'
    BY <1>0, <1>9, <2>1 DEF RemoveDir, Goto, Return, Frame, At, TypeOK, CallInv,
       KeyInv, Call,
       Installing, Untouched, Moved
  <2>3. KeyInv'
    BY <1>0, <1>9, <2>1, OrderDistinct DEF RemoveDir, Goto, Return, Frame, At,
       TypeOK, CallInv,
       KeyInv, Installing, Untouched, Moved
  <2>4. (\A key \in Key : Safe(key))'
    BY <1>0, <1>9 DEF RemoveDir, Goto, Return, Frame, At, TypeOK, CallInv,
       Installing,
       Untouched, Moved, Safe
  <2> QED BY <2>1, <2>2, <2>3, <2>4
<1>10. CASE CopyFails
  <2>1. TypeOK'
    BY <1>0, <1>10 DEF CopyFails, Raise, Goto, Return, Frame, At, TypeOK, Content,
       Entry, Call, Step
  <2>2. CallInv'
    BY <1>0, <1>10, <2>1 DEF CopyFails, Raise, Goto, Return, Frame, At, TypeOK,
       CallInv, KeyInv, Call,
       Installing, Untouched, Moved
  <2>3. KeyInv'
    BY <1>0, <1>10, <2>1, OrderDistinct DEF CopyFails, Raise, Goto, Return, Frame,
       At, TypeOK, CallInv,
       KeyInv, Installing, Untouched, Moved
  <2>4. (\A key \in Key : Safe(key))'
    BY <1>0, <1>10 DEF CopyFails, Raise, Goto, Return, Frame, At, TypeOK, CallInv,
       Installing,
       Untouched, Moved, Safe
  <2> QED BY <2>1, <2>2, <2>3, <2>4
<1> QED
  BY <1>1, <1>2, <1>3, <1>4, <1>5, <1>6, <1>7, <1>8, <1>9, <1>10 DEF CallStep

LEMMA NextInv == IInv /\ [Next]_certVars => IInv'
<1> SUFFICES ASSUME IInv, [Next]_certVars PROVE IInv'
  OBVIOUS
<1>1. CASE UNCHANGED certVars
  BY <1>1 DEF certVars, IInv, TypeOK, CallInv, KeyInv, Untouched, Moved, Safe
<1>2. CASE Next
  BY <1>2, TestSteps, CallSteps DEF Next
<1> QED
  BY <1>1, <1>2

LEMMA Invariance == Spec => []IInv
BY InitInv, NextInv, PTL DEF Spec

(* For every set of keys and every order without repetitions, the state of *)
(* install_cert and remove_cert is as TypeOK says.                         *)
THEOREM CertTypes == Spec => []TypeOK
<1>1. IInv => TypeOK
  BY DEF IInv
<1> QED
  BY <1>1, Invariance, PTL

(* For every set of keys, a file that the run found at a target is there   *)
(* or in its backup, whatever copy fails and wherever a call is            *)
(* interrupted (core 708-752).                                             *)
THEOREM CertKept == Spec => []OriginalKept
<1>1. IInv => OriginalKept
  BY DEF IInv, Safe, OriginalKept
<1> QED
  BY <1>1, Invariance, PTL

--------------------------------------------------------------------------------
(* A run in which no call raises: what is at each key, and how far the call*)
(* in progress has come with its own.                                      *)

Noted(k) == "backup" \in state[k] <=> first[k] # Absent
Placed(k) == target[k] = Ours /\ "target" \in state[k] /\ backup[k] = first[k] /\ Noted(k)
Back(k) == target[k] = first[k] /\ backup[k] = Absent
Aside(k) == target[k] = Absent /\ backup[k] = first[k]

Now(k) == call # NoCall /\ call.key = k

FirstInv ==
  /\ first \in [Key -> {Absent, Original}]
  /\ ~firstDir => ~others /\ \A k \in Key : first[k] = Absent

KeysInv ==
  /\ \A k \in Key : (\A i \in 1..Len(Order) : Order[i] # k) => Untouched(k)
  /\ phase \in {"setup", "installing", "tests"} =>
       \A k \in Key : Now(k) \/ Placed(k) \/ Untouched(k)
  /\ phase = "removing" =>
       \A i \in 1..Len(Order) :
         Now(Order[i]) \/ IF i <= next THEN Placed(Order[i]) \/ Untouched(Order[i])
                                       ELSE Back(Order[i])
  /\ phase = "done" => \A k \in Key : Back(k)

StepInv(k, step) ==
  /\ step = "record_backup" => Aside(k) /\ first[k] # Absent
  /\ step \in {"mkdir", "record_dir", "copy"} => Aside(k) /\ Noted(k)
  /\ step = "record" => target[k] = Ours /\ backup[k] = first[k] /\ Noted(k)
  /\ step = "unlink" => Placed(k) \/ Untouched(k)
  /\ step = "move_back" =>
       (Aside(k) /\ Noted(k) /\ "target" \in state[k]) \/ Untouched(k)
  /\ step = "rmdir" => Back(k)

(* The directory is as it was, or it was made for the first key of Order,  *)
(* whose removal, the last one, finds it empty.                            *)
DirInv ==
  /\ firstDir => dir
  /\ \A k \in Key : "dir" \in state[k] => ~firstDir
  /\ At("record_dir") => ~firstDir
  /\ ~firstDir /\ dir =>
       /\ Len(Order) > 0 /\ phase \in {"installing", "tests", "removing"}
       /\ "dir" \in state[Order[1]] \/ (At("record_dir") /\ next = 2)
       /\ phase = "removing" => next > 0 \/ call # NoCall
  /\ phase = "installing"
     /\ (next > 2 \/ (next = 2 /\ (call = NoCall \/ call.step \in {"record_dir", "copy", "record"})))
       => dir

Quiet ==
  raised = {} =>
    FirstInv /\ KeysInv /\ DirInv /\ (call # NoCall => StepInv(call.key, call.step))

LEMMA InitQuiet == Init => Quiet
<1> SUFFICES ASSUME Init PROVE Quiet
  OBVIOUS
<1>1. FirstInv
  BY DEF Init, FirstInv, Empty
<1>2. KeysInv
  BY DEF Init, KeysInv, Untouched
<1>3. DirInv
  BY DEF Init, DirInv, At
<1> QED
  BY <1>1, <1>2, <1>3 DEF Init, Quiet

(* Steps that touch no file; an interrupt ends the quiet run.              *)
LEMMA TestStepsQuiet ==
  ASSUME IInv, Quiet, StartInstalls \/ SkipInstalls \/ StartRemoves \/ EndTest
                      \/ InstallCert \/ RemoveCert \/ Interrupt
  PROVE  Quiet'
<1> USE OrderLength, OrderType, NoCallAssumption DEF IInv, files
<1> SUFFICES ASSUME raised' = {} PROVE Quiet'
  BY DEF Quiet
<1>1. /\ UNCHANGED <<target, backup, dir, others, state, first, firstDir, raised>>
      /\ ~Interrupt
  BY DEF StartInstalls, SkipInstalls, StartRemoves, EndTest, InstallCert, RemoveCert, Interrupt
<1>2. FirstInv /\ KeysInv /\ DirInv /\ (call # NoCall => StepInv(call.key, call.step))
  BY <1>1 DEF Quiet
<1>3. \A k : /\ Untouched(k)' <=> Untouched(k)
             /\ Placed(k)' <=> Placed(k)
             /\ Back(k)' <=> Back(k)
             /\ Untouched(k) => Back(k)
  BY <1>1 DEF Untouched, Placed, Back, Noted
<1>4. FirstInv'
  BY <1>1, <1>2 DEF FirstInv
<1>5. CASE StartInstalls
  <2>1. call = NoCall /\ call' = NoCall /\ phase = "setup" /\ phase' = "installing" /\ next' = 1
    BY <1>5 DEF StartInstalls, KeyInv
  <2>2. KeysInv'
    BY <1>2, <1>3, <2>1 DEF KeysInv, Now
  <2>3. DirInv'
    BY <1>1, <1>2, <2>1 DEF DirInv, At
  <2> QED BY <1>4, <2>1, <2>2, <2>3 DEF Quiet
<1>6. CASE SkipInstalls
  <2>1. call = NoCall /\ call' = NoCall /\ phase = "setup" /\ phase' = "tests"
    BY <1>6 DEF SkipInstalls, KeyInv
  <2>2. KeysInv'
    BY <1>2, <1>3, <2>1 DEF KeysInv, Now
  <2>3. DirInv'
    BY <1>1, <1>2, <2>1 DEF DirInv, At
  <2> QED BY <1>4, <2>1, <2>2, <2>3 DEF Quiet
<1>7. CASE StartRemoves
  <2>1. call = NoCall /\ call' = NoCall /\ phase = "tests" /\ phase' = "removing"
        /\ next' = Len(Order)
    BY <1>7 DEF StartRemoves, KeyInv
  <2>2. KeysInv'
    BY <1>2, <1>3, <2>1 DEF KeysInv, Now
  <2>3. DirInv'
    BY <1>1, <1>2, <2>1 DEF DirInv, At
  <2> QED BY <1>4, <2>1, <2>2, <2>3 DEF Quiet
<1>8. CASE EndTest
  <2>1. /\ call = NoCall /\ call' = NoCall /\ next' = next
        /\ \/ phase = "installing" /\ phase' = "tests"
           \/ phase = "removing" /\ next = 0 /\ phase' = "done"
    BY <1>8 DEF EndTest
  <2>2. KeysInv'
    BY <1>2, <1>3, <2>1 DEF KeysInv, Now
  <2>3. DirInv'
    BY <1>1, <1>2, <2>1 DEF DirInv, At
  <2> QED BY <1>4, <2>1, <2>2, <2>3 DEF Quiet
<1>9. CASE InstallCert
  <2>1. /\ phase = "installing" /\ phase' = phase /\ call = NoCall /\ call' # NoCall
        /\ next \in 1..Len(Order) /\ next' = next + 1
        /\ call'.step = "move" /\ call'.key = Order[next] /\ Order[next] \in Key
    BY <1>9 DEF InstallCert, KeyInv, Call, Op, Step
  <2>2. KeysInv'
    BY <1>2, <1>3, <2>1 DEF KeysInv, Now
  <2>3. DirInv'
    BY <1>1, <1>2, <2>1 DEF DirInv, At
  <2>4. StepInv(call.key, call.step)'
    BY <2>1 DEF StepInv
  <2> QED BY <1>4, <2>2, <2>3, <2>4 DEF Quiet
<1>10. CASE RemoveCert
  <2>1. /\ phase = "removing" /\ phase' = phase /\ call = NoCall /\ call' # NoCall
        /\ next \in 1..Len(Order) /\ next' = next - 1
        /\ call'.step = "unlink" /\ call'.key = Order[next] /\ Order[next] \in Key
    BY <1>10 DEF RemoveCert, KeyInv, Call, Op, Step
  <2>2. KeysInv'
    BY <1>2, <1>3, <2>1 DEF KeysInv, Now
  <2>3. DirInv'
    BY <1>1, <1>2, <2>1 DEF DirInv, At
  <2>4. StepInv(call.key, call.step)'
    BY <1>2, <1>3, <2>1 DEF StepInv, KeysInv, Now
  <2> QED BY <1>4, <2>2, <2>3, <2>4 DEF Quiet
<1> QED
  BY <1>1, <1>5, <1>6, <1>7, <1>8, <1>9, <1>10

(* A step of a call that goes on changes nothing but its own key.          *)
LEMMA OwnKey ==
  ASSUME IInv, Quiet, raised' = {}, raised = {}, call # NoCall,
         NEW own, own = call.key, UNCHANGED <<next, phase, first>>,
         \A j \in Key : j # own => /\ target'[j] = target[j] /\ backup'[j] = backup[j]
                                        /\ state'[j] = state[j],
         \/ call' # NoCall /\ call'.key = own
         \/ call' = NoCall /\ phase = "installing" /\ Placed(own)'
         \/ call' = NoCall /\ phase = "removing" /\ Back(own)'
  PROVE  KeysInv'
<1> USE OrderLength, OrderType
<1>1. KeysInv
  BY DEF Quiet
<1>2. \A j \in Key : j # own =>
        /\ Untouched(j)' <=> Untouched(j)
        /\ Placed(j)' <=> Placed(j)
        /\ Back(j)' <=> Back(j)
        /\ ~Now(j)
  BY DEF Untouched, Placed, Back, Noted, Now
<1>3. \/ phase = "installing" /\ next \in 2..(Len(Order) + 1) /\ own = Order[next - 1]
      \/ phase = "removing" /\ next \in 0..(Len(Order) - 1) /\ own = Order[next + 1]
  BY DEF IInv, CallInv
<1>4. \E i \in 1..Len(Order) : own = Order[i]
  BY <1>3
<1>5. \A k \in Key : (\A i \in 1..Len(Order) : Order[i] # k) => Untouched(k)'
  BY <1>1, <1>2, <1>4 DEF KeysInv
<1>6. ASSUME phase = "installing"
      PROVE  \A k \in Key : Now(k)' \/ Placed(k)' \/ Untouched(k)'
  <2> SUFFICES ASSUME NEW k \in Key PROVE Now(k)' \/ Placed(k)' \/ Untouched(k)'
    OBVIOUS
  <2>1. CASE k = own
    BY <1>6, <2>1 DEF Now
  <2>2. CASE k # own
    BY <1>1, <1>2, <1>6, <2>2 DEF KeysInv
  <2> QED
    BY <2>1, <2>2
<1>7. ASSUME phase = "removing"
      PROVE  \A i \in 1..Len(Order) :
               Now(Order[i])' \/ IF i <= next THEN Placed(Order[i])' \/ Untouched(Order[i])'
                                              ELSE Back(Order[i])'
  <2> SUFFICES ASSUME NEW i \in 1..Len(Order)
               PROVE  Now(Order[i])' \/ IF i <= next THEN Placed(Order[i])' \/ Untouched(Order[i])'
                                                     ELSE Back(Order[i])'
    OBVIOUS
  <2>1. CASE Order[i] = own
    <3>1. i = next + 1
      BY <1>3, <1>7, <2>1, OrderDistinct
    <3> QED
      BY <1>3, <1>7, <2>1, <3>1 DEF Now, Back
  <2>2. CASE Order[i] # own
    BY <1>1, <1>2, <1>7, <2>2 DEF KeysInv
  <2> QED
    BY <2>1, <2>2
<1> QED
  BY <1>3, <1>5, <1>6, <1>7 DEF KeysInv, Now

(* The steps of a call in a quiet run. *)
LEMMA CallStepsQuiet ==
  ASSUME IInv, Quiet, CallStep \/ CopyFails
  PROVE  Quiet'
<1> USE OrderLength, NoCallAssumption
<1> SUFFICES ASSUME raised' = {} PROVE Quiet'
  BY DEF Quiet
<1>0. PICK own : own = call.key
  OBVIOUS
<1>1. /\ call # NoCall /\ call \in Call /\ own \in Key /\ call.step \in Step
      /\ UNCHANGED <<others, phase, first, firstDir>>
  BY <1>0 DEF CallStep, CopyFails, At, IInv, TypeOK, Call, MoveAside, RecordBackup, MakeDir,
     RecordDir, CopyCert, RecordTarget, Unlink, MoveBack, RemoveDir, Frame
<1>2. /\ target \in [Key -> Content] /\ backup \in [Key -> Content]
      /\ state \in [Key -> SUBSET Entry] /\ dir \in BOOLEAN
  BY DEF IInv, TypeOK
<1>3. raised = {} /\ UNCHANGED next /\ ~CopyFails /\ call \in [op : Op, key : Key, step : Step]
  BY <1>1 DEF CallStep, CopyFails, MoveAside, RecordBackup, MakeDir, RecordDir, CopyCert,
     RecordTarget, Unlink, MoveBack, RemoveDir, Goto, Return, Raise, Call
<1>4. FirstInv /\ KeysInv /\ DirInv /\ StepInv(own, call.step)
  BY <1>0, <1>1, <1>3 DEF Quiet
<1>5. FirstInv'
  BY <1>1, <1>4 DEF FirstInv
<1>6. \/ /\ phase = "installing" /\ Installing(call.step) /\ next \in 2..(Len(Order) + 1)
         /\ own = Order[next - 1]
      \/ /\ phase = "removing" /\ call.step \in {"unlink", "move_back", "rmdir"}
         /\ next \in 0..(Len(Order) - 1) /\ own = Order[next + 1]
  BY <1>0, <1>1 DEF IInv, CallInv
<1>7. first[own] \in {Absent, Original}
  BY <1>1, <1>4 DEF FirstInv
<1>8. CASE MoveAside
  <2>1. /\ call.step = "move" /\ Untouched(own) /\ UNCHANGED <<dir, state>>
        /\ \/ /\ target[own] # Absent /\ call' = [call EXCEPT !.step = "record_backup"]
              /\ target' = [target EXCEPT ![own] = Absent]
              /\ backup' = [backup EXCEPT ![own] = target[own]]
           \/ /\ target[own] = Absent /\ call' = [call EXCEPT !.step = "mkdir"]
              /\ UNCHANGED <<target, backup>>
    BY <1>0, <1>1, <1>6, <1>8 DEF MoveAside, At, Goto, IInv, CallInv
  <2>2. call' # NoCall /\ call'.key = own
    BY <1>0, <1>1, <1>3, <2>1 DEF Call, Step
  <2>3. KeysInv'
    BY <1>0, <1>1, <1>2, <1>3, <2>1, <2>2, OwnKey
  <2>4. DirInv'
    BY <1>0, <1>1, <1>2, <1>3, <1>4, <1>6, <2>1, <2>2 DEF DirInv, At, Installing, Entry
  <2>5. StepInv(call.key, call.step)'
    BY <1>0, <1>1, <1>2, <1>3, <1>4, <1>7, <2>1, <2>2 DEF StepInv, Aside, Noted, Placed, Back, Untouched, Entry
  <2> QED
    BY <1>3, <1>5, <2>2, <2>3, <2>4, <2>5 DEF Quiet
<1>9. CASE RecordBackup
  <2>1. /\ call.step = "record_backup" /\ UNCHANGED <<target, backup, dir>>
        /\ call' = [call EXCEPT !.step = "mkdir"]
        /\ state' = [state EXCEPT ![own] = @ \cup {"backup"}]
    BY <1>0, <1>9 DEF RecordBackup, Record, At, Goto
  <2>2. call' # NoCall /\ call'.key = own
    BY <1>0, <1>1, <1>3, <2>1 DEF Call, Step
  <2>3. KeysInv'
    BY <1>0, <1>1, <1>2, <1>3, <2>1, <2>2, OwnKey
  <2>4. DirInv'
    BY <1>0, <1>1, <1>2, <1>3, <1>4, <1>6, <2>1, <2>2 DEF DirInv, At, Installing, Entry
  <2>5. StepInv(call.key, call.step)'
    BY <1>0, <1>1, <1>2, <1>3, <1>4, <1>7, <2>1, <2>2 DEF StepInv, Aside, Noted, Placed, Back, Untouched, Entry
  <2> QED
    BY <1>3, <1>5, <2>2, <2>3, <2>4, <2>5 DEF Quiet
<1>10. CASE MakeDir
  <2>1. /\ call.step = "mkdir" /\ UNCHANGED <<target, backup, state>> /\ dir' = TRUE
        /\ \/ dir /\ call' = [call EXCEPT !.step = "copy"]
           \/ ~dir /\ call' = [call EXCEPT !.step = "record_dir"]
    BY <1>0, <1>10 DEF MakeDir, At, Goto
  <2>2. call' # NoCall /\ call'.key = own
    BY <1>0, <1>1, <1>3, <2>1 DEF Call, Step
  <2>3. KeysInv'
    BY <1>0, <1>1, <1>2, <1>3, <2>1, <2>2, OwnKey
  <2>4. DirInv'
    BY <1>0, <1>1, <1>2, <1>3, <1>4, <1>6, <2>1, <2>2 DEF DirInv, At, Installing, Entry
  <2>5. StepInv(call.key, call.step)'
    BY <1>0, <1>1, <1>2, <1>3, <1>4, <1>7, <2>1, <2>2 DEF StepInv, Aside, Noted, Placed, Back, Untouched, Entry
  <2> QED
    BY <1>3, <1>5, <2>2, <2>3, <2>4, <2>5 DEF Quiet
<1>11. CASE RecordDir
  <2>1. /\ call.step = "record_dir" /\ UNCHANGED <<target, backup, dir>>
        /\ call' = [call EXCEPT !.step = "copy"]
        /\ state' = [state EXCEPT ![own] = @ \cup {"dir"}]
    BY <1>0, <1>11 DEF RecordDir, Record, At, Goto
  <2>2. call' # NoCall /\ call'.key = own
    BY <1>0, <1>1, <1>3, <2>1 DEF Call, Step
  <2>3. KeysInv'
    BY <1>0, <1>1, <1>2, <1>3, <2>1, <2>2, OwnKey
  <2>4. DirInv'
    BY <1>0, <1>1, <1>2, <1>3, <1>4, <1>6, <2>1, <2>2 DEF DirInv, At, Installing, Entry
  <2>5. StepInv(call.key, call.step)'
    BY <1>0, <1>1, <1>2, <1>3, <1>4, <1>7, <2>1, <2>2 DEF StepInv, Aside, Noted, Placed, Back, Untouched, Entry
  <2> QED
    BY <1>3, <1>5, <2>2, <2>3, <2>4, <2>5 DEF Quiet
<1>12. CASE CopyCert
  <2>1. /\ call.step = "copy" /\ UNCHANGED <<backup, dir, state>>
        /\ call' = [call EXCEPT !.step = "record"]
        /\ target' = [target EXCEPT ![own] = Ours]
    BY <1>0, <1>12 DEF CopyCert, At, Goto
  <2>2. call' # NoCall /\ call'.key = own
    BY <1>0, <1>1, <1>3, <2>1 DEF Call, Step
  <2>3. KeysInv'
    BY <1>0, <1>1, <1>2, <1>3, <2>1, <2>2, OwnKey
  <2>4. DirInv'
    BY <1>0, <1>1, <1>2, <1>3, <1>4, <1>6, <2>1, <2>2 DEF DirInv, At, Installing, Entry
  <2>5. StepInv(call.key, call.step)'
    BY <1>0, <1>1, <1>2, <1>3, <1>4, <1>7, <2>1, <2>2 DEF StepInv, Aside, Noted, Placed, Back, Untouched, Entry
  <2> QED
    BY <1>3, <1>5, <2>2, <2>3, <2>4, <2>5 DEF Quiet
<1>13. CASE RecordTarget
  <2>1. /\ call.step = "record" /\ UNCHANGED <<target, backup, dir>> /\ call' = NoCall
        /\ state' = [state EXCEPT ![own] = @ \cup {"target"}]
    BY <1>0, <1>13 DEF RecordTarget, Record, At, Return
  <2>2. phase = "installing" /\ Placed(own)'
    BY <1>1, <1>2, <1>4, <1>6, <2>1 DEF StepInv, Installing, Placed, Back, Noted, Entry
  <2>3. KeysInv'
    BY <1>0, <1>1, <1>2, <1>3, <2>1, <2>2, OwnKey
  <2>4. DirInv'
    BY <1>0, <1>1, <1>2, <1>3, <1>4, <1>6, <2>1, <2>2 DEF DirInv, At, Installing, Entry
  <2> QED
    BY <1>3, <1>5, <2>1, <2>3, <2>4 DEF Quiet
<1>14. CASE Unlink
  <2>1. /\ call.step = "unlink" /\ UNCHANGED <<backup, dir, state>>
        /\ call' = [call EXCEPT !.step = "move_back"]
        /\ \/ "target" \in state[own] /\ target' = [target EXCEPT ![own] = Absent]
           \/ "target" \notin state[own] /\ UNCHANGED target
    BY <1>0, <1>14 DEF Unlink, At, Goto
  <2>2. call' # NoCall /\ call'.key = own
    BY <1>0, <1>1, <1>3, <2>1 DEF Call, Step
  <2>3. KeysInv'
    BY <1>0, <1>1, <1>2, <1>3, <2>1, <2>2, OwnKey
  <2>4. DirInv'
    BY <1>0, <1>1, <1>2, <1>3, <1>4, <1>6, <2>1, <2>2 DEF DirInv, At, Installing, Entry
  <2>5. StepInv(call.key, call.step)'
    BY <1>0, <1>1, <1>2, <1>3, <1>4, <1>7, <2>1, <2>2 DEF StepInv, Aside, Noted, Placed, Back, Untouched, Entry
  <2> QED
    BY <1>3, <1>5, <2>2, <2>3, <2>4, <2>5 DEF Quiet
<1>15. CASE MoveBack
  <2>1. /\ call.step = "move_back" /\ UNCHANGED <<dir, state>>
        /\ call' = [call EXCEPT !.step = "rmdir"]
        /\ \/ "backup" \notin state[own] /\ UNCHANGED <<target, backup>>
           \/ /\ {"backup", "target"} \subseteq state[own]
              /\ target' = [target EXCEPT ![own] = backup[own]]
              /\ backup' = [backup EXCEPT ![own] = Absent]
    BY <1>0, <1>15 DEF MoveBack, At, Goto, Raise
  <2>2. call' # NoCall /\ call'.key = own
    BY <1>0, <1>1, <1>3, <2>1 DEF Call, Step
  <2>3. KeysInv'
    BY <1>0, <1>1, <1>2, <1>3, <2>1, <2>2, OwnKey
  <2>4. DirInv'
    BY <1>0, <1>1, <1>2, <1>3, <1>4, <1>6, <2>1, <2>2 DEF DirInv, At, Installing, Entry
  <2>5. StepInv(call.key, call.step)'
    BY <1>0, <1>1, <1>2, <1>3, <1>4, <1>7, <2>1, <2>2 DEF StepInv, Aside, Noted, Placed, Back, Untouched, Entry
  <2> QED
    BY <1>3, <1>5, <2>2, <2>3, <2>4, <2>5 DEF Quiet
<1>16. CASE RemoveDir
  <2>1. /\ call.step = "rmdir" /\ UNCHANGED <<target, backup, state>> /\ call' = NoCall
        /\ dir' = (dir /\ ~("dir" \in state[own] /\ Empty))
    BY <1>0, <1>16 DEF RemoveDir, At, Return
  <2>2. phase = "removing" /\ Back(own)'
    BY <1>1, <1>2, <1>4, <1>6, <2>1 DEF StepInv, Installing, Placed, Back, Noted, Entry
  <2>3. KeysInv'
    BY <1>0, <1>1, <1>2, <1>3, <2>1, <2>2, OwnKey
  <2>4. ~At("record_dir") /\ ~At("record_dir")'
    BY <1>1, <2>1 DEF At
  <2>5. ASSUME firstDir PROVE DirInv'
    BY <1>0, <1>1, <1>3, <1>4, <2>1, <2>2, <2>4, <2>5 DEF DirInv
  <2>6. ASSUME ~firstDir, next > 0 PROVE DirInv'
    BY <1>0, <1>1, <1>3, <1>4, <2>1, <2>2, <2>4, <2>6 DEF DirInv
  <2>7. ASSUME ~firstDir, next = 0 PROVE DirInv'
    <3>1. own = Order[1] /\ Back(own)
      BY <1>4, <1>6, <2>1, <2>2, <2>7 DEF StepInv
    <3>2. ASSUME NEW k \in Key PROVE Back(k)
      <4>1. CASE \A i \in 1..Len(Order) : Order[i] # k
        BY <1>4, <4>1 DEF KeysInv, Untouched, Back
      <4>2. ASSUME NEW i \in 1..Len(Order), Order[i] = k PROVE Back(k)
        <5>1. Now(k) \/ Back(k)
          BY <1>4, <2>2, <2>7, <4>2 DEF KeysInv
        <5> QED
          BY <1>0, <3>1, <5>1 DEF Now
      <4> QED
        BY <4>1, <4>2
    <3>3. Empty
      BY <1>4, <2>7, <3>2 DEF Empty, FirstInv, Back
    <3>4. dir => "dir" \in state[own]
      BY <1>4, <2>4, <2>7, <3>1 DEF DirInv
    <3>5. dir' = FALSE
      BY <1>2, <2>1, <3>3, <3>4
    <3> QED
      BY <1>1, <1>3, <1>4, <2>1, <2>2, <2>4, <2>7, <3>5 DEF DirInv
  <2>8. DirInv'
    BY <1>6, <2>2, <2>5, <2>6, <2>7
  <2> QED
    BY <1>3, <1>5, <2>1, <2>3, <2>8 DEF Quiet
<1> QED
  BY <1>3, <1>8, <1>9, <1>10, <1>11, <1>12, <1>13, <1>14, <1>15, <1>16 DEF CallStep

LEMMA QuietInvariance == Spec => [](IInv /\ Quiet)
<1>1. Init => IInv /\ Quiet
  BY InitInv, InitQuiet
<1>2. IInv /\ Quiet /\ [Next]_certVars => (IInv /\ Quiet)'
  <2> SUFFICES ASSUME IInv, Quiet, [Next]_certVars PROVE Quiet'
    BY NextInv
  <2>1. CASE UNCHANGED certVars
    BY <2>1 DEF certVars, Quiet, FirstInv, KeysInv, DirInv, StepInv, Untouched, Placed, Back,
                Aside, Noted, Now, At
  <2>2. CASE Next
    BY <2>2, TestStepsQuiet, CallStepsQuiet DEF Next
  <2> QED
    BY <2>1, <2>2
<1> QED
  BY <1>1, <1>2, PTL DEF Spec

(* For every list of distinct keys: a run whose calls raise nothing leaves *)
(* targets, backups and directory as it found them, whether the directory  *)
(* was there or the first call made it for all (core 727-731, 744-752).    *)
THEOREM RunUndone == Spec => []Undone
<1>1. IInv /\ Quiet => Undone
  <2> SUFFICES ASSUME IInv, Quiet, phase = "done", raised = {}
               PROVE  target = first /\ dir = firstDir /\ \A k \in Key : backup[k] = Absent
    BY DEF Undone
  <2>1. \A k \in Key : target[k] = first[k] /\ backup[k] = Absent
    BY DEF Quiet, KeysInv, Back
  <2>2. target \in [Key -> Content] /\ first \in [Key -> Content]
        /\ dir \in BOOLEAN /\ firstDir \in BOOLEAN
    BY DEF IInv, TypeOK
  <2>3. target = first
    BY <2>1, <2>2
  <2>4. (firstDir => dir) /\ (dir => firstDir)
    BY DEF Quiet, DirInv
  <2> QED
    BY <2>1, <2>2, <2>3, <2>4
<1> QED
  BY <1>1, QuietInvariance, PTL

================================================================================
