---------------------------- MODULE MonitorFileProofs --------------------------
(***************************************************************************)
(* No line from before the call is taken for a new one, for any number of  *)
(* rotations and of pieces.                                                *)
(***************************************************************************)

EXTENDS MonitorFile, TLAPS

(* The file at the name is the newest, so a file that was moved away never *)
(* comes back to it, and a file never shrinks.                             *)
Names ==
  /\ name # NoIno => name = created
  /\ before # NoIno => before.ino <= created /\ before.size <= Len(data[before.ino])

(* The caller's stat is dropped only when its file is no longer the newest.*)
OldDropped == before # NoIno /\ oldStat # before => created > before.ino

(* The monitor has a file open exactly when it reads.                      *)
OpenWhen ==
  /\ pc \in {"stat", "open"} => monitored = NoIno
  /\ pc \in {"read", "check", "found"} => monitored # NoIno
  /\ monitored # NoIno => monitored <= created

(* Between its stat and its open, and as long as the caller's file is open,*)
(* the monitor stands behind what the caller had seen of that file; its    *)
(* own stat is of that file or of a newer one.                             *)
Behind ==
  /\ pc = "open" \/ monitored # NoIno => newStat \in Stat /\ newStat.ino <= created
  /\ before # NoIno =>
       /\ pc = "open" \/ monitored # NoIno => newStat.ino >= before.ino
       /\ pc = "open" /\ newStat.ino = before.ino => pos >= before.size
       /\ monitored = before.ino => pos >= before.size

FoundHere == pc = "found" => found = [ino |-> monitored, size |-> pos]

IInv == TypeOK /\ Names /\ OldDropped /\ OpenWhen /\ Behind /\ FoundHere /\ NoStaleMatch

--------------------------------------------------------------------------------
LEMMA InitInv == Init => IInv
<1> SUFFICES ASSUME Init PROVE IInv
  OBVIOUS
<1>1. 1 \in Inode /\ 1 \in 0..MaxInodes /\ 0 \in 0..MaxInodes
  BY BoundAssumption DEF Inode
<1>2. ASSUME NEW old \in {<<>>, <<"sentinel">>, <<"other">>}
      PROVE  old \in Seq(Piece) /\ Len(old) \in Nat
  <2>1. CASE old = <<>>
    BY <2>1
  <2>2. CASE old = <<"sentinel">>
    BY <2>2 DEF Piece
  <2>3. CASE old = <<"other">>
    BY <2>3 DEF Piece
  <2> QED
    BY <1>2, <2>1, <2>2, <2>3
<1>3. CASE name = NoIno /\ oldStat = NoIno /\ created = 0 /\ daemonFd = NoIno
           /\ data = [i \in Inode |-> <<>>]
  <2>1. data \in [Inode -> Seq(Piece)]
    BY <1>3
  <2> QED
    BY <1>1, <1>3, <2>1 DEF Init, IInv, TypeOK, Names, OldDropped, OpenWhen, Behind, FoundHere,
                            NoStaleMatch
<1>4. CASE /\ name = 1 /\ created = 1 /\ daemonFd \in {1, NoIno}
           /\ \E old \in {<<>>, <<"sentinel">>, <<"other">>} :
                /\ data = [i \in Inode |-> IF i = 1 THEN old ELSE <<>>]
                /\ oldStat = [ino |-> 1, size |-> Len(old)]
  <2>1. PICK old \in {<<>>, <<"sentinel">>, <<"other">>} :
          /\ data = [i \in Inode |-> IF i = 1 THEN old ELSE <<>>]
          /\ oldStat = [ino |-> 1, size |-> Len(old)]
    BY <1>4
  <2>2. old \in Seq(Piece) /\ Len(old) \in Nat
    BY <1>2
  <2>3. data \in [Inode -> Seq(Piece)] /\ data[1] = old
    BY <1>1, <2>1, <2>2
  <2>4. oldStat \in Stat /\ oldStat.ino = 1 /\ oldStat.size = Len(data[1])
    BY <1>1, <2>1, <2>2, <2>3 DEF Stat
  <2>5. before = oldStat /\ pc = "loop" /\ newStat = NoIno /\ monitored = NoIno /\ pos = 0
        /\ expired = FALSE /\ found = NoIno
    BY DEF Init
  <2>6. TypeOK
    BY <1>1, <1>4, <2>3, <2>4, <2>5 DEF TypeOK
  <2> QED
    BY <1>1, <1>4, <2>2, <2>3, <2>4, <2>5, <2>6, NoInoAssumption
       DEF IInv, Names, OldDropped, OpenWhen, Behind, FoundHere, NoStaleMatch
<1> QED
  BY <1>3, <1>4 DEF Init

(* The steps of the daemon and of the rotator: files appear and grow.      *)
LEMMA WorldInv ==
  ASSUME IInv, UNCHANGED monitor, created' \in created..MaxInodes,
         name' \in Inode \cup {NoIno}, name' # NoIno => name' = created',
         daemonFd' \in Inode \cup {NoIno}, expired' \in BOOLEAN,
         data' \in [Inode -> Seq(Piece)],
         \A i \in Inode : Len(data[i]) <= Len(data'[i])
  PROVE  IInv'
<1>1. TypeOK'
  BY DEF IInv, TypeOK, monitor
<1>2. created \in Nat /\ created' \in Nat /\ created <= created'
  BY BoundAssumption DEF IInv, TypeOK
<1>3. before # NoIno => before.ino \in Inode /\ before.ino \in Nat /\ before.size \in Nat
  BY BoundAssumption DEF IInv, TypeOK, Stat, Inode
<1>4. Names'
  <2>1. before # NoIno => before.size <= Len(data[before.ino])
    BY DEF IInv, Names
  <2>2. \A i \in Inode : Len(data[i]) \in Nat /\ Len(data'[i]) \in Nat
    BY DEF IInv, TypeOK
  <2> QED
    BY <1>2, <1>3, <2>1, <2>2 DEF IInv, Names, monitor
<1>5. (monitored # NoIno => monitored \in Nat) /\ (newStat \in Stat => newStat.ino \in Nat)
  BY BoundAssumption DEF IInv, TypeOK, Inode, Stat
<1>6. OldDropped'
  BY <1>2, <1>3 DEF IInv, OldDropped, monitor
<1>7. OpenWhen'
  BY <1>2, <1>5 DEF IInv, OpenWhen, monitor
<1>8. Behind'
  BY <1>2, <1>5 DEF IInv, Behind, monitor
<1>9. FoundHere' /\ NoStaleMatch'
  BY DEF IInv, FoundHere, NoStaleMatch, monitor
<1> QED
  BY <1>1, <1>4, <1>6, <1>7, <1>8, <1>9 DEF IInv

LEMMA DaemonOpenInv == ASSUME IInv, DaemonOpen PROVE IInv'
<1>1. created' \in created..MaxInodes /\ name' \in Inode \cup {NoIno}
      /\ (name' # NoIno => name' = created')
  BY BoundAssumption DEF DaemonOpen, IInv, TypeOK, Names, Inode
<1>2. daemonFd' \in Inode \cup {NoIno}
  BY <1>1 DEF DaemonOpen
<1>3. \A i \in Inode : Len(data[i]) <= Len(data'[i])
  BY DEF DaemonOpen, IInv, TypeOK
<1> QED
  BY <1>1, <1>2, <1>3, WorldInv DEF DaemonOpen, IInv, TypeOK

LEMMA DaemonWriteInv == ASSUME IInv, DaemonWrite PROVE IInv'
<1>1. daemonFd \in Inode
  BY DEF DaemonWrite, IInv, TypeOK
<1>2. PICK piece \in Piece : data' = [data EXCEPT ![daemonFd] = Append(@, piece)]
  BY DEF DaemonWrite
<1>3. \A i \in Inode : data[i] \in Seq(Piece)
  BY DEF IInv, TypeOK
<1>4. Append(data[daemonFd], piece) \in Seq(Piece)
      /\ Len(Append(data[daemonFd], piece)) = Len(data[daemonFd]) + 1
  BY <1>1, <1>3
<1>5. data' \in [Inode -> Seq(Piece)]
  BY <1>1, <1>2, <1>4 DEF IInv, TypeOK
<1>6. \A i \in Inode : data'[i] = IF i = daemonFd THEN Append(data[i], piece) ELSE data[i]
  BY <1>2 DEF IInv, TypeOK
<1>7. \A i \in Inode : Len(data[i]) <= Len(data'[i])
  <2> SUFFICES ASSUME NEW i \in Inode PROVE Len(data[i]) <= Len(data'[i])
    OBVIOUS
  <2>1. Len(data[i]) \in Nat
    BY <1>3
  <2>2. CASE i = daemonFd
    <3>1. data'[i] = Append(data[daemonFd], piece)
      BY <1>6, <2>2
    <3>2. Len(data'[i]) = Len(data[daemonFd]) + 1
      BY <1>4, <3>1
    <3> QED
      BY <2>1, <2>2, <3>2
  <2>3. CASE i # daemonFd
    BY <1>6, <2>1, <2>3
  <2> QED
    BY <2>2, <2>3
<1>8. created' \in created..MaxInodes
  BY BoundAssumption DEF DaemonWrite, IInv, TypeOK
<1> QED
  BY <1>5, <1>7, <1>8, WorldInv DEF DaemonWrite, IInv, TypeOK, Names

LEMMA RotateInv == ASSUME IInv, Rotate \/ RotatorCreates \/ TimePasses PROVE IInv'
<1>1. created' \in created..MaxInodes /\ name' \in Inode \cup {NoIno}
      /\ (name' # NoIno => name' = created')
  BY BoundAssumption DEF Rotate, RotatorCreates, TimePasses, IInv, TypeOK, Names, Inode, world
<1>2. data' = data /\ daemonFd' = daemonFd /\ UNCHANGED monitor /\ expired' \in BOOLEAN
  BY DEF Rotate, RotatorCreates, TimePasses, IInv, TypeOK, world
<1>3. \A i \in Inode : Len(data[i]) <= Len(data'[i])
  BY <1>2 DEF IInv, TypeOK
<1> QED
  BY <1>1, <1>2, <1>3, WorldInv DEF IInv, TypeOK

LEMMA LoopInv == ASSUME IInv, Loop PROVE IInv'
BY DEF Loop, world, IInv, TypeOK, Names, OldDropped, OpenWhen, Behind, FoundHere, NoStaleMatch

LEMMA StatFileInv == ASSUME IInv, StatFile PROVE IInv'
<1>1. CASE name = NoIno
  BY <1>1 DEF StatFile, world, IInv, TypeOK, Names, OldDropped, OpenWhen, Behind, FoundHere,
              NoStaleMatch
<1>2. CASE name # NoIno
  <2>1. /\ name \in Inode /\ name = created /\ name \in Nat
        /\ Len(data[name]) \in Nat /\ monitored = NoIno
    BY <1>2, BoundAssumption DEF StatFile, IInv, TypeOK, Names, OpenWhen, Inode
  <2>2. /\ newStat' = [ino |-> name, size |-> Len(data[name])]
        /\ pos' = (IF oldStat = NoIno \/ newStat'.ino # oldStat.ino
                      \/ newStat'.size < oldStat.size THEN 0 ELSE oldStat.size)
        /\ pc' = "open" /\ UNCHANGED <<world, oldStat, monitored, expired, found>>
    BY <1>2 DEF StatFile
  <2>3. newStat' \in Stat /\ newStat'.ino = name /\ newStat'.size = Len(data[name])
    BY <2>1, <2>2 DEF Stat
  <2>4. oldStat # NoIno => oldStat.size \in Nat
    BY DEF IInv, TypeOK, Stat
  <2>5. pos' \in Nat
    BY <2>2, <2>4
  <2>6. TypeOK'
    BY <2>2, <2>3, <2>5 DEF IInv, TypeOK, world
  <2>7. ASSUME before # NoIno
        PROVE  newStat'.ino >= before.ino /\ (newStat'.ino = before.ino => pos' >= before.size)
    <3>1. before.ino <= created /\ before.size <= Len(data[before.ino]) /\ before.size \in Nat
          /\ before.ino \in Nat
      BY <2>7, BoundAssumption DEF IInv, Names, TypeOK, Stat, Inode
    <3>2. ASSUME newStat'.ino = before.ino PROVE pos' >= before.size
      <4>1. oldStat = before
        BY <2>1, <2>3, <2>7, <3>1, <3>2 DEF IInv, OldDropped
      <4>2. ~(newStat'.size < oldStat.size)
        BY <2>1, <2>3, <3>1, <3>2, <4>1
      <4> QED
        BY <2>2, <2>7, <3>1, <3>2, <4>1, <4>2
    <3> QED
      BY <2>1, <2>3, <3>1, <3>2
  <2>8. Behind'
    BY <2>1, <2>2, <2>3, <2>7, NoInoAssumption DEF IInv, TypeOK, Behind, Stat, world
  <2> QED
    BY <2>1, <2>2, <2>3, <2>6, <2>8
       DEF IInv, Names, OldDropped, OpenWhen, FoundHere, NoStaleMatch, world
<1> QED
  BY <1>1, <1>2

LEMMA OpenFileInv == ASSUME IInv, OpenFile PROVE IInv'
<1>1. CASE name = NoIno
  BY <1>1 DEF OpenFile, world, IInv, TypeOK, Names, OldDropped, OpenWhen, Behind, FoundHere,
              NoStaleMatch
<1>2. CASE name # NoIno
  <2>1. name \in Inode /\ name = created /\ name \in Nat
    BY <1>2, BoundAssumption DEF IInv, TypeOK, Names, Inode
  <2>2. /\ pc = "open" /\ pc' = "read" /\ monitored' = name
        /\ UNCHANGED <<world, oldStat, newStat, pos, expired, found>>
    BY <1>2 DEF OpenFile
  <2>3. ASSUME before # NoIno, name = before.ino PROVE pos >= before.size
    <3>1. /\ newStat.ino >= before.ino /\ newStat.ino <= created /\ newStat.ino \in Nat
          /\ before.ino \in Nat
      BY <2>2, <2>3, BoundAssumption DEF IInv, Behind, TypeOK, Stat, Inode
    <3> QED
      BY <2>1, <2>2, <2>3, <3>1 DEF IInv, Behind
  <2> QED
    BY <1>2, <2>1, <2>2, <2>3
       DEF IInv, TypeOK, Names, OldDropped, OpenWhen, Behind, FoundHere, NoStaleMatch, world
<1> QED
  BY <1>1, <1>2

LEMMA ReadLineInv == ASSUME IInv, ReadLine PROVE IInv'
<1>1. monitored \in Inode /\ pos \in Nat /\ monitored # NoIno
  BY NoInoAssumption DEF ReadLine, IInv, OpenWhen, TypeOK
<1>2. CASE pos < Len(data[monitored])
  <2>1. pos' \in {pos + 1, pos + 2}
    BY <1>2 DEF ReadLine, LineEnd
  <2>2. pos' \in Nat /\ pos' > pos
    BY <1>1, <2>1
  <2>3. UNCHANGED <<world, oldStat, newStat, monitored, expired>>
        /\ (\/ pc' = "found" /\ found' = [ino |-> monitored, size |-> pos']
            \/ pc' = "loop" /\ found' = found)
    BY <1>2 DEF ReadLine
  <2>4. [ino |-> monitored, size |-> pos'] \in Stat
    BY <1>1, <2>2 DEF Stat
  <2>5. TypeOK'
    BY <2>2, <2>3, <2>4 DEF IInv, TypeOK, world
  <2>6. before # NoIno /\ monitored = before.ino => pos' > before.size /\ before.size \in Nat
    BY <1>1, <2>2 DEF IInv, Behind, TypeOK, Stat
  <2>7. NoStaleMatch'
    BY <2>3, <2>6 DEF NoStaleMatch, world
  <2> QED
    BY <1>1, <2>2, <2>3, <2>5, <2>6, <2>7
       DEF IInv, Names, OldDropped, OpenWhen, Behind, FoundHere, world
<1>3. CASE ~(pos < Len(data[monitored]))
  BY <1>1, <1>3 DEF ReadLine, world, IInv, TypeOK, Names, OldDropped, OpenWhen, Behind,
                    FoundHere, NoStaleMatch
<1> QED
  BY <1>2, <1>3

LEMMA CheckMovedInv == ASSUME IInv, CheckMoved PROVE IInv'
<1>1. pc = "check" /\ monitored # NoIno /\ pos' = pos /\ newStat' = newStat /\ found' = found
      /\ UNCHANGED <<world, expired>> /\ pc' \in {"error", "loop"}
  BY DEF CheckMoved, IInv, OpenWhen
<1>2. CASE UNCHANGED <<oldStat, monitored>>
  BY <1>1, <1>2 DEF world, IInv, TypeOK, Names, OldDropped, OpenWhen, Behind, FoundHere,
                    NoStaleMatch
<1>3. CASE name # NoIno /\ name # newStat.ino /\ oldStat' = NoIno /\ monitored' = NoIno
           /\ pc' = "loop"
  <2>1. name \in Nat /\ name = created /\ newStat \in Stat /\ newStat.ino \in Nat
        /\ newStat.ino <= created
    BY <1>1, <1>3, BoundAssumption DEF IInv, TypeOK, Names, Behind, Inode, Stat
  <2>2. ASSUME before # NoIno
        PROVE  created > before.ino /\ NoIno # before.ino
    <3>1. before.ino \in Inode /\ before.ino \in Nat /\ newStat.ino >= before.ino
      BY <1>1, <2>2, BoundAssumption DEF IInv, TypeOK, Behind, Inode, Stat
    <3> QED
      BY <1>3, <2>1, <3>1, NoInoAssumption
  <2>3. TypeOK'
    BY <1>1, <1>3 DEF IInv, TypeOK, world
  <2> QED
    BY <1>1, <1>3, <2>2, <2>3 DEF IInv, Names, OldDropped, OpenWhen, Behind, FoundHere,
                                  NoStaleMatch, world
<1> QED
  BY <1>1, <1>2, <1>3 DEF CheckMoved

LEMMA Invariance == Spec => []IInv
<1>1. IInv /\ [Next]_vars => IInv'
  <2> SUFFICES ASSUME IInv, [Next]_vars PROVE IInv'
    OBVIOUS
  <2>1. CASE UNCHANGED vars
    BY <2>1 DEF vars, IInv, TypeOK, Names, OldDropped, OpenWhen, Behind, FoundHere, NoStaleMatch
  <2> QED
    BY <2>1, LoopInv, StatFileInv, OpenFileInv, ReadLineInv, CheckMovedInv, DaemonOpenInv,
       DaemonWriteInv, RotateInv DEF Next, MonitorStep
<1> QED
  BY <1>1, InitInv, PTL DEF Spec

(* The types of a call of monitor_file, for any number of files and pieces.*)
THEOREM MonitorTypes == Spec => []TypeOK
<1>1. IInv => TypeOK
  BY DEF IInv
<1> QED
  BY <1>1, Invariance, PTL

(* "the monitoring will start at the file position given by the length of  *)
(* the old stat" (core 218-219), through any number of rotations between   *)
(* the caller's stat, the monitor's stat and its open.                     *)
THEOREM NeverStale == Spec => []NoStaleMatch
<1>1. IInv => NoStaleMatch
  BY DEF IInv
<1> QED
  BY <1>1, Invariance, PTL

================================================================================
