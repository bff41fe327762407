------------------------------ MODULE MonitorFile ------------------------------
(***************************************************************************)
(* monitor_file of osgtest/library/core.py: wait until a daemon writes a   *)
(* sentinel to its log. Three processes share the file system: the monitor *)
(* polls, the daemon appends to the file it has open, and the log rotator  *)
(* moves the file away, after which a new one appears at the name.         *)
(*                                                                         *)
(* A file is an inode with a sequence of pieces of text; positions and     *)
(* sizes count pieces. A line is one piece, or two when the daemon's       *)
(* buffer is flushed in the middle of it.                                  *)
(***************************************************************************)

EXTENDS Naturals, Sequences

CONSTANTS
  NoIno,       \* nothing at the name; no file open; no old stat
  MaxInodes,   \* bound: files that are ever at the name
  MaxPieces    \* bound: pieces in one file

Inode == 1..MaxInodes

ASSUME BoundAssumption == MaxInodes \in Nat \ {0} /\ MaxPieces \in Nat
ASSUME NoInoAssumption == NoIno \notin Inode

(* "sentinel" and "other" are whole lines, "begin" and "end" the two parts *)
(* of a line in which the sentinel lies across the flush.                  *)
Piece == {"sentinel", "other", "begin", "end"}
Stat == [ino : Inode, size : Nat]

VARIABLES
  data,      \* [Inode -> Seq(Piece)]
  name,      \* the inode at the monitored name
  created,   \* inodes created so far
  daemonFd,  \* the inode that the daemon appends to
  pc,        \* the monitor: what it does next
  oldStat,   \* the os.stat the caller took, NoIno for None
  newStat,   \* the os.stat of the file now monitored
  monitored, \* monitored_file: the inode open
  pos,       \* the position in it
  expired,   \* time.time() is past end_time
  found,     \* [ino, size]: the end of the line that matched, or NoIno
  before     \* history: the oldStat that the call was given

vars == <<data, name, created, daemonFd, pc, oldStat, newStat, monitored, pos,
          expired, found, before>>

monitor == <<pc, oldStat, newStat, monitored, pos, found, before>>
world == <<data, name, created, daemonFd, before>>

TypeOK ==
  /\ data \in [Inode -> Seq(Piece)]
  /\ name \in Inode \cup {NoIno} /\ daemonFd \in Inode \cup {NoIno}
  /\ created \in 0..MaxInodes
  /\ pc \in {"loop", "stat", "open", "read", "check", "found", "timeout", "error"}
  /\ oldStat \in Stat \cup {NoIno} /\ newStat \in Stat \cup {NoIno}
  /\ monitored \in Inode \cup {NoIno}
  /\ pos \in Nat /\ expired \in BOOLEAN
  /\ found \in Stat \cup {NoIno} /\ before \in Stat \cup {NoIno}

(* The caller has just taken the old stat; a log that exists may hold the  *)
(* sentinel of an earlier start of the daemon.                             *)
Init ==
  /\ \/ /\ name = NoIno /\ created = 0 /\ daemonFd = NoIno
        /\ data = [i \in Inode |-> <<>>]
        /\ oldStat = NoIno
     \/ /\ name = 1 /\ created = 1 /\ daemonFd \in {1, NoIno}
        /\ \E old \in {<<>>, <<"sentinel">>, <<"other">>} :
             /\ data = [i \in Inode |-> IF i = 1 THEN old ELSE <<>>]
             /\ oldStat = [ino |-> 1, size |-> Len(old)]
  /\ pc = "loop" /\ newStat = NoIno /\ monitored = NoIno /\ pos = 0
  /\ expired = FALSE /\ found = NoIno /\ before = oldStat

--------------------------------------------------------------------------------
(* The daemon and the rotator.                                             *)

(* The daemon opens the name, creating the file if there is none. *)
DaemonOpen ==
  /\ daemonFd # name \/ name = NoIno
  /\ IF name = NoIno
       THEN /\ created < MaxInodes
            /\ created' = created + 1 /\ name' = created + 1
       ELSE UNCHANGED <<created, name>>
  /\ daemonFd' = name'
  /\ UNCHANGED <<data, expired, monitor>>

InLine(i) == data[i] # <<>> /\ data[i][Len(data[i])] = "begin"

DaemonWrite ==
  /\ daemonFd # NoIno /\ Len(data[daemonFd]) < MaxPieces
  /\ \E piece \in Piece :
       /\ piece = "end" <=> InLine(daemonFd)
       /\ data' = [data EXCEPT ![daemonFd] = Append(@, piece)]
  /\ UNCHANGED <<name, created, daemonFd, expired, monitor>>

(* The file is moved away; the daemon still has it open. *)
Rotate ==
  /\ name # NoIno
  /\ name' = NoIno
  /\ UNCHANGED <<data, created, daemonFd, expired, monitor>>

(* The rotator creates an empty file in its place. *)
RotatorCreates ==
  /\ name = NoIno /\ created > 0 /\ created < MaxInodes
  /\ created' = created + 1 /\ name' = created + 1
  /\ UNCHANGED <<data, daemonFd, expired, monitor>>

TimePasses ==
  /\ ~expired /\ expired' = TRUE
  /\ UNCHANGED <<world, monitor>>

--------------------------------------------------------------------------------
(* The monitor.                                                            *)

(* Mutant: the time is tested only while no file is open. *)
LoopUntimed ==
  /\ pc = "loop"
  /\ \/ expired /\ monitored = NoIno /\ pc' = "timeout"
     \/ monitored # NoIno /\ pc' = "read"
     \/ ~expired /\ monitored = NoIno /\ name # NoIno /\ pc' = "stat"
  /\ UNCHANGED <<world, oldStat, newStat, monitored, pos, expired, found>>

(* The top of the loop: the time test, and os.path.exists if no file is    *)
(* open; without a file it sleeps and comes back here.                     *)
Loop ==
  /\ pc = "loop"
  /\ \/ expired /\ pc' = "timeout"
     \/ ~expired /\ monitored # NoIno /\ pc' = "read"
     \/ ~expired /\ monitored = NoIno /\ name # NoIno /\ pc' = "stat"
  /\ UNCHANGED <<world, oldStat, newStat, monitored, pos, expired, found>>

(* Mutants: the file is read from its start; from its end. *)
StatFileFromStart ==
  /\ pc = "stat"
  /\ IF name = NoIno
       THEN pc' = "error" /\ UNCHANGED <<newStat, pos>>
       ELSE /\ newStat' = [ino |-> name, size |-> Len(data[name])]
            /\ pos' = 0 /\ pc' = "open"
  /\ UNCHANGED <<world, oldStat, monitored, expired, found>>

StatFileFromEnd ==
  /\ pc = "stat"
  /\ IF name = NoIno
       THEN pc' = "error" /\ UNCHANGED <<newStat, pos>>
       ELSE /\ newStat' = [ino |-> name, size |-> Len(data[name])]
            /\ pos' = newStat'.size /\ pc' = "open"
  /\ UNCHANGED <<world, oldStat, monitored, expired, found>>

(* os.stat raises FileNotFoundError if the file has just been moved. *)
StatFile ==
  /\ pc = "stat"
  /\ IF name = NoIno
       THEN pc' = "error" /\ UNCHANGED <<newStat, pos>>
       ELSE /\ newStat' = [ino |-> name, size |-> Len(data[name])]
            /\ pos' = IF \/ oldStat = NoIno
                         \/ newStat'.ino # oldStat.ino
                         \/ newStat'.size < oldStat.size
                        THEN 0 ELSE oldStat.size
            /\ pc' = "open"
  /\ UNCHANGED <<world, oldStat, monitored, expired, found>>

OpenFile ==
  /\ pc = "open"
  /\ IF name = NoIno
       THEN pc' = "error" /\ UNCHANGED monitored
       ELSE pc' = "read" /\ monitored' = name
  /\ UNCHANGED <<world, oldStat, newStat, pos, expired, found>>

(* readline: up to the end of a line or of the file. *)
LineEnd(i, p) ==
  IF data[i][p + 1] = "begin" /\ p + 2 <= Len(data[i]) THEN p + 2 ELSE p + 1

(* The sentinel is in the text read: one whole line, or both parts. *)
Matches(i, p) ==
  data[i][p + 1] = "sentinel" \/ LineEnd(i, p) = p + 2

ReadLine ==
  /\ pc = "read"
  /\ IF pos < Len(data[monitored])
       THEN /\ pos' = LineEnd(monitored, pos)
            /\ IF Matches(monitored, pos)
                 THEN pc' = "found" /\ found' = [ino |-> monitored, size |-> pos']
                 ELSE pc' = "loop" /\ UNCHANGED found
       ELSE pc' = "check" /\ UNCHANGED <<pos, found>>
  /\ UNCHANGED <<world, oldStat, newStat, monitored, expired>>

(* At the end of the file: has the name another inode? os.stat raises if   *)
(* it has none.                                                            *)
CheckMoved ==
  /\ pc = "check"
  /\ \/ /\ name = NoIno
        /\ pc' = "error"
        /\ UNCHANGED <<oldStat, monitored, newStat>>
     \/ /\ name # NoIno /\ name # newStat.ino
        /\ oldStat' = NoIno /\ monitored' = NoIno
        /\ pc' = "loop"
        /\ UNCHANGED newStat
     \/ /\ name = newStat.ino
        /\ pc' = "loop"
        /\ UNCHANGED <<oldStat, monitored, newStat>>
  /\ UNCHANGED <<world, pos, expired, found>>

MonitorStep == Loop \/ StatFile \/ OpenFile \/ ReadLine \/ CheckMoved

Next ==
  \/ MonitorStep
  \/ DaemonOpen \/ DaemonWrite \/ Rotate \/ RotatorCreates
  \/ TimePasses

(* The monitor runs; the daemon and the rotator need not, nor time end. *)
Spec == Init /\ [][Next]_vars /\ WF_vars(MonitorStep)

--------------------------------------------------------------------------------
(* Properties.                                                             *)

(* "the monitoring will start at the file position given by the length of  *)
(* the old stat" (core 218-219): a sentinel that an earlier start of the   *)
(* daemon left in the file is never taken for the new one, whatever        *)
(* rotations happen between the caller's stat, the monitor's stat and the  *)
(* open (core 243-251).                                                    *)
NoStaleMatch ==
  pc = "found" /\ before # NoIno /\ found.ino = before.ino
    => found.size > before.size

(* Every call returns or raises once its time is up, whatever the daemon   *)
(* and the rotator do: reading a log that grows faster than it is read     *)
(* does not keep the loop from testing the time (core 238).                *)
CallEnds == expired ~> (pc \in {"found", "timeout", "error"})

(* The daemon has written a sentinel after the caller's stat. *)
NewSentinel ==
  \E i \in Inode : \E k \in DOMAIN data[i] :
    /\ data[i][k] = "sentinel"
    /\ before # NoIno /\ before.ino = i => k > before.size

(* The log has been moved away at least once. *)
Rotated == created > 1 \/ (created = 1 /\ name = NoIno)

(* As long as the log stays in place and there is time, a sentinel written *)
(* at any time after the caller's stat, before or after the monitor opens  *)
(* the file, whole lines and parts of lines around it, is found            *)
(* (core 238-268).                                                         *)
SentinelFound == NewSentinel ~> (pc = "found" \/ expired \/ Rotated)

================================================================================
