------------------------------- MODULE Lifecycle -------------------------------
(***************************************************************************)
(* Four pairs of set-up and tear-down tests in one run of osg-test:        *)
(* mysqld 050/950, munge 070/940, xrootd 150/840 and VOMS 200/780, and the *)
(* last test of special_cleanup. A test is a sequence of statements, each  *)
(* of which can fail; a test that fails or skips ends there and the next   *)
(* one starts. Service gives the calls of service.py, BackupStore those of *)
(* files.py (Files implements it).                                         *)
(*                                                                         *)
(* The packages of the pairs are installed and no --exit-on-fail is given; *)
(* TestRunner has what that option does.                                   *)
(***************************************************************************)

EXTENDS Service, Sequences, FiniteSets

CONSTANTS MaxFaults  \* failing statements, daemons that die or are slow, in one run

Services == {"mariadb", "munge", "xrootd", "voms"}
ASSUME ServiceAssumption == Service = Services /\ MaxFaults \in Nat

Path == {"munge.key", "xrootd.cfg", "scitokens.conf", "vomses"}
Owner == {"munge", "xrootd", "voms"}
OwnerOf == [p \in Path |-> CASE p = "munge.key" -> "munge" [] p = "vomses" -> "voms"
                             [] OTHER -> "xrootd"]
Content == {"found", "test"}
NotSaved == "not_saved"

Key == {"xrootd.is-configured", "xrootd.backups-exist", "xrootd.service-was-running",
        "voms.started-server", "mysql.backup"}

(* What is in the data directory of MySQL, or "none". *)
Data == [origin : Content, holds : SUBSET {"vo", "user"}]
NoData == [origin |-> "none", holds |-> {}]
NewData == [origin |-> "test", holds |-> {}]
FoundData == [origin |-> "found", holds |-> {}]

VARIABLES
  pc,           \* [test, line]: the statement that comes next
  state,        \* [Key -> {"no", "yes"}]: core.state, core.config
  content,      \* [Path -> Content], for BackupStore
  saved,        \* the backups, for BackupStore
  made,         \* SUBSET {"lsc", "conf"}: directories of the virtual organisation
  data,         \* the data directory of MySQL
  databackup,   \* its -backup
  backupmysql,  \* option
  failed,       \* SUBSET of the numbers of the tests: errors and failures
  interrupted,  \* BOOLEAN: Ctrl-C started the second run
  faults,       \* 0..MaxFaults
  hadData,      \* history: MySQL had databases before osg-test
  ran,          \* history: the services that ran before osg-test
  died,         \* history: the services that died by themselves
  unnoticed     \* history: the failures that the code does not look at

machineVars == <<content, saved, made, data, databackup>>
historyVars == <<hadData, ran, died, unnoticed>>
vars == <<serviceVars, pc, state, machineVars, backupmysql, failed, interrupted,
          faults, historyVars>>

Store == INSTANCE BackupStore WITH FileState <- Content

--------------------------------------------------------------------------------
(* Statements, and the functions of the library that are sequences of them. *)

Set(k, v) == [op |-> "set", key |-> k, value |-> v]
ResetFlag(s) == [op |-> "reset_flag", svc |-> s]
ReturnUnlessOption == [op |-> "unless_option"]
SkipUnless(k) == [op |-> "skip_unless", key |-> k]
SkipUnlessStarted(s) == [op |-> "skip_unless_started", svc |-> s]
SkipIfRunning(s) == [op |-> "skip_if_running", svc |-> s]
If(k, n) == [op |-> "if", key |-> k, length |-> n]
IfRunning(s, n) == [op |-> "if_running", svc |-> s, length |-> n]
ServiceCall(fn, s, force) == [op |-> "call", fn |-> fn, svc |-> s, force |-> force]
Command == [op |-> "command"]
Preserve(p, o) == [op |-> "preserve", path |-> p, owner |-> o]
Change(p) == [op |-> "change", path |-> p]
Restore(p, o) == [op |-> "restore", path |-> p, owner |-> o]
Make(x) == [op |-> "make", item |-> x]
Destroy(x) == [op |-> "destroy", item |-> x]
Sql(add, remove) == [op |-> "sql", add |-> add, remove |-> remove]
InstallDb == [op |-> "install_db"]
MoveData == [op |-> "move_data"]
RemoveData == [op |-> "remove_data"]
MoveDataBack == [op |-> "move_data_back"]
CheckBackups == [op |-> "check_backups"]

(* files.write with a backup. *)
Write(p, o) == <<Preserve(p, o), Change(p)>>

mysql_start == <<ServiceCall("check_start", "mariadb", FALSE)>>
mysql_stop == <<ServiceCall("check_stop", "mariadb", FALSE)>>

create_vo == <<Sql({"user"}, {}), InstallDb>>
advertise_lsc == <<Command, Make("lsc"), Command>>
advertise_vomses == <<Command, Change("vomses")>>
destroy_lsc == <<Destroy("lsc")>>
destroy_db == <<Sql({}, {"vo"}), Sql({}, {"user"})>>
destroy_voms_conf == <<Destroy("conf")>>

--------------------------------------------------------------------------------
(* The tests, in the order of the run.                                     *)

BackupMysql ==
  <<ReturnUnlessOption, Set("mysql.backup", "no")>> \o mysql_start \o <<Command>>
    \o mysql_stop \o <<MoveData>>
StartMysqld == mysql_start

StartMunge ==
  <<ResetFlag("munge"), SkipIfRunning("munge"), Preserve("munge.key", "munge"),
    Change("munge.key"), Command, ServiceCall("check_start", "munge", FALSE)>>

ConfigureXrootd ==
  <<Set("xrootd.is-configured", "no"), Set("xrootd.backups-exist", "no"), Command>>
    \o Write("xrootd.cfg", "xrootd")
    \o <<Command, Set("xrootd.backups-exist", "yes"), Set("xrootd.is-configured", "yes")>>
ConfigureScitokens ==
  Write("scitokens.conf", "xrootd") \o <<Change("xrootd.cfg")>>

(* Mutant: nobody remembers that xrootd ran. *)
StartXrootdForgets ==
  <<SkipUnless("xrootd.is-configured"), Set("xrootd.service-was-running", "no"),
    IfRunning("xrootd", 1),
    ServiceCall("stop", "xrootd", TRUE), ServiceCall("check_start", "xrootd", FALSE)>>

StartXrootd ==
  <<SkipUnless("xrootd.is-configured"), Set("xrootd.service-was-running", "no"),
    IfRunning("xrootd", 2), Set("xrootd.service-was-running", "yes"),
    ServiceCall("stop", "xrootd", TRUE), ServiceCall("check_start", "xrootd", FALSE)>>

CreateVo == destroy_db \o destroy_voms_conf \o create_vo
Advertise == advertise_lsc \o <<Preserve("vomses", "voms")>> \o advertise_vomses
StartVoms ==
  <<Set("voms.started-server", "no"), ServiceCall("check_start", "voms", FALSE),
    Set("voms.started-server", "yes")>>

StopVoms ==
  <<SkipUnless("voms.started-server"), ServiceCall("check_stop", "voms", FALSE)>>

(* Mutant: as the test before it, skipped if the server was not started. *)
RestoreVomsesIfStarted ==
  <<SkipUnless("voms.started-server")>> \o destroy_lsc \o <<Restore("vomses", "voms")>>

RestoreVomses == destroy_lsc \o <<Restore("vomses", "voms")>>

(* Mutant: the configuration stays. *)
RemoveVoDbOnly == destroy_db

RemoveVo == destroy_db \o destroy_voms_conf

StopXrootd ==
  <<If("xrootd.backups-exist", 2), Restore("xrootd.cfg", "xrootd"),
    Restore("scitokens.conf", "xrootd"), SkipUnless("xrootd.is-configured"),
    IfRunning("xrootd", 1), ServiceCall("check_stop", "xrootd", TRUE),
    If("xrootd.service-was-running", 1), ServiceCall("check_start", "xrootd", TRUE)>>

(* Mutant: the key comes back under the running daemon. *)
StopMungeRestoreFirst ==
  <<SkipUnlessStarted("munge"), Restore("munge.key", "munge"),
    ServiceCall("check_stop", "munge", FALSE)>>

StopMunge ==
  <<SkipUnlessStarted("munge"), ServiceCall("check_stop", "munge", FALSE),
    Restore("munge.key", "munge")>>

StopMysqld == mysql_stop
RestoreMysql == <<ReturnUnlessOption, If("mysql.backup", 2), RemoveData, MoveDataBack>>

LastTest == <<CheckBackups>>

Plan == <<BackupMysql, StartMysqld, StartMunge, ConfigureXrootd, ConfigureScitokens,
          StartXrootd, CreateVo, Advertise, StartVoms,
          StopVoms, RestoreVomses, RemoveVo, StopXrootd, StopMunge, StopMysqld,
          RestoreMysql, LastTest>>

Test == 1..Len(Plan)

--------------------------------------------------------------------------------

TypeOK ==
  /\ ServiceTypeOK
  /\ pc \in [test : 1..(Len(Plan) + 1), line : 1..9]
  /\ state \in [Key -> {"no", "yes"}]
  /\ content \in [Path -> Content]
  /\ saved \in [Path \X Owner -> Content \cup {NotSaved}]
  /\ made \subseteq {"lsc", "conf"}
  /\ data \in Data \cup {NoData} /\ databackup \in Data \cup {NoData}
  /\ backupmysql \in BOOLEAN /\ interrupted \in BOOLEAN
  /\ unnoticed \subseteq {"sql", "conf", "move"}
  /\ failed \subseteq Test /\ faults \in 0..MaxFaults
  /\ hadData \in BOOLEAN /\ ran \subseteq Service /\ died \subseteq Service

(* A run that was cut off may have left the databases in the backup. *)
Init ==
  /\ pc = [test |-> 1, line |-> 1]
  /\ state = [k \in Key |-> "no"]
  /\ Store!Init /\ content = [p \in Path |-> "found"]
  /\ made = {}
  /\ \/ hadData = FALSE /\ data = NoData /\ databackup = NoData
     \/ hadData = TRUE /\ data = FoundData /\ databackup = NoData
     \/ hadData = TRUE /\ data = NewData /\ databackup = FoundData
  /\ backupmysql \in BOOLEAN
  /\ failed = {} /\ interrupted = FALSE /\ faults = 0
  /\ ran \in SUBSET {"mariadb", "munge", "xrootd"}
  /\ daemon = [s \in Service |-> IF s \in ran THEN "running" ELSE "dead"]
  /\ "mariadb" \in ran => hadData
  /\ started = [s \in Service |-> FALSE] /\ call = NoCall
  /\ died = {} /\ unnoticed = {}

Done == pc.test > Len(Plan)
This == Plan[pc.test][pc.line]
Statement(op) == ~Done /\ call = NoCall /\ This.op = op

NextTest == pc' = [test |-> pc.test + 1, line |-> 1]

(* On to the statement n lines below, or to the next test. *)
Advance(n) ==
  IF pc.line + n <= Len(Plan[pc.test]) THEN pc' = [pc EXCEPT !.line = @ + n] ELSE NextTest

Continue == Advance(1) /\ UNCHANGED <<failed, faults>>
Raise == NextTest /\ failed' = failed \cup {pc.test}
Fault == faults < MaxFaults /\ faults' = faults + 1

(* The statement works, and machine says what it does. *)
Works == Continue /\ UNCHANGED <<serviceVars, state, backupmysql, interrupted, historyVars>>

(* It raises without having done anything. *)
Fails ==
  /\ Fault /\ Raise
  /\ UNCHANGED <<serviceVars, state, machineVars, backupmysql, interrupted, historyVars>>

NoMachine == UNCHANGED machineVars

SetKey ==
  /\ Statement("set")
  /\ state' = [state EXCEPT ![This.key] = This.value]
  /\ Continue
  /\ UNCHANGED <<serviceVars, machineVars, backupmysql, interrupted, historyVars>>

ResetStarted ==
  /\ Statement("reset_flag")
  /\ started' = [started EXCEPT ![This.svc] = FALSE]
  /\ Continue
  /\ UNCHANGED <<daemon, call, state, machineVars, backupmysql, interrupted,
                 historyVars>>

(* The number of lines to go on by: a test that skips goes to its end.     *)
Branch ==
  /\ \/ Statement("unless_option") /\ (IF backupmysql THEN Continue ELSE NextTest)
     \/ Statement("skip_unless_started") /\ (IF started[This.svc] THEN Continue ELSE NextTest)
     \/ Statement("skip_if_running")
          /\ (IF status(This.svc) = STATUS_RUNNING THEN NextTest ELSE Continue)
     \/ Statement("skip_unless")
          /\ (IF state[This.key] = "yes" THEN Continue ELSE NextTest)
     \/ Statement("if")
          /\ Advance(IF state[This.key] = "yes" THEN 1 ELSE This.length + 1)
     \/ Statement("if_running")
          /\ Advance(IF status(This.svc) = STATUS_RUNNING THEN 1 ELSE This.length + 1)
  /\ UNCHANGED <<serviceVars, state, machineVars, backupmysql, failed, interrupted,
                 faults, historyVars>>

RunCommand == Statement("command") /\ NoMachine /\ (Works \/ Fails)

(* preserve raises ValueError for a path that is preserved already. *)
PreserveFile ==
  /\ Statement("preserve")
  /\ \/ Store!Save(This.path, This.owner) /\ UNCHANGED <<made, data, databackup>> /\ Works
     \/ Fails

ChangeFile ==
  /\ Statement("change")
  /\ \/ /\ content' = [content EXCEPT ![This.path] = "test"]
        /\ UNCHANGED <<saved, made, data, databackup>> /\ Works
     \/ Fails

(* restore raises ValueError if there is no backup. *)
RestoreFile ==
  /\ Statement("restore")
  /\ \/ Store!PutBack(This.path, This.owner) /\ UNCHANGED <<made, data, databackup>> /\ Works
     \/ /\ saved[<<This.path, This.owner>>] = NotSaved /\ Raise
        /\ UNCHANGED <<serviceVars, state, machineVars, backupmysql, interrupted, faults,
                       historyVars>>

MakeDir ==
  /\ Statement("make")
  /\ \/ made' = made \cup {This.item} /\ UNCHANGED <<content, saved, data, databackup>> /\ Works
     \/ Fails

(* shutil.rmtree, of a directory that is there. destroy_lsc lets it raise; *)
(* destroy_voms_conf has it ignore every error.                            *)
DestroyDir ==
  /\ Statement("destroy")
  /\ UNCHANGED <<serviceVars, state, content, saved, data, databackup, backupmysql,
                 interrupted, hadData, ran, died>>
  /\ \/ made' = made \ {This.item} /\ Continue /\ UNCHANGED unnoticed
     \/ /\ This.item \in made /\ Fault /\ UNCHANGED made
        /\ \/ This.item = "lsc" /\ Raise /\ UNCHANGED unnoticed
           \/ /\ This.item = "conf" /\ unnoticed' = unnoticed \cup {"conf"}
              /\ Advance(1) /\ UNCHANGED failed

(* mysql.execute, whose exit status nobody looks at. *)
ExecuteSql ==
  LET after == [data EXCEPT !.holds = (@ \cup This.add) \ This.remove]
      works == daemon["mariadb"] = "running"
  IN /\ Statement("sql")
     /\ \/ works /\ data' = after /\ UNCHANGED <<faults, unnoticed>>
        \/ ~works /\ unnoticed' = unnoticed \cup {"sql"} /\ UNCHANGED <<data, faults>>
        \/ works /\ Fault /\ unnoticed' = unnoticed \cup {"sql"} /\ UNCHANGED data
     /\ Advance(1)
     /\ UNCHANGED <<serviceVars, state, content, saved, made, databackup, backupmysql,
                    failed, interrupted, hadData, ran, died>>

(* voms_install_db, whose exit status is checked, may fail half way. *)
InstallVoDb ==
  /\ Statement("install_db")
  /\ \/ /\ daemon["mariadb"] = "running"
        /\ data' = [data EXCEPT !.holds = @ \cup {"vo"}] /\ made' = made \cup {"conf"}
        /\ UNCHANGED <<content, saved, databackup>> /\ Works
     \/ /\ IF daemon["mariadb"] = "running" THEN Fault ELSE UNCHANGED faults
        /\ data' \in IF daemon["mariadb"] = "running"
                       THEN {data, [data EXCEPT !.holds = @ \cup {"vo"}]} ELSE {data}
        /\ made' \in {made, made \cup {"conf"}}
        /\ Raise
        /\ UNCHANGED <<serviceVars, state, content, saved, databackup, backupmysql,
                       interrupted, historyVars>>

(* Mutant: the move is noted before it is done. *)
MoveDatadirNotedFirst ==
  /\ Statement("move_data") /\ databackup = NoData
  /\ \/ /\ state' = [state EXCEPT !["mysql.backup"] = "yes"]
        /\ databackup' = data /\ data' = NoData /\ UNCHANGED <<faults, unnoticed>>
     \/ /\ Fault /\ unnoticed' = unnoticed \cup {"move"}
        /\ state' = [state EXCEPT !["mysql.backup"] = "yes"]
        /\ databackup' = databackup /\ data' = data
  /\ Advance(1)
  /\ UNCHANGED <<serviceVars, content, saved, made, backupmysql, failed, interrupted,
                 hadData, ran, died>>

(* shutil.move, which copies and then removes when it cannot rename. Any   *)
(* IOError is passed over, not only that of a directory that is missing.   *)
MoveDatadir ==
  /\ Statement("move_data") /\ databackup = NoData
  /\ \/ /\ data # NoData /\ databackup' = data /\ data' = NoData
        /\ state' = [state EXCEPT !["mysql.backup"] = "yes"]
        /\ UNCHANGED <<faults, unnoticed>>
     \/ data = NoData /\ UNCHANGED <<state, data, databackup, faults, unnoticed>>
     \/ /\ data # NoData /\ Fault /\ unnoticed' = unnoticed \cup {"move"}
        /\ \/ UNCHANGED <<data, databackup>>
           \/ databackup' = data /\ data' = NoData
        /\ UNCHANGED state
  /\ Advance(1)
  /\ UNCHANGED <<serviceVars, content, saved, made, backupmysql, failed, interrupted,
                 hadData, ran, died>>

(* "mysql-backup already exists" *)
BackupExists ==
  /\ Statement("move_data") /\ databackup # NoData /\ Raise
  /\ UNCHANGED <<serviceVars, state, machineVars, backupmysql, interrupted, faults,
                 historyVars>>

(* files.remove, which may raise with some of the databases removed. *)
RemoveDatadir ==
  /\ Statement("remove_data")
  /\ \/ data' = NoData /\ Continue
     \/ /\ data # NoData /\ Fault /\ Raise
        /\ \E h \in SUBSET data.holds : data' = [data EXCEPT !.holds = h]
  /\ UNCHANGED <<serviceVars, state, content, saved, made, databackup, backupmysql,
                 interrupted, historyVars>>

(* shutil.move: it renames; or it raises, before, with a part of the copy, *)
(* or with all of it and the backup not yet removed.                       *)
MoveDatadirBack ==
  /\ Statement("move_data_back")
  /\ \/ data' = databackup /\ databackup' = NoData /\ Continue
     \/ /\ Fault /\ Raise
        /\ data' \in {data, NewData, databackup} /\ UNCHANGED databackup
  /\ UNCHANGED <<serviceVars, state, content, saved, made, backupmysql, interrupted,
                 historyVars>>

(* The backups that are left are deleted, and the test says so. *)
RemoveBackups ==
  /\ Statement("check_backups")
  /\ Store!Forget /\ UNCHANGED <<made, data, databackup>>
  /\ IF \A k \in Store!Pair : saved[k] = NotSaved THEN Continue ELSE Raise /\ UNCHANGED faults
  /\ UNCHANGED <<serviceVars, state, backupmysql, interrupted, historyVars>>

--------------------------------------------------------------------------------
(* Calls of service.py.                                                    *)

BeginCall ==
  /\ Statement("call") /\ Begin(This.fn, This.svc, This.force)
  /\ UNCHANGED <<daemon, started, pc, state, machineVars, backupmysql, failed,
                 interrupted, faults, historyVars>>

(* MySQL makes itself a data directory if there is none. *)
Fill ==
  data' = IF daemon'["mariadb"] # "dead" /\ data = NoData THEN NewData ELSE data

CommandSucceeds ==
  /\ StartSucceeds \/ StopSucceeds
  /\ IF daemon'[call.svc] = "starting" THEN Fault ELSE UNCHANGED faults
  /\ Fill
  /\ UNCHANGED <<pc, state, content, saved, made, databackup, backupmysql, failed,
                 interrupted, historyVars>>

Wait ==
  /\ Poll \/ PollEnds
  /\ UNCHANGED <<pc, state, machineVars, backupmysql, failed, interrupted, faults,
                 historyVars>>

CommandFails ==
  /\ StartFails \/ StopFails
  /\ Fault
  /\ UNCHANGED <<pc, state, machineVars, backupmysql, failed, interrupted, historyVars>>

EndCall ==
  /\ \/ At("returned") /\ Advance(1) /\ UNCHANGED failed
     \/ At("raised") /\ Raise
  /\ call' = NoCall
  /\ UNCHANGED <<daemon, started, state, machineVars, backupmysql, interrupted,
                 faults, historyVars>>

--------------------------------------------------------------------------------

(* Ctrl-C: of this plan the second run has only the last test. *)
Interrupt ==
  /\ ~Done /\ ~interrupted /\ pc.test < Len(Plan)
  /\ interrupted' = TRUE /\ call' = NoCall
  /\ pc' = [test |-> Len(Plan), line |-> 1]
  /\ UNCHANGED <<daemon, started, state, machineVars, backupmysql, failed, faults,
                 historyVars>>

DaemonDies(s) ==
  /\ ~Done /\ Dies(s) /\ Fault
  /\ died' = died \cup {s}
  /\ UNCHANGED <<pc, state, machineVars, backupmysql, failed, interrupted, hadData, ran,
                 unnoticed>>

DaemonComesUp(s) ==
  /\ ComesUp(s)
  /\ UNCHANGED <<pc, state, machineVars, backupmysql, failed, interrupted, faults,
                 historyVars>>

Next ==
  \/ SetKey \/ ResetStarted \/ Branch \/ RunCommand
  \/ PreserveFile \/ ChangeFile \/ RestoreFile \/ MakeDir \/ DestroyDir
  \/ ExecuteSql \/ InstallVoDb \/ MoveDatadir \/ BackupExists
  \/ RemoveDatadir \/ MoveDatadirBack \/ RemoveBackups
  \/ BeginCall \/ CommandSucceeds \/ Wait \/ CommandFails \/ EndCall
  \/ Interrupt
  \/ \E s \in Service : DaemonDies(s) \/ DaemonComesUp(s)

Spec == Init /\ [][Next]_vars

--------------------------------------------------------------------------------
(* Properties.                                                             *)

Mentions(field, x) ==
  {i \in Test : \E j \in DOMAIN Plan[i] :
                  field \in DOMAIN Plan[i][j] /\ Plan[i][j][field] = x}

(* Something went wrong, and the run says so, in a test that has to do     *)
(* with x; or Ctrl-C left out the tear-down.                               *)
Excused(field, x) == interrupted \/ failed \cap Mentions(field, x) # {}

(* At the end a file that a set-up changes is as it was found, whatever    *)
(* daemon died and whatever failed in the tests of another owner: a        *)
(* failure in one pair costs no other pair its files (070/940, 150/840,    *)
(* 200/780).                                                               *)
FilesAsFound ==
  Done => \A p \in Path : content[p] = "found" \/ Excused("owner", OwnerOf[p])

(* At the end no daemon runs that did not run before, and those that ran   *)
(* run again, but for mysqld (050/950 do not ask) and those that died:     *)
(* "Get xrootd service back to its original state" (test_840:33).          *)
ServicesAsFound ==
  Done => \A s \in Service :
            \/ daemon[s] = "dead" /\ s \notin ran
            \/ daemon[s] # "dead" /\ s \in ran
            \/ s = "mariadb" /\ daemon[s] = "dead"
            \/ s \in died /\ daemon[s] = "dead"
            \/ Excused("svc", s)

(* Where a directory of the virtual organisation is removed, and where the *)
(* data directory of MySQL is moved.                                       *)
Destroying(x) == {i \in Test : \E j \in DOMAIN Plan[i] : Plan[i][j] = Destroy(x)}
DatadirTests ==
  {i \in Test : \E j \in DOMAIN Plan[i] :
                  Plan[i][j].op \in {"move_data", "remove_data", "move_data_back"}}

(* What of the virtual organisation outlives the run, whatever failed: its *)
(* .lsc file only if the test that removes it failed; its configuration    *)
(* and its databases only if their own removal did, which the code ignores *)
(* (200/780, voms.py 98-117).                                              *)
VoRemoved ==
  Done /\ ~interrupted =>
    /\ "lsc" \in made => failed \cap Destroying("lsc") # {}
    /\ "conf" \in made => "conf" \in unnoticed
    /\ data.holds # {} => "sql" \in unnoticed

(* The databases that were there before are in the data directory or in    *)
(* its backup at every moment; and at the end of a run with the backup     *)
(* option they are back unless a test that moves the directory failed, or  *)
(* its first move did, which the code passes over (050:29-34, 950:20-22).  *)
DataKept ==
  /\ hadData => "found" \in {data.origin, databackup.origin}
  /\ Done /\ backupmysql /\ hadData =>
       \/ data.origin = "found" /\ databackup = NoData
       \/ "move" \in unnoticed \/ interrupted \/ failed \cap DatadirTests # {}

(* munge never runs, or comes up, with a key that was exchanged under it:  *)
(* the key is put back only when the daemon is down (940:11-12).           *)
KeyBackWhenDown ==
  [][content["munge.key"] = "test" /\ content'["munge.key"] = "found"
       => daemon["munge"] = "dead"]_vars

================================================================================
