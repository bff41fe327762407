----------------------------- MODULE LifecycleProofs -----------------------------
(***************************************************************************)
(* The invariants of module Lifecycle, for any number of faults and any    *)
(* limit of the calls. IInv is inductive: it says, at every statement of   *)
(* the plan, what the tests before it have left behind. The proof has two  *)
(* halves. The first says what one step can do: how it moves along the     *)
(* plan (Moves), and what it does to the files, the states of the tests,   *)
(* the databases and the services, by the statement it is at (FileStep,    *)
(* StateStep, DataStep, CallStep, ServiceStep). The second takes the parts *)
(* of the invariant one after the other, from those facts alone.           *)
(*                                                                         *)
(* A statement has the number 10 * test + line: 33, the third statement of *)
(* the third test, preserves the key of munge (Arguments has them all).    *)
(***************************************************************************)

EXTENDS Lifecycle, TLAPS

--------------------------------------------------------------------------------
(* Where a run is, and the parts of the inductive invariant.               *)

(* The number of the statement that comes next. *)
Pos == 10 * pc.test + pc.line

(* The number of statements of a test. *)
Size(i) == IF i = 18 THEN 1 ELSE Len(Plan[i])

(* The last statements of the tests. *)
LastLines == {16, 21, 36, 48, 53, 66, 75, 86, 93, 102, 112, 123, 138, 143, 151, 164, 171}

(* The next statement is one of the plan. *)
PcOK == pc \in [test : 1..18, line : 1..9] /\ pc.line <= Size(pc.test)

(* A call is of the statement that comes next. *)
CallInv ==
  call # NoCall =>
    /\ ~Done /\ This.op = "call"
    /\ call.fn = This.fn /\ call.svc = This.svc /\ call.force = This.force
    /\ call.step = "command" => call.rc = UNSEEN
    /\ call.step = "returned" /\ Checking => call.rc = Expected
    /\ call.rc = STATUS_RUNNING => daemon[call.svc] # "starting"
    /\ Starting /\ call.step \in {"poll", "returned"} =>
         /\ started[call.svc]
         /\ call.force /\ daemon[call.svc] = "dead" => call.svc \in died

(* A key of core.state, and how far the call of the statement is. *)
Yes(k) == state[k] = "yes"
Phase == IF call = NoCall THEN "none" ELSE call.step

(* The command of the call was not run; it was, and succeeded. *)
Unstopped == Phase \in {"none", "command"}
Waited == Phase \in {"poll", "returned"}

(* One of the tests T failed, or Ctrl-C was typed. *)
Excuse(T) == interrupted \/ failed \cap T # {}

(* Where core.state says that osg-test started a service. *)
FlagInv ==
  /\ Pos = 14 \/ (Pos = 15 /\ Unstopped) => started["mariadb"]
  /\ Pos <= 93 => ~Yes("voms.started-server")
  /\ Pos = 93 => started["voms"]
  /\ Pos = 101 \/ (Pos = 102 /\ Unstopped) => (Yes("voms.started-server") => started["voms"])
  /\ Pos = 102 => Yes("voms.started-server")
  /\ Pos = 142 /\ Unstopped => started["munge"]
  /\ Pos \in 31..143 => started["mariadb"] \/ 2 \in failed
  /\ Pos = 151 /\ Unstopped => started["mariadb"] \/ 2 \in failed

(* Where a daemon that is told to stop is down. *)
DownInv ==
  /\ (Pos = 15 /\ Waited) \/ Pos = 16 => daemon["mariadb"] = "dead"
  /\ Pos \in {65, 136} /\ Waited => daemon["xrootd"] = "dead"
  /\ Pos = 102 /\ Waited => daemon["voms"] = "dead"
  /\ (Pos = 142 /\ Waited) \/ Pos = 143 => daemon["munge"] = "dead"
  /\ Pos = 151 /\ Waited => daemon["mariadb"] = "dead" \/ 2 \in failed

(* Where the databases are: in the data directory, and in the backup from  *)
(* the line that moves them there (16) to the one that moves them back     *)
(* (164), unless a test that moves them failed, or its failure went        *)
(* unnoticed.                                                              *)
DataInv ==
  /\ daemon["mariadb"] # "dead" /\ Pos <= 163 => data # NoData
  /\ hadData => "found" \in {data.origin, databackup.origin}
  /\ Pos <= 12 => state["mysql.backup"] = "no"
  /\ state["mysql.backup"] = "yes" /\ Pos <= 164 =>
       databackup # NoData /\ (hadData => databackup.origin = "found")
  /\ backupmysql /\ hadData /\ ~("move" \in unnoticed \/ Excuse({1, 16})) =>
       /\ Pos \in 21..164 => state["mysql.backup"] = "yes"
       /\ Pos > 164 => data.origin = "found" /\ databackup = NoData
  /\ Pos \in 163..164 => state["mysql.backup"] = "yes"

(* What of the virtual organisation is left. *)
VoInv ==
  /\ databackup.holds = {}
  /\ Pos <= 74 => data.holds = {}
  /\ ~interrupted =>
      /\ Pos > 111 => "lsc" \notin made \/ 11 \in failed
      /\ Pos > 123 => "conf" \notin made \/ "conf" \in unnoticed
      /\ Pos > 121 => "sql" \in unnoticed \/ "vo" \notin data.holds
      /\ Pos > 122 => "sql" \in unnoticed \/ "user" \notin data.holds

(* The backup of a file holds what was found. *)
Held(p) == saved[<<p, OwnerOf[p]>>] = "found"

(* Each file: as found up to the line that changes it, backed up from the  *)
(* line that preserves it to the one that restores it, and as found from   *)
(* there.                                                                  *)
KeyInv ==
  /\ Pos <= 34 => content["munge.key"] = "found"
  /\ saved[<<"munge.key", "munge">>] # "test"
  /\ Excuse({3, 14}) \/
      /\ Pos \in 34..36 => Held("munge.key")
      /\ Pos \in 41..141 => content["munge.key"] = "found" \/ (Held("munge.key") /\ started["munge"])
      /\ Pos \in 142..143 => content["munge.key"] = "found" \/ Held("munge.key")
      /\ Pos > 143 => content["munge.key"] = "found"
CfgInv ==
  /\ Pos <= 45 => content["xrootd.cfg"] = "found"
  /\ Excuse({4, 5, 13}) \/
      /\ Pos \in 45..132 => Held("xrootd.cfg")
      /\ Pos \in 48..131 => state["xrootd.backups-exist"] = "yes"
      /\ Pos > 132 => content["xrootd.cfg"] = "found"
SciInv ==
  /\ Pos <= 52 => content["scitokens.conf"] = "found"
  /\ Excuse({4, 5, 13}) \/
      /\ Pos \in 52..133 => Held("scitokens.conf")
      /\ Pos > 133 => content["scitokens.conf"] = "found"
VomsesInv ==
  /\ Pos <= 85 => content["vomses"] = "found"
  /\ Excuse({8, 11}) \/
      /\ Pos \in 85..112 => Held("vomses")
      /\ Pos > 112 => content["vomses"] = "found"

(* A service that did not run before, or died; and a service that is as it *)
(* was before osg-test.                                                    *)
Gone(s) == s \notin ran \/ s \in died
Fine(s) == IF daemon[s] = "dead" THEN Gone(s) ELSE s \in ran

(* Each service: what its daemon does, compared with the daemon that was   *)
(* found, from the line that starts or stops it on.                        *)
MariadbInv == Pos > 151 => Excuse({2, 15}) \/ daemon["mariadb"] = "dead"
MungeInv ==
  /\ Pos <= 35 => daemon["munge"] # "starting"
  /\ Pos <= 35 => Fine("munge")
  /\ Excuse({3, 14}) \/
      /\ Pos = 32 => ~started["munge"]
      /\ Pos \in 33..36 => Gone("munge")
      /\ Pos \in 41..141 => IF started["munge"] THEN Gone("munge") ELSE Fine("munge")
      /\ Pos \in 142..143 => Gone("munge")
      /\ Pos > 143 => Fine("munge")
VomsInv ==
  /\ "voms" \notin ran
  /\ Pos <= 91 => daemon["voms"] = "dead"
  /\ Excuse({9, 10}) \/
      /\ Pos = 101 => state["voms.started-server"] = "yes"
      /\ Pos > 102 => daemon["voms"] = "dead"
XrootdInv ==
  /\ Pos <= 65 => daemon["xrootd"] # "starting"
  /\ Pos <= 64 => Fine("xrootd") /\ state["xrootd.service-was-running"] = "no"
  /\ Excuse({6, 13}) \/
      /\ Pos \in 62..66 => state["xrootd.is-configured"] = "yes"
      /\ Pos = 64 => "xrootd" \in ran
      /\ Pos \in 65..66 \/ (Pos \in 71..137 /\ state["xrootd.is-configured"] = "yes")
          => IF state["xrootd.service-was-running"] = "yes" THEN "xrootd" \in ran ELSE Gone("xrootd")
      /\ Pos \in 71..137 /\ state["xrootd.is-configured"] = "yes" => daemon["xrootd"] # "starting"
      /\ Pos \in 71..134 /\ state["xrootd.is-configured"] = "no" => Fine("xrootd")
      /\ Pos \in 135..137 => state["xrootd.is-configured"] = "yes"
      /\ Pos = 137 => daemon["xrootd"] = "dead"
      /\ Pos = 138 => "xrootd" \in ran
      /\ Pos > 138 => Fine("xrootd")

--------------------------------------------------------------------------------
(* The tests as lists of statements.                                       *)

(* A list of n statements of S, and a list joined of two. Behind these     *)
(* names a length is not expanded where it is of no use.                   *)
IsList(s, S, n) == s \in Seq(S) /\ Len(s) = n
IsJoin(l, s, t) == l = s \o t

(* The elements of a concatenation. *)
LEMMA Joined ==
  ASSUME NEW S, NEW s, NEW t, NEW l, NEW m \in Nat, NEW n \in Nat,
         IsList(s, S, m), IsList(t, S, n), IsJoin(l, s, t)
  PROVE  /\ IsList(l, S, m + n)
         /\ \A i \in 1..m : l[i] = s[i]
         /\ \A i \in 1..n : l[m + i] = t[i]
<1>1. /\ s \o t \in Seq(S) /\ Len(s \o t) = Len(s) + Len(t)
      /\ \A i \in 1..Len(s) : (s \o t)[i] = s[i]
      /\ \A i \in 1..Len(t) : (s \o t)[Len(s) + i] = t[i]
  BY DEF IsList
<1> QED
  BY <1>1 DEF IsList, IsJoin

(* The statements of each test. The length of a list is behind IsList in   *)
(* the steps, and in the statement as it is.                               *)
LEMMA BackupMysqlLines ==
  /\ Len(BackupMysql) = 6 /\ BackupMysql[1] = ReturnUnlessOption
  /\ BackupMysql[2] = Set("mysql.backup", "no")
  /\ BackupMysql[3] = ServiceCall("check_start", "mariadb", FALSE) /\ BackupMysql[4] = Command
  /\ BackupMysql[5] = ServiceCall("check_stop", "mariadb", FALSE) /\ BackupMysql[6] = MoveData
<1> DEFINE S == {ReturnUnlessOption, Set("mysql.backup", "no"), ServiceCall("check_start",
                "mariadb", FALSE), Command, ServiceCall("check_stop", "mariadb", FALSE),
                MoveData}
           a == <<ReturnUnlessOption, Set("mysql.backup", "no")>>
           c == <<Command>>
           e == <<MoveData>>
<1>1. /\ IsList(a, S, 2) /\ IsList(mysql_start, S, 1) /\ IsList(c, S, 1)
      /\ IsList(mysql_stop, S, 1) /\ IsList(e, S, 1)
  BY DEF IsList, mysql_start, mysql_stop
<1>2. /\ a[1] = ReturnUnlessOption /\ a[2] = Set("mysql.backup", "no")
      /\ mysql_start[1] = ServiceCall("check_start", "mariadb", FALSE) /\ c[1] = Command
      /\ mysql_stop[1] = ServiceCall("check_stop", "mariadb", FALSE) /\ e[1] = MoveData
  BY DEF mysql_start, mysql_stop
<1> DEFINE u == a \o mysql_start
<1> DEFINE v == u \o c
<1> DEFINE w == v \o mysql_stop
<1>3. IsJoin(u, a, mysql_start)
  BY DEF IsJoin
<1>4. IsJoin(v, u, c)
  BY DEF IsJoin
<1>5. IsJoin(w, v, mysql_stop)
  BY DEF IsJoin
<1>6. IsJoin(BackupMysql, w, e)
  BY DEF IsJoin, BackupMysql
<1> HIDE DEF S, a, c, e, u, v, w
<1>7. /\ IsList(u, S, 3) /\ u[1] = a[1] /\ u[2] = a[2] /\ u[3] = mysql_start[1]
  BY <1>1, <1>3, Joined
<1>8. /\ IsList(v, S, 4) /\ v[1] = u[1] /\ v[2] = u[2] /\ v[3] = u[3] /\ v[4] = c[1]
  BY <1>1, <1>7, <1>4, Joined
<1>9. /\ IsList(w, S, 5) /\ w[1] = v[1] /\ w[2] = v[2] /\ w[3] = v[3] /\ w[4] = v[4]
      /\ w[5] = mysql_stop[1]
  BY <1>1, <1>8, <1>5, Joined
<1>10. /\ IsList(BackupMysql, S, 6) /\ BackupMysql[1] = w[1] /\ BackupMysql[2] = w[2]
      /\ BackupMysql[3] = w[3] /\ BackupMysql[4] = w[4] /\ BackupMysql[5] = w[5]
      /\ BackupMysql[6] = e[1]
  BY <1>1, <1>9, <1>6, Joined
<1>11. Len(BackupMysql) = 6
  BY <1>10 DEF IsList
<1> QED
  BY <1>1, <1>2, <1>7, <1>8, <1>9, <1>10, <1>11

LEMMA StartMysqldLines ==
  /\ Len(StartMysqld) = 1 /\ StartMysqld[1] = ServiceCall("check_start", "mariadb", FALSE)
BY DEF StartMysqld, mysql_start

LEMMA StartMungeLines ==
  /\ Len(StartMunge) = 6 /\ StartMunge[1] = ResetFlag("munge")
  /\ StartMunge[2] = SkipIfRunning("munge") /\ StartMunge[3] = Preserve("munge.key", "munge")
  /\ StartMunge[4] = Change("munge.key") /\ StartMunge[5] = Command
  /\ StartMunge[6] = ServiceCall("check_start", "munge", FALSE)
BY DEF StartMunge

LEMMA ConfigureXrootdLines ==
  /\ DOMAIN ConfigureXrootd = 1..8
  /\ Len(ConfigureXrootd) = 8 /\ ConfigureXrootd[1] = Set("xrootd.is-configured", "no")
  /\ ConfigureXrootd[2] = Set("xrootd.backups-exist", "no") /\ ConfigureXrootd[3] = Command
  /\ ConfigureXrootd[4] = Preserve("xrootd.cfg", "xrootd")
  /\ ConfigureXrootd[5] = Change("xrootd.cfg") /\ ConfigureXrootd[6] = Command
  /\ ConfigureXrootd[7] = Set("xrootd.backups-exist", "yes")
  /\ ConfigureXrootd[8] = Set("xrootd.is-configured", "yes")
<1> DEFINE S == {Set("xrootd.is-configured", "no"), Set("xrootd.backups-exist", "no"), Command,
                Preserve("xrootd.cfg", "xrootd"), Change("xrootd.cfg"),
                Set("xrootd.backups-exist", "yes"), Set("xrootd.is-configured", "yes")}
           a == <<Set("xrootd.is-configured", "no"), Set("xrootd.backups-exist", "no"), Command>>
           b == Write("xrootd.cfg", "xrootd")
           c == <<Command, Set("xrootd.backups-exist", "yes"), Set("xrootd.is-configured", "yes")>>
<1>1. /\ IsList(a, S, 3) /\ IsList(b, S, 2) /\ IsList(c, S, 3)
  BY DEF IsList, Write
<1>2. /\ a[1] = Set("xrootd.is-configured", "no") /\ a[2] = Set("xrootd.backups-exist", "no")
      /\ a[3] = Command /\ b[1] = Preserve("xrootd.cfg", "xrootd") /\ b[2] = Change("xrootd.cfg")
      /\ c[1] = Command /\ c[2] = Set("xrootd.backups-exist", "yes")
      /\ c[3] = Set("xrootd.is-configured", "yes")
  BY DEF Write
<1> DEFINE u == a \o b
<1>3. IsJoin(u, a, b)
  BY DEF IsJoin
<1>4. IsJoin(ConfigureXrootd, u, c)
  BY DEF IsJoin, ConfigureXrootd
<1> HIDE DEF S, a, b, c, u
<1>5. /\ IsList(u, S, 5) /\ u[1] = a[1] /\ u[2] = a[2] /\ u[3] = a[3] /\ u[4] = b[1] /\ u[5] = b[2]
  BY <1>1, <1>3, Joined
<1>6. /\ IsList(ConfigureXrootd, S, 8) /\ ConfigureXrootd[1] = u[1] /\ ConfigureXrootd[2] = u[2]
      /\ ConfigureXrootd[3] = u[3] /\ ConfigureXrootd[4] = u[4] /\ ConfigureXrootd[5] = u[5]
      /\ ConfigureXrootd[6] = c[1] /\ ConfigureXrootd[7] = c[2] /\ ConfigureXrootd[8] = c[3]
  BY <1>1, <1>5, <1>4, Joined
<1>7. Len(ConfigureXrootd) = 8 /\ DOMAIN ConfigureXrootd = 1..8
  BY <1>6 DEF IsList
<1> QED
  BY <1>1, <1>2, <1>5, <1>6, <1>7

LEMMA ConfigureScitokensLines ==
  /\ DOMAIN ConfigureScitokens = 1..3
  /\ Len(ConfigureScitokens) = 3 /\ ConfigureScitokens[1] = Preserve("scitokens.conf", "xrootd")
  /\ ConfigureScitokens[2] = Change("scitokens.conf")
  /\ ConfigureScitokens[3] = Change("xrootd.cfg")
<1> DEFINE S == {Preserve("scitokens.conf", "xrootd"), Change("scitokens.conf"),
                Change("xrootd.cfg")}
           a == Write("scitokens.conf", "xrootd")
           b == <<Change("xrootd.cfg")>>
<1>1. /\ IsList(a, S, 2) /\ IsList(b, S, 1)
  BY DEF IsList, Write
<1>2. /\ a[1] = Preserve("scitokens.conf", "xrootd") /\ a[2] = Change("scitokens.conf")
      /\ b[1] = Change("xrootd.cfg")
  BY DEF Write
<1>3. IsJoin(ConfigureScitokens, a, b)
  BY DEF IsJoin, ConfigureScitokens
<1> HIDE DEF S, a, b
<1>4. /\ IsList(ConfigureScitokens, S, 3) /\ ConfigureScitokens[1] = a[1]
      /\ ConfigureScitokens[2] = a[2] /\ ConfigureScitokens[3] = b[1]
  BY <1>1, <1>3, Joined
<1>5. Len(ConfigureScitokens) = 3 /\ DOMAIN ConfigureScitokens = 1..3
  BY <1>4 DEF IsList
<1> QED
  BY <1>1, <1>2, <1>4, <1>5

LEMMA StartXrootdLines ==
  /\ Len(StartXrootd) = 6 /\ StartXrootd[1] = SkipUnless("xrootd.is-configured")
  /\ StartXrootd[2] = Set("xrootd.service-was-running", "no")
  /\ StartXrootd[3] = IfRunning("xrootd", 2)
  /\ StartXrootd[4] = Set("xrootd.service-was-running", "yes")
  /\ StartXrootd[5] = ServiceCall("stop", "xrootd", TRUE)
  /\ StartXrootd[6] = ServiceCall("check_start", "xrootd", FALSE)
BY DEF StartXrootd

LEMMA CreateVoLines ==
  /\ Len(CreateVo) = 5 /\ CreateVo[1] = Sql({}, {"vo"}) /\ CreateVo[2] = Sql({}, {"user"})
  /\ CreateVo[3] = Destroy("conf") /\ CreateVo[4] = Sql({"user"}, {}) /\ CreateVo[5] = InstallDb
<1> DEFINE S == {Sql({}, {"vo"}), Sql({}, {"user"}), Destroy("conf"), Sql({"user"}, {}),
                InstallDb}
<1>1. /\ IsList(destroy_db, S, 2) /\ IsList(destroy_voms_conf, S, 1) /\ IsList(create_vo, S, 2)
  BY DEF IsList, destroy_db, destroy_voms_conf, create_vo
<1>2. /\ destroy_db[1] = Sql({}, {"vo"}) /\ destroy_db[2] = Sql({}, {"user"})
      /\ destroy_voms_conf[1] = Destroy("conf") /\ create_vo[1] = Sql({"user"}, {})
      /\ create_vo[2] = InstallDb
  BY DEF destroy_db, destroy_voms_conf, create_vo
<1> DEFINE u == destroy_db \o destroy_voms_conf
<1>3. IsJoin(u, destroy_db, destroy_voms_conf)
  BY DEF IsJoin
<1>4. IsJoin(CreateVo, u, create_vo)
  BY DEF IsJoin, CreateVo
<1> HIDE DEF S, u
<1>5. /\ IsList(u, S, 3) /\ u[1] = destroy_db[1] /\ u[2] = destroy_db[2]
      /\ u[3] = destroy_voms_conf[1]
  BY <1>1, <1>3, Joined
<1>6. /\ IsList(CreateVo, S, 5) /\ CreateVo[1] = u[1] /\ CreateVo[2] = u[2] /\ CreateVo[3] = u[3]
      /\ CreateVo[4] = create_vo[1] /\ CreateVo[5] = create_vo[2]
  BY <1>1, <1>5, <1>4, Joined
<1>7. Len(CreateVo) = 5
  BY <1>6 DEF IsList
<1> QED
  BY <1>1, <1>2, <1>5, <1>6, <1>7

LEMMA AdvertiseLines ==
  /\ DOMAIN Advertise = 1..6
  /\ Len(Advertise) = 6 /\ Advertise[1] = Command /\ Advertise[2] = Make("lsc")
  /\ Advertise[3] = Command /\ Advertise[4] = Preserve("vomses", "voms") /\ Advertise[5] = Command
  /\ Advertise[6] = Change("vomses")
<1> DEFINE S == {Command, Make("lsc"), Preserve("vomses", "voms"), Change("vomses")}
           b == <<Preserve("vomses", "voms")>>
<1>1. /\ IsList(advertise_lsc, S, 3) /\ IsList(b, S, 1) /\ IsList(advertise_vomses, S, 2)
  BY DEF IsList, advertise_lsc, advertise_vomses
<1>2. /\ advertise_lsc[1] = Command /\ advertise_lsc[2] = Make("lsc") /\ advertise_lsc[3] = Command
      /\ b[1] = Preserve("vomses", "voms") /\ advertise_vomses[1] = Command
      /\ advertise_vomses[2] = Change("vomses")
  BY DEF advertise_lsc, advertise_vomses
<1> DEFINE u == advertise_lsc \o b
<1>3. IsJoin(u, advertise_lsc, b)
  BY DEF IsJoin
<1>4. IsJoin(Advertise, u, advertise_vomses)
  BY DEF IsJoin, Advertise
<1> HIDE DEF S, b, u
<1>5. /\ IsList(u, S, 4) /\ u[1] = advertise_lsc[1] /\ u[2] = advertise_lsc[2]
      /\ u[3] = advertise_lsc[3] /\ u[4] = b[1]
  BY <1>1, <1>3, Joined
<1>6. /\ IsList(Advertise, S, 6) /\ Advertise[1] = u[1] /\ Advertise[2] = u[2]
      /\ Advertise[3] = u[3] /\ Advertise[4] = u[4] /\ Advertise[5] = advertise_vomses[1]
      /\ Advertise[6] = advertise_vomses[2]
  BY <1>1, <1>5, <1>4, Joined
<1>7. Len(Advertise) = 6 /\ DOMAIN Advertise = 1..6
  BY <1>6 DEF IsList
<1> QED
  BY <1>1, <1>2, <1>5, <1>6, <1>7

LEMMA StartVomsLines ==
  /\ Len(StartVoms) = 3 /\ StartVoms[1] = Set("voms.started-server", "no")
  /\ StartVoms[2] = ServiceCall("check_start", "voms", FALSE)
  /\ StartVoms[3] = Set("voms.started-server", "yes")
BY DEF StartVoms

LEMMA StopVomsLines ==
  /\ Len(StopVoms) = 2 /\ StopVoms[1] = SkipUnless("voms.started-server")
  /\ StopVoms[2] = ServiceCall("check_stop", "voms", FALSE)
BY DEF StopVoms

LEMMA RestoreVomsesLines ==
  /\ DOMAIN RestoreVomses = 1..2
  /\ Len(RestoreVomses) = 2 /\ RestoreVomses[1] = Destroy("lsc")
  /\ RestoreVomses[2] = Restore("vomses", "voms")
<1> DEFINE S == {Destroy("lsc"), Restore("vomses", "voms")}
           b == <<Restore("vomses", "voms")>>
<1>1. /\ IsList(destroy_lsc, S, 1) /\ IsList(b, S, 1)
  BY DEF IsList, destroy_lsc
<1>2. /\ destroy_lsc[1] = Destroy("lsc") /\ b[1] = Restore("vomses", "voms")
  BY DEF destroy_lsc
<1>3. IsJoin(RestoreVomses, destroy_lsc, b)
  BY DEF IsJoin, RestoreVomses
<1> HIDE DEF S, b
<1>4. /\ IsList(RestoreVomses, S, 2) /\ RestoreVomses[1] = destroy_lsc[1]
      /\ RestoreVomses[2] = b[1]
  BY <1>1, <1>3, Joined
<1>5. Len(RestoreVomses) = 2 /\ DOMAIN RestoreVomses = 1..2
  BY <1>4 DEF IsList
<1> QED
  BY <1>1, <1>2, <1>4, <1>5

LEMMA RemoveVoLines ==
  /\ Len(RemoveVo) = 3 /\ RemoveVo[1] = Sql({}, {"vo"}) /\ RemoveVo[2] = Sql({}, {"user"})
  /\ RemoveVo[3] = Destroy("conf")
<1> DEFINE S == {Sql({}, {"vo"}), Sql({}, {"user"}), Destroy("conf")}
<1>1. /\ IsList(destroy_db, S, 2) /\ IsList(destroy_voms_conf, S, 1)
  BY DEF IsList, destroy_db, destroy_voms_conf
<1>2. /\ destroy_db[1] = Sql({}, {"vo"}) /\ destroy_db[2] = Sql({}, {"user"})
      /\ destroy_voms_conf[1] = Destroy("conf")
  BY DEF destroy_db, destroy_voms_conf
<1>3. IsJoin(RemoveVo, destroy_db, destroy_voms_conf)
  BY DEF IsJoin, RemoveVo
<1> HIDE DEF S
<1>4. /\ IsList(RemoveVo, S, 3) /\ RemoveVo[1] = destroy_db[1] /\ RemoveVo[2] = destroy_db[2]
      /\ RemoveVo[3] = destroy_voms_conf[1]
  BY <1>1, <1>3, Joined
<1>5. Len(RemoveVo) = 3
  BY <1>4 DEF IsList
<1> QED
  BY <1>1, <1>2, <1>4, <1>5

LEMMA StopXrootdLines ==
  /\ Len(StopXrootd) = 8 /\ StopXrootd[1] = If("xrootd.backups-exist", 2)
  /\ StopXrootd[2] = Restore("xrootd.cfg", "xrootd")
  /\ StopXrootd[3] = Restore("scitokens.conf", "xrootd")
  /\ StopXrootd[4] = SkipUnless("xrootd.is-configured") /\ StopXrootd[5] = IfRunning("xrootd", 1)
  /\ StopXrootd[6] = ServiceCall("check_stop", "xrootd", TRUE)
  /\ StopXrootd[7] = If("xrootd.service-was-running", 1)
  /\ StopXrootd[8] = ServiceCall("check_start", "xrootd", TRUE)
BY DEF StopXrootd

LEMMA StopMungeLines ==
  /\ Len(StopMunge) = 3 /\ StopMunge[1] = SkipUnlessStarted("munge")
  /\ StopMunge[2] = ServiceCall("check_stop", "munge", FALSE)
  /\ StopMunge[3] = Restore("munge.key", "munge")
BY DEF StopMunge

LEMMA StopMysqldLines ==
  /\ Len(StopMysqld) = 1 /\ StopMysqld[1] = ServiceCall("check_stop", "mariadb", FALSE)
BY DEF StopMysqld, mysql_stop

LEMMA RestoreMysqlLines ==
  /\ Len(RestoreMysql) = 4 /\ RestoreMysql[1] = ReturnUnlessOption
  /\ RestoreMysql[2] = If("mysql.backup", 2) /\ RestoreMysql[3] = RemoveData
  /\ RestoreMysql[4] = MoveDataBack
BY DEF RestoreMysql

LEMMA LastTestLines ==
  /\ Len(LastTest) = 1 /\ LastTest[1] = CheckBackups
BY DEF LastTest

(* The plan has seventeen tests. *)
LEMMA PlanLength ==
  Len(Plan) = 17
BY DEF Plan

LEMMA Tests ==
  /\ Plan[1] = BackupMysql
  /\ Plan[2] = StartMysqld
  /\ Plan[3] = StartMunge
  /\ Plan[4] = ConfigureXrootd
  /\ Plan[5] = ConfigureScitokens
  /\ Plan[6] = StartXrootd
  /\ Plan[7] = CreateVo
  /\ Plan[8] = Advertise
  /\ Plan[9] = StartVoms
  /\ Plan[10] = StopVoms
  /\ Plan[11] = RestoreVomses
  /\ Plan[12] = RemoveVo
  /\ Plan[13] = StopXrootd
  /\ Plan[14] = StopMunge
  /\ Plan[15] = StopMysqld
  /\ Plan[16] = RestoreMysql
  /\ Plan[17] = LastTest
BY DEF Plan

(* The number of statements of each test; the end of the run counts as a   *)
(* test of one.                                                            *)
LEMMA Sizes ==
  /\ Size(1) = 6 /\ Size(2) = 1 /\ Size(3) = 6 /\ Size(4) = 8 /\ Size(5) = 3 /\ Size(6) = 6
  /\ Size(7) = 5 /\ Size(8) = 6 /\ Size(9) = 3 /\ Size(10) = 2 /\ Size(11) = 2 /\ Size(12) = 3
  /\ Size(13) = 8 /\ Size(14) = 3 /\ Size(15) = 1 /\ Size(16) = 4 /\ Size(17) = 1 /\ Size(18) = 1
<1>1. Size(1) = 6
  BY Tests, BackupMysqlLines DEF Size
<1>2. Size(2) = 1
  BY Tests, StartMysqldLines DEF Size
<1>3. Size(3) = 6
  BY Tests, StartMungeLines DEF Size
<1>4. Size(4) = 8
  BY Tests, ConfigureXrootdLines DEF Size
<1>5. Size(5) = 3
  BY Tests, ConfigureScitokensLines DEF Size
<1>6. Size(6) = 6
  BY Tests, StartXrootdLines DEF Size
<1>7. Size(7) = 5
  BY Tests, CreateVoLines DEF Size
<1>8. Size(8) = 6
  BY Tests, AdvertiseLines DEF Size
<1>9. Size(9) = 3
  BY Tests, StartVomsLines DEF Size
<1>10. Size(10) = 2
  BY Tests, StopVomsLines DEF Size
<1>11. Size(11) = 2
  BY Tests, RestoreVomsesLines DEF Size
<1>12. Size(12) = 3
  BY Tests, RemoveVoLines DEF Size
<1>13. Size(13) = 8
  BY Tests, StopXrootdLines DEF Size
<1>14. Size(14) = 3
  BY Tests, StopMungeLines DEF Size
<1>15. Size(15) = 1
  BY Tests, StopMysqldLines DEF Size
<1>16. Size(16) = 4
  BY Tests, RestoreMysqlLines DEF Size
<1>17. Size(17) = 1
  BY Tests, LastTestLines DEF Size
<1>18. Size(18) = 1
  BY DEF Size
<1> QED
  BY <1>1, <1>2, <1>3, <1>4, <1>5, <1>6, <1>7, <1>8, <1>9, <1>10, <1>11, <1>12, <1>13,
     <1>14, <1>15, <1>16, <1>17, <1>18

--------------------------------------------------------------------------------
(* The statement of each line.                                             *)

(* Which statement is where, test by test. *)
LEMMA AtBackupMysql ==
  ASSUME PcOK, pc.test = 1
  PROVE  \/ Pos = 11 /\ This.op = "unless_option"
         \/ Pos = 12 /\ This.op = "set" /\ This.key = "mysql.backup" /\ This.value = "no"
         \/ Pos = 13 /\ This.op = "call" /\ This.fn = "check_start" /\ This.svc = "mariadb"
         \/ Pos = 14 /\ This.op = "command"
         \/ Pos = 15 /\ This.op = "call" /\ This.fn = "check_stop" /\ This.svc = "mariadb"
         \/ Pos = 16 /\ This.op = "move_data"
<1>1. pc.line \in 1..6
  BY Sizes DEF PcOK
<1>2. Plan[pc.test] = BackupMysql
  BY Tests
<1>3. This = BackupMysql[pc.line]
  BY <1>2 DEF This
<1>4. /\ BackupMysql[1] = ReturnUnlessOption /\ BackupMysql[2] = Set("mysql.backup", "no")
      /\ BackupMysql[3] = ServiceCall("check_start", "mariadb", FALSE) /\ BackupMysql[4] = Command
      /\ BackupMysql[5] = ServiceCall("check_stop", "mariadb", FALSE) /\ BackupMysql[6] = MoveData
  BY BackupMysqlLines
<1> HIDE DEF This
<1> QED
  BY <1>1, <1>3, <1>4 DEF Pos, ReturnUnlessOption, Set, ServiceCall, Command, MoveData

LEMMA AtStartMysqld ==
  ASSUME PcOK, pc.test = 2
  PROVE  \/ Pos = 21 /\ This.op = "call" /\ This.fn = "check_start" /\ This.svc = "mariadb"
<1>1. pc.line \in 1..1
  BY Sizes DEF PcOK
<1>2. Plan[pc.test] = StartMysqld
  BY Tests
<1>3. This = StartMysqld[pc.line]
  BY <1>2 DEF This
<1>4. /\ StartMysqld[1] = ServiceCall("check_start", "mariadb", FALSE)
  BY StartMysqldLines
<1> HIDE DEF This
<1> QED
  BY <1>1, <1>3, <1>4 DEF Pos, ServiceCall

LEMMA AtStartMunge ==
  ASSUME PcOK, pc.test = 3
  PROVE  \/ Pos = 31 /\ This.op = "reset_flag" /\ This.svc = "munge"
         \/ Pos = 32 /\ This.op = "skip_if_running" /\ This.svc = "munge"
         \/ Pos = 33 /\ This.op = "preserve" /\ This.path = "munge.key" /\ This.owner = "munge"
         \/ Pos = 34 /\ This.op = "change" /\ This.path = "munge.key"
         \/ Pos = 35 /\ This.op = "command"
         \/ Pos = 36 /\ This.op = "call" /\ This.fn = "check_start" /\ This.svc = "munge"
<1>1. pc.line \in 1..6
  BY Sizes DEF PcOK
<1>2. Plan[pc.test] = StartMunge
  BY Tests
<1>3. This = StartMunge[pc.line]
  BY <1>2 DEF This
<1>4. /\ StartMunge[1] = ResetFlag("munge") /\ StartMunge[2] = SkipIfRunning("munge")
      /\ StartMunge[3] = Preserve("munge.key", "munge") /\ StartMunge[4] = Change("munge.key")
      /\ StartMunge[5] = Command /\ StartMunge[6] = ServiceCall("check_start", "munge", FALSE)
  BY StartMungeLines
<1> HIDE DEF This
<1> QED
  BY <1>1, <1>3, <1>4 DEF Pos, ResetFlag, SkipIfRunning, Preserve, Change, Command,
     ServiceCall

LEMMA AtConfigureXrootd ==
  ASSUME PcOK, pc.test = 4
  PROVE  \/ Pos = 41 /\ This.op = "set" /\ This.key = "xrootd.is-configured" /\ This.value = "no"
         \/ Pos = 42 /\ This.op = "set" /\ This.key = "xrootd.backups-exist" /\ This.value = "no"
         \/ Pos = 43 /\ This.op = "command"
         \/ Pos = 44 /\ This.op = "preserve" /\ This.path = "xrootd.cfg" /\ This.owner = "xrootd"
         \/ Pos = 45 /\ This.op = "change" /\ This.path = "xrootd.cfg"
         \/ Pos = 46 /\ This.op = "command"
         \/ Pos = 47 /\ This.op = "set" /\ This.key = "xrootd.backups-exist" /\ This.value = "yes"
         \/ Pos = 48 /\ This.op = "set" /\ This.key = "xrootd.is-configured" /\ This.value = "yes"
<1>1. pc.line \in 1..8
  BY Sizes DEF PcOK
<1>2. Plan[pc.test] = ConfigureXrootd
  BY Tests
<1>3. This = ConfigureXrootd[pc.line]
  BY <1>2 DEF This
<1>4. /\ ConfigureXrootd[1] = Set("xrootd.is-configured", "no")
      /\ ConfigureXrootd[2] = Set("xrootd.backups-exist", "no") /\ ConfigureXrootd[3] = Command
      /\ ConfigureXrootd[4] = Preserve("xrootd.cfg", "xrootd")
      /\ ConfigureXrootd[5] = Change("xrootd.cfg") /\ ConfigureXrootd[6] = Command
      /\ ConfigureXrootd[7] = Set("xrootd.backups-exist", "yes")
      /\ ConfigureXrootd[8] = Set("xrootd.is-configured", "yes")
  BY ConfigureXrootdLines
<1> HIDE DEF This
<1> QED
  BY <1>1, <1>3, <1>4 DEF Pos, Set, Command, Preserve, Change

LEMMA AtConfigureScitokens ==
  ASSUME PcOK, pc.test = 5
  PROVE  \/ Pos = 51 /\ This.op = "preserve" /\ This.path = "scitokens.conf" /\ This.owner = "xrootd"
         \/ Pos = 52 /\ This.op = "change" /\ This.path = "scitokens.conf"
         \/ Pos = 53 /\ This.op = "change" /\ This.path = "xrootd.cfg"
<1>1. pc.line \in 1..3
  BY Sizes DEF PcOK
<1>2. Plan[pc.test] = ConfigureScitokens
  BY Tests
<1>3. This = ConfigureScitokens[pc.line]
  BY <1>2 DEF This
<1>4. /\ ConfigureScitokens[1] = Preserve("scitokens.conf", "xrootd")
      /\ ConfigureScitokens[2] = Change("scitokens.conf")
      /\ ConfigureScitokens[3] = Change("xrootd.cfg")
  BY ConfigureScitokensLines
<1> HIDE DEF This
<1> QED
  BY <1>1, <1>3, <1>4 DEF Pos, Preserve, Change

LEMMA AtStartXrootd ==
  ASSUME PcOK, pc.test = 6
  PROVE  \/ Pos = 61 /\ This.op = "skip_unless" /\ This.key = "xrootd.is-configured"
         \/ Pos = 62 /\ This.op = "set" /\ This.key = "xrootd.service-was-running" /\ This.value = "no"
         \/ Pos = 63 /\ This.op = "if_running" /\ This.svc = "xrootd" /\ This.length = 2
         \/ Pos = 64 /\ This.op = "set" /\ This.key = "xrootd.service-was-running" /\ This.value = "yes"
         \/ Pos = 65 /\ This.op = "call" /\ This.fn = "stop" /\ This.svc = "xrootd"
         \/ Pos = 66 /\ This.op = "call" /\ This.fn = "check_start" /\ This.svc = "xrootd"
<1>1. pc.line \in 1..6
  BY Sizes DEF PcOK
<1>2. Plan[pc.test] = StartXrootd
  BY Tests
<1>3. This = StartXrootd[pc.line]
  BY <1>2 DEF This
<1>4. /\ StartXrootd[1] = SkipUnless("xrootd.is-configured")
      /\ StartXrootd[2] = Set("xrootd.service-was-running", "no")
      /\ StartXrootd[3] = IfRunning("xrootd", 2)
      /\ StartXrootd[4] = Set("xrootd.service-was-running", "yes")
      /\ StartXrootd[5] = ServiceCall("stop", "xrootd", TRUE)
      /\ StartXrootd[6] = ServiceCall("check_start", "xrootd", FALSE)
  BY StartXrootdLines
<1> HIDE DEF This
<1> QED
  BY <1>1, <1>3, <1>4 DEF Pos, SkipUnless, Set, IfRunning, ServiceCall

LEMMA AtCreateVo ==
  ASSUME PcOK, pc.test = 7
  PROVE  \/ Pos = 71 /\ This.op = "sql" /\ This.add = {} /\ This.remove = {"vo"}
         \/ Pos = 72 /\ This.op = "sql" /\ This.add = {} /\ This.remove = {"user"}
         \/ Pos = 73 /\ This.op = "destroy" /\ This.item = "conf"
         \/ Pos = 74 /\ This.op = "sql" /\ This.add = {"user"} /\ This.remove = {}
         \/ Pos = 75 /\ This.op = "install_db"
<1>1. pc.line \in 1..5
  BY Sizes DEF PcOK
<1>2. Plan[pc.test] = CreateVo
  BY Tests
<1>3. This = CreateVo[pc.line]
  BY <1>2 DEF This
<1>4. /\ CreateVo[1] = Sql({}, {"vo"}) /\ CreateVo[2] = Sql({}, {"user"})
      /\ CreateVo[3] = Destroy("conf") /\ CreateVo[4] = Sql({"user"}, {})
      /\ CreateVo[5] = InstallDb
  BY CreateVoLines
<1> HIDE DEF This
<1> QED
  BY <1>1, <1>3, <1>4 DEF Pos, Sql, Destroy, InstallDb

LEMMA AtAdvertise ==
  ASSUME PcOK, pc.test = 8
  PROVE  \/ Pos = 81 /\ This.op = "command"
         \/ Pos = 82 /\ This.op = "make" /\ This.item = "lsc"
         \/ Pos = 83 /\ This.op = "command"
         \/ Pos = 84 /\ This.op = "preserve" /\ This.path = "vomses" /\ This.owner = "voms"
         \/ Pos = 85 /\ This.op = "command"
         \/ Pos = 86 /\ This.op = "change" /\ This.path = "vomses"
<1>1. pc.line \in 1..6
  BY Sizes DEF PcOK
<1>2. Plan[pc.test] = Advertise
  BY Tests
<1>3. This = Advertise[pc.line]
  BY <1>2 DEF This
<1>4. /\ Advertise[1] = Command /\ Advertise[2] = Make("lsc") /\ Advertise[3] = Command
      /\ Advertise[4] = Preserve("vomses", "voms") /\ Advertise[5] = Command
      /\ Advertise[6] = Change("vomses")
  BY AdvertiseLines
<1> HIDE DEF This
<1> QED
  BY <1>1, <1>3, <1>4 DEF Pos, Command, Make, Preserve, Change

LEMMA AtStartVoms ==
  ASSUME PcOK, pc.test = 9
  PROVE  \/ Pos = 91 /\ This.op = "set" /\ This.key = "voms.started-server" /\ This.value = "no"
         \/ Pos = 92 /\ This.op = "call" /\ This.fn = "check_start" /\ This.svc = "voms"
         \/ Pos = 93 /\ This.op = "set" /\ This.key = "voms.started-server" /\ This.value = "yes"
<1>1. pc.line \in 1..3
  BY Sizes DEF PcOK
<1>2. Plan[pc.test] = StartVoms
  BY Tests
<1>3. This = StartVoms[pc.line]
  BY <1>2 DEF This
<1>4. /\ StartVoms[1] = Set("voms.started-server", "no")
      /\ StartVoms[2] = ServiceCall("check_start", "voms", FALSE)
      /\ StartVoms[3] = Set("voms.started-server", "yes")
  BY StartVomsLines
<1> HIDE DEF This
<1> QED
  BY <1>1, <1>3, <1>4 DEF Pos, Set, ServiceCall

LEMMA AtStopVoms ==
  ASSUME PcOK, pc.test = 10
  PROVE  \/ Pos = 101 /\ This.op = "skip_unless" /\ This.key = "voms.started-server"
         \/ Pos = 102 /\ This.op = "call" /\ This.fn = "check_stop" /\ This.svc = "voms"
<1>1. pc.line \in 1..2
  BY Sizes DEF PcOK
<1>2. Plan[pc.test] = StopVoms
  BY Tests
<1>3. This = StopVoms[pc.line]
  BY <1>2 DEF This
<1>4. /\ StopVoms[1] = SkipUnless("voms.started-server")
      /\ StopVoms[2] = ServiceCall("check_stop", "voms", FALSE)
  BY StopVomsLines
<1> HIDE DEF This
<1> QED
  BY <1>1, <1>3, <1>4 DEF Pos, SkipUnless, ServiceCall

LEMMA AtRestoreVomses ==
  ASSUME PcOK, pc.test = 11
  PROVE  \/ Pos = 111 /\ This.op = "destroy" /\ This.item = "lsc"
         \/ Pos = 112 /\ This.op = "restore" /\ This.path = "vomses" /\ This.owner = "voms"
<1>1. pc.line \in 1..2
  BY Sizes DEF PcOK
<1>2. Plan[pc.test] = RestoreVomses
  BY Tests
<1>3. This = RestoreVomses[pc.line]
  BY <1>2 DEF This
<1>4. /\ RestoreVomses[1] = Destroy("lsc") /\ RestoreVomses[2] = Restore("vomses", "voms")
  BY RestoreVomsesLines
<1> HIDE DEF This
<1> QED
  BY <1>1, <1>3, <1>4 DEF Pos, Destroy, Restore

LEMMA AtRemoveVo ==
  ASSUME PcOK, pc.test = 12
  PROVE  \/ Pos = 121 /\ This.op = "sql" /\ This.add = {} /\ This.remove = {"vo"}
         \/ Pos = 122 /\ This.op = "sql" /\ This.add = {} /\ This.remove = {"user"}
         \/ Pos = 123 /\ This.op = "destroy" /\ This.item = "conf"
<1>1. pc.line \in 1..3
  BY Sizes DEF PcOK
<1>2. Plan[pc.test] = RemoveVo
  BY Tests
<1>3. This = RemoveVo[pc.line]
  BY <1>2 DEF This
<1>4. /\ RemoveVo[1] = Sql({}, {"vo"}) /\ RemoveVo[2] = Sql({}, {"user"})
      /\ RemoveVo[3] = Destroy("conf")
  BY RemoveVoLines
<1> HIDE DEF This
<1> QED
  BY <1>1, <1>3, <1>4 DEF Pos, Sql, Destroy

LEMMA AtStopXrootd ==
  ASSUME PcOK, pc.test = 13
  PROVE  \/ Pos = 131 /\ This.op = "if" /\ This.key = "xrootd.backups-exist" /\ This.length = 2
         \/ Pos = 132 /\ This.op = "restore" /\ This.path = "xrootd.cfg" /\ This.owner = "xrootd"
         \/ Pos = 133 /\ This.op = "restore" /\ This.path = "scitokens.conf" /\ This.owner = "xrootd"
         \/ Pos = 134 /\ This.op = "skip_unless" /\ This.key = "xrootd.is-configured"
         \/ Pos = 135 /\ This.op = "if_running" /\ This.svc = "xrootd" /\ This.length = 1
         \/ Pos = 136 /\ This.op = "call" /\ This.fn = "check_stop" /\ This.svc = "xrootd"
         \/ Pos = 137 /\ This.op = "if" /\ This.key = "xrootd.service-was-running" /\ This.length = 1
         \/ Pos = 138 /\ This.op = "call" /\ This.fn = "check_start" /\ This.svc = "xrootd"
<1>1. pc.line \in 1..8
  BY Sizes DEF PcOK
<1>2. Plan[pc.test] = StopXrootd
  BY Tests
<1>3. This = StopXrootd[pc.line]
  BY <1>2 DEF This
<1>4. /\ StopXrootd[1] = If("xrootd.backups-exist", 2)
      /\ StopXrootd[2] = Restore("xrootd.cfg", "xrootd")
      /\ StopXrootd[3] = Restore("scitokens.conf", "xrootd")
      /\ StopXrootd[4] = SkipUnless("xrootd.is-configured")
      /\ StopXrootd[5] = IfRunning("xrootd", 1)
      /\ StopXrootd[6] = ServiceCall("check_stop", "xrootd", TRUE)
      /\ StopXrootd[7] = If("xrootd.service-was-running", 1)
      /\ StopXrootd[8] = ServiceCall("check_start", "xrootd", TRUE)
  BY StopXrootdLines
<1> HIDE DEF This
<1> QED
  BY <1>1, <1>3, <1>4 DEF Pos, If, Restore, SkipUnless, IfRunning, ServiceCall

LEMMA AtStopMunge ==
  ASSUME PcOK, pc.test = 14
  PROVE  \/ Pos = 141 /\ This.op = "skip_unless_started" /\ This.svc = "munge"
         \/ Pos = 142 /\ This.op = "call" /\ This.fn = "check_stop" /\ This.svc = "munge"
         \/ Pos = 143 /\ This.op = "restore" /\ This.path = "munge.key" /\ This.owner = "munge"
<1>1. pc.line \in 1..3
  BY Sizes DEF PcOK
<1>2. Plan[pc.test] = StopMunge
  BY Tests
<1>3. This = StopMunge[pc.line]
  BY <1>2 DEF This
<1>4. /\ StopMunge[1] = SkipUnlessStarted("munge")
      /\ StopMunge[2] = ServiceCall("check_stop", "munge", FALSE)
      /\ StopMunge[3] = Restore("munge.key", "munge")
  BY StopMungeLines
<1> HIDE DEF This
<1> QED
  BY <1>1, <1>3, <1>4 DEF Pos, SkipUnlessStarted, ServiceCall, Restore

LEMMA AtStopMysqld ==
  ASSUME PcOK, pc.test = 15
  PROVE  \/ Pos = 151 /\ This.op = "call" /\ This.fn = "check_stop" /\ This.svc = "mariadb"
<1>1. pc.line \in 1..1
  BY Sizes DEF PcOK
<1>2. Plan[pc.test] = StopMysqld
  BY Tests
<1>3. This = StopMysqld[pc.line]
  BY <1>2 DEF This
<1>4. /\ StopMysqld[1] = ServiceCall("check_stop", "mariadb", FALSE)
  BY StopMysqldLines
<1> HIDE DEF This
<1> QED
  BY <1>1, <1>3, <1>4 DEF Pos, ServiceCall

LEMMA AtRestoreMysql ==
  ASSUME PcOK, pc.test = 16
  PROVE  \/ Pos = 161 /\ This.op = "unless_option"
         \/ Pos = 162 /\ This.op = "if" /\ This.key = "mysql.backup" /\ This.length = 2
         \/ Pos = 163 /\ This.op = "remove_data"
         \/ Pos = 164 /\ This.op = "move_data_back"
<1>1. pc.line \in 1..4
  BY Sizes DEF PcOK
<1>2. Plan[pc.test] = RestoreMysql
  BY Tests
<1>3. This = RestoreMysql[pc.line]
  BY <1>2 DEF This
<1>4. /\ RestoreMysql[1] = ReturnUnlessOption /\ RestoreMysql[2] = If("mysql.backup", 2)
      /\ RestoreMysql[3] = RemoveData /\ RestoreMysql[4] = MoveDataBack
  BY RestoreMysqlLines
<1> HIDE DEF This
<1> QED
  BY <1>1, <1>3, <1>4 DEF Pos, ReturnUnlessOption, If, RemoveData, MoveDataBack

LEMMA AtLastTest ==
  ASSUME PcOK, pc.test = 17
  PROVE  \/ Pos = 171 /\ This.op = "check_backups"
<1>1. pc.line \in 1..1
  BY Sizes DEF PcOK
<1>2. Plan[pc.test] = LastTest
  BY Tests
<1>3. This = LastTest[pc.line]
  BY <1>2 DEF This
<1>4. /\ LastTest[1] = CheckBackups
  BY LastTestLines
<1> HIDE DEF This
<1> QED
  BY <1>1, <1>3, <1>4 DEF Pos, CheckBackups

(* Until the run is done there is a test. *)
LEMMA SomeTest ==
  ASSUME PcOK, ~Done
  PROVE  pc.test \in 1..17
BY PlanLength DEF PcOK, Done

(* The operation of every statement of the plan ... *)
LEMMA Operations ==
  ASSUME PcOK, ~Done
  PROVE  \/ This.op = "unless_option" /\ Pos \in {11, 161}
         \/ This.op = "set" /\ Pos \in {12, 41, 42, 47, 48, 62, 64, 91, 93}
         \/ This.op = "call" /\ Pos \in {13, 15, 21, 36, 65, 66, 92, 102, 136, 138, 142, 151}
         \/ This.op = "command" /\ Pos \in {14, 35, 43, 46, 81, 83, 85}
         \/ This.op = "move_data" /\ Pos \in {16}
         \/ This.op = "reset_flag" /\ Pos \in {31}
         \/ This.op = "skip_if_running" /\ Pos \in {32}
         \/ This.op = "preserve" /\ Pos \in {33, 44, 51, 84}
         \/ This.op = "change" /\ Pos \in {34, 45, 52, 53, 86}
         \/ This.op = "skip_unless" /\ Pos \in {61, 101, 134}
         \/ This.op = "if_running" /\ Pos \in {63, 135}
         \/ This.op = "sql" /\ Pos \in {71, 72, 74, 121, 122}
         \/ This.op = "destroy" /\ Pos \in {73, 111, 123}
         \/ This.op = "install_db" /\ Pos \in {75}
         \/ This.op = "make" /\ Pos \in {82}
         \/ This.op = "restore" /\ Pos \in {112, 132, 133, 143}
         \/ This.op = "if" /\ Pos \in {131, 137, 162}
         \/ This.op = "skip_unless_started" /\ Pos \in {141}
         \/ This.op = "remove_data" /\ Pos \in {163}
         \/ This.op = "move_data_back" /\ Pos \in {164}
         \/ This.op = "check_backups" /\ Pos \in {171}
<1>1. CASE pc.test = 1
  BY <1>1, AtBackupMysql
<1>2. CASE pc.test = 2
  BY <1>2, AtStartMysqld
<1>3. CASE pc.test = 3
  BY <1>3, AtStartMunge
<1>4. CASE pc.test = 4
  BY <1>4, AtConfigureXrootd
<1>5. CASE pc.test = 5
  BY <1>5, AtConfigureScitokens
<1>6. CASE pc.test = 6
  BY <1>6, AtStartXrootd
<1>7. CASE pc.test = 7
  BY <1>7, AtCreateVo
<1>8. CASE pc.test = 8
  BY <1>8, AtAdvertise
<1>9. CASE pc.test = 9
  BY <1>9, AtStartVoms
<1>10. CASE pc.test = 10
  BY <1>10, AtStopVoms
<1>11. CASE pc.test = 11
  BY <1>11, AtRestoreVomses
<1>12. CASE pc.test = 12
  BY <1>12, AtRemoveVo
<1>13. CASE pc.test = 13
  BY <1>13, AtStopXrootd
<1>14. CASE pc.test = 14
  BY <1>14, AtStopMunge
<1>15. CASE pc.test = 15
  BY <1>15, AtStopMysqld
<1>16. CASE pc.test = 16
  BY <1>16, AtRestoreMysql
<1>17. CASE pc.test = 17
  BY <1>17, AtLastTest
<1> QED
  BY SomeTest, <1>1, <1>2, <1>3, <1>4, <1>5, <1>6, <1>7, <1>8, <1>9, <1>10, <1>11,
     <1>12, <1>13, <1>14, <1>15, <1>16, <1>17

(* ... and its arguments. *)
LEMMA Arguments ==
  ASSUME PcOK, ~Done
  PROVE  /\ Pos = 12 => This.key = "mysql.backup" /\ This.value = "no"
         /\ Pos = 41 => This.key = "xrootd.is-configured" /\ This.value = "no"
         /\ Pos = 42 => This.key = "xrootd.backups-exist" /\ This.value = "no"
         /\ Pos = 47 => This.key = "xrootd.backups-exist" /\ This.value = "yes"
         /\ Pos = 48 => This.key = "xrootd.is-configured" /\ This.value = "yes"
         /\ Pos = 62 => This.key = "xrootd.service-was-running" /\ This.value = "no"
         /\ Pos = 64 => This.key = "xrootd.service-was-running" /\ This.value = "yes"
         /\ Pos = 91 => This.key = "voms.started-server" /\ This.value = "no"
         /\ Pos = 93 => This.key = "voms.started-server" /\ This.value = "yes"
         /\ Pos = 13 => This.fn = "check_start" /\ This.svc = "mariadb"
         /\ Pos = 15 => This.fn = "check_stop" /\ This.svc = "mariadb"
         /\ Pos = 21 => This.fn = "check_start" /\ This.svc = "mariadb"
         /\ Pos = 36 => This.fn = "check_start" /\ This.svc = "munge"
         /\ Pos = 65 => This.fn = "stop" /\ This.svc = "xrootd"
         /\ Pos = 66 => This.fn = "check_start" /\ This.svc = "xrootd"
         /\ Pos = 92 => This.fn = "check_start" /\ This.svc = "voms"
         /\ Pos = 102 => This.fn = "check_stop" /\ This.svc = "voms"
         /\ Pos = 136 => This.fn = "check_stop" /\ This.svc = "xrootd"
         /\ Pos = 138 => This.fn = "check_start" /\ This.svc = "xrootd"
         /\ Pos = 142 => This.fn = "check_stop" /\ This.svc = "munge"
         /\ Pos = 151 => This.fn = "check_stop" /\ This.svc = "mariadb"
         /\ Pos = 31 => This.svc = "munge"
         /\ Pos = 32 => This.svc = "munge"
         /\ Pos = 33 => This.path = "munge.key" /\ This.owner = "munge"
         /\ Pos = 44 => This.path = "xrootd.cfg" /\ This.owner = "xrootd"
         /\ Pos = 51 => This.path = "scitokens.conf" /\ This.owner = "xrootd"
         /\ Pos = 84 => This.path = "vomses" /\ This.owner = "voms"
         /\ Pos = 34 => This.path = "munge.key"
         /\ Pos = 45 => This.path = "xrootd.cfg"
         /\ Pos = 52 => This.path = "scitokens.conf"
         /\ Pos = 53 => This.path = "xrootd.cfg"
         /\ Pos = 86 => This.path = "vomses"
         /\ Pos = 61 => This.key = "xrootd.is-configured"
         /\ Pos = 101 => This.key = "voms.started-server"
         /\ Pos = 134 => This.key = "xrootd.is-configured"
         /\ Pos = 63 => This.svc = "xrootd" /\ This.length = 2
         /\ Pos = 135 => This.svc = "xrootd" /\ This.length = 1
         /\ Pos = 71 => This.add = {} /\ This.remove = {"vo"}
         /\ Pos = 72 => This.add = {} /\ This.remove = {"user"}
         /\ Pos = 74 => This.add = {"user"} /\ This.remove = {}
         /\ Pos = 121 => This.add = {} /\ This.remove = {"vo"}
         /\ Pos = 122 => This.add = {} /\ This.remove = {"user"}
         /\ Pos = 73 => This.item = "conf"
         /\ Pos = 111 => This.item = "lsc"
         /\ Pos = 123 => This.item = "conf"
         /\ Pos = 82 => This.item = "lsc"
         /\ Pos = 112 => This.path = "vomses" /\ This.owner = "voms"
         /\ Pos = 132 => This.path = "xrootd.cfg" /\ This.owner = "xrootd"
         /\ Pos = 133 => This.path = "scitokens.conf" /\ This.owner = "xrootd"
         /\ Pos = 143 => This.path = "munge.key" /\ This.owner = "munge"
         /\ Pos = 131 => This.key = "xrootd.backups-exist" /\ This.length = 2
         /\ Pos = 137 => This.key = "xrootd.service-was-running" /\ This.length = 1
         /\ Pos = 162 => This.key = "mysql.backup" /\ This.length = 2
         /\ Pos = 141 => This.svc = "munge"
<1>1. CASE pc.test = 1
  BY <1>1, AtBackupMysql
<1>2. CASE pc.test = 2
  BY <1>2, AtStartMysqld
<1>3. CASE pc.test = 3
  BY <1>3, AtStartMunge
<1>4. CASE pc.test = 4
  BY <1>4, AtConfigureXrootd
<1>5. CASE pc.test = 5
  BY <1>5, AtConfigureScitokens
<1>6. CASE pc.test = 6
  BY <1>6, AtStartXrootd
<1>7. CASE pc.test = 7
  BY <1>7, AtCreateVo
<1>8. CASE pc.test = 8
  BY <1>8, AtAdvertise
<1>9. CASE pc.test = 9
  BY <1>9, AtStartVoms
<1>10. CASE pc.test = 10
  BY <1>10, AtStopVoms
<1>11. CASE pc.test = 11
  BY <1>11, AtRestoreVomses
<1>12. CASE pc.test = 12
  BY <1>12, AtRemoveVo
<1>13. CASE pc.test = 13
  BY <1>13, AtStopXrootd
<1>14. CASE pc.test = 14
  BY <1>14, AtStopMunge
<1>15. CASE pc.test = 15
  BY <1>15, AtStopMysqld
<1>16. CASE pc.test = 16
  BY <1>16, AtRestoreMysql
<1>17. CASE pc.test = 17
  BY <1>17, AtLastTest
<1> QED
  BY SomeTest, <1>1, <1>2, <1>3, <1>4, <1>5, <1>6, <1>7, <1>8, <1>9, <1>10, <1>11,
     <1>12, <1>13, <1>14, <1>15, <1>16, <1>17

(* The first statement of the test after this one. *)
Top == 10 * pc.test + 11

(* Which calls are forced. *)
LEMMA Forced ==
  ASSUME PcOK, ~Done, This.op = "call"
  PROVE  /\ This.force \in BOOLEAN
         /\ Pos \in {65, 136, 138} => This.force
<1>1. pc.test \in 1..17 /\ pc.line \in 1..9
  BY SomeTest DEF PcOK
<1>2. Pos \in {13, 15, 21, 36, 65, 66, 92, 102, 136, 138, 142, 151}
  BY Operations
<1>3. /\ \A fn, s : This = ServiceCall(fn, s, TRUE) => This.force = TRUE
      /\ \A fn, s : This = ServiceCall(fn, s, FALSE) => This.force = FALSE
  BY DEF ServiceCall
<1>4. CASE Pos = 13
  <2>1. pc.test = 1 /\ pc.line = 3
    BY <1>1, <1>4 DEF Pos
  <2>2. This = ServiceCall("check_start", "mariadb", FALSE)
    BY <2>1, Tests, BackupMysqlLines DEF This
  <2>3. This.force = FALSE
    BY <2>2, <1>3, Zenon
  <2>4. This.force \in BOOLEAN
    BY <2>3, Zenon
  <2>5. ~(Pos \in {65, 136, 138})
    BY <1>4
  <2> QED
    BY <2>4, <2>5, Zenon
<1>5. CASE Pos = 15
  <2>1. pc.test = 1 /\ pc.line = 5
    BY <1>1, <1>5 DEF Pos
  <2>2. This = ServiceCall("check_stop", "mariadb", FALSE)
    BY <2>1, Tests, BackupMysqlLines DEF This
  <2>3. This.force = FALSE
    BY <2>2, <1>3, Zenon
  <2>4. This.force \in BOOLEAN
    BY <2>3, Zenon
  <2>5. ~(Pos \in {65, 136, 138})
    BY <1>5
  <2> QED
    BY <2>4, <2>5, Zenon
<1>6. CASE Pos = 21
  <2>1. pc.test = 2 /\ pc.line = 1
    BY <1>1, <1>6 DEF Pos
  <2>2. This = ServiceCall("check_start", "mariadb", FALSE)
    BY <2>1, Tests, StartMysqldLines DEF This
  <2>3. This.force = FALSE
    BY <2>2, <1>3, Zenon
  <2>4. This.force \in BOOLEAN
    BY <2>3, Zenon
  <2>5. ~(Pos \in {65, 136, 138})
    BY <1>6
  <2> QED
    BY <2>4, <2>5, Zenon
<1>7. CASE Pos = 36
  <2>1. pc.test = 3 /\ pc.line = 6
    BY <1>1, <1>7 DEF Pos
  <2>2. This = ServiceCall("check_start", "munge", FALSE)
    BY <2>1, Tests, StartMungeLines DEF This
  <2>3. This.force = FALSE
    BY <2>2, <1>3, Zenon
  <2>4. This.force \in BOOLEAN
    BY <2>3, Zenon
  <2>5. ~(Pos \in {65, 136, 138})
    BY <1>7
  <2> QED
    BY <2>4, <2>5, Zenon
<1>8. CASE Pos = 65
  <2>1. pc.test = 6 /\ pc.line = 5
    BY <1>1, <1>8 DEF Pos
  <2>2. This = ServiceCall("stop", "xrootd", TRUE)
    BY <2>1, Tests, StartXrootdLines DEF This
  <2>3. This.force = TRUE
    BY <2>2, <1>3, Zenon
  <2> QED
    BY <2>3
<1>9. CASE Pos = 66
  <2>1. pc.test = 6 /\ pc.line = 6
    BY <1>1, <1>9 DEF Pos
  <2>2. This = ServiceCall("check_start", "xrootd", FALSE)
    BY <2>1, Tests, StartXrootdLines DEF This
  <2>3. This.force = FALSE
    BY <2>2, <1>3, Zenon
  <2>4. This.force \in BOOLEAN
    BY <2>3, Zenon
  <2>5. ~(Pos \in {65, 136, 138})
    BY <1>9
  <2> QED
    BY <2>4, <2>5, Zenon
<1>10. CASE Pos = 92
  <2>1. pc.test = 9 /\ pc.line = 2
    BY <1>1, <1>10 DEF Pos
  <2>2. This = ServiceCall("check_start", "voms", FALSE)
    BY <2>1, Tests, StartVomsLines DEF This
  <2>3. This.force = FALSE
    BY <2>2, <1>3, Zenon
  <2>4. This.force \in BOOLEAN
    BY <2>3, Zenon
  <2>5. ~(Pos \in {65, 136, 138})
    BY <1>10
  <2> QED
    BY <2>4, <2>5, Zenon
<1>11. CASE Pos = 102
  <2>1. pc.test = 10 /\ pc.line = 2
    BY <1>1, <1>11 DEF Pos
  <2>2. This = ServiceCall("check_stop", "voms", FALSE)
    BY <2>1, Tests, StopVomsLines DEF This
  <2>3. This.force = FALSE
    BY <2>2, <1>3, Zenon
  <2>4. This.force \in BOOLEAN
    BY <2>3, Zenon
  <2>5. ~(Pos \in {65, 136, 138})
    BY <1>11
  <2> QED
    BY <2>4, <2>5, Zenon
<1>12. CASE Pos = 136
  <2>1. pc.test = 13 /\ pc.line = 6
    BY <1>1, <1>12 DEF Pos
  <2>2. This = ServiceCall("check_stop", "xrootd", TRUE)
    BY <2>1, Tests, StopXrootdLines DEF This
  <2>3. This.force = TRUE
    BY <2>2, <1>3, Zenon
  <2> QED
    BY <2>3
<1>13. CASE Pos = 138
  <2>1. pc.test = 13 /\ pc.line = 8
    BY <1>1, <1>13 DEF Pos
  <2>2. This = ServiceCall("check_start", "xrootd", TRUE)
    BY <2>1, Tests, StopXrootdLines DEF This
  <2>3. This.force = TRUE
    BY <2>2, <1>3, Zenon
  <2> QED
    BY <2>3
<1>14. CASE Pos = 142
  <2>1. pc.test = 14 /\ pc.line = 2
    BY <1>1, <1>14 DEF Pos
  <2>2. This = ServiceCall("check_stop", "munge", FALSE)
    BY <2>1, Tests, StopMungeLines DEF This
  <2>3. This.force = FALSE
    BY <2>2, <1>3, Zenon
  <2>4. This.force \in BOOLEAN
    BY <2>3, Zenon
  <2>5. ~(Pos \in {65, 136, 138})
    BY <1>14
  <2> QED
    BY <2>4, <2>5, Zenon
<1>15. CASE Pos = 151
  <2>1. pc.test = 15 /\ pc.line = 1
    BY <1>1, <1>15 DEF Pos
  <2>2. This = ServiceCall("check_stop", "mariadb", FALSE)
    BY <2>1, Tests, StopMysqldLines DEF This
  <2>3. This.force = FALSE
    BY <2>2, <1>3, Zenon
  <2>4. This.force \in BOOLEAN
    BY <2>3, Zenon
  <2>5. ~(Pos \in {65, 136, 138})
    BY <1>15
  <2> QED
    BY <2>4, <2>5, Zenon
<1> QED
  BY <1>2, <1>4, <1>5, <1>6, <1>7, <1>8, <1>9, <1>10, <1>11, <1>12, <1>13, <1>14, <1>15

(* The statement that comes next is on the plan. *)
LEMMA Ahead ==
  ASSUME PcOK, ~Done
  PROVE  /\ NextTest => PcOK' /\ Pos' = Top
         /\ \A n \in 1..3 : Advance(n) =>
              PcOK' /\ Pos' = IF pc.line + n <= Size(pc.test) THEN Pos + n ELSE Top
<1>1. pc.test \in 1..17 /\ pc.line \in 1..9 /\ pc = [test |-> pc.test, line |-> pc.line]
  BY SomeTest DEF PcOK
<1>2. Size(pc.test) \in 1..8 /\ Size(pc.test + 1) \in 1..8
  BY <1>1, Sizes
<1>3. Len(Plan[pc.test]) = Size(pc.test)
  BY <1>1 DEF Size
<1>4. NextTest => PcOK' /\ Pos' = Top
  BY <1>1, <1>2 DEF NextTest, PcOK, Pos, Top
<1>5. ASSUME NEW n \in 1..3, Advance(n), pc.line + n <= Size(pc.test)
      PROVE  PcOK' /\ Pos' = Pos + n
  <2>1. pc' = [pc EXCEPT !.line = @ + n]
    BY <1>5, <1>3 DEF Advance
  <2>2. pc'.test = pc.test /\ pc'.line = pc.line + n /\ pc' \in [test : 1..18, line : 1..9]
    BY <2>1, <1>1, <1>2, <1>5
  <2> QED
    BY <1>1, <1>5, <2>2 DEF PcOK, Pos
<1>6. ASSUME NEW n \in 1..3, Advance(n), ~(pc.line + n <= Size(pc.test))
      PROVE  NextTest
  BY <1>2, <1>6, <1>3 DEF Advance
<1> QED
  BY <1>4, <1>5, <1>6

(* The last statements of the tests. *)
LEMMA Last ==
  ASSUME PcOK, ~Done
  PROVE  /\ Pos \in LastLines <=> ~(pc.line + 1 <= Size(pc.test))
         /\ Pos \in Nat
<1>1. pc.test \in 1..17 /\ pc.line \in 1..9 /\ pc.line <= Size(pc.test)
  BY SomeTest DEF PcOK
<1> QED
  BY <1>1, Sizes DEF Pos, LastLines

--------------------------------------------------------------------------------
(* How a step moves along the plan.                                        *)

(* How a step moves on: it stays in its statement, Ctrl-C, a failure, on   *)
(* to the next statement, or past some.                                    *)
Stays == pc' = pc /\ failed' = failed /\ interrupted' = interrupted
Cut == Pos' = 171 /\ pc.test < 17 /\ failed' = failed /\ interrupted' = TRUE /\ Pos' > Pos
Raised == Pos' = Top /\ failed' = failed \cup {pc.test} /\ interrupted' = interrupted
OnTo(p) == Pos' = p /\ failed' = failed /\ interrupted' = interrupted
Forth == OnTo(IF Pos \in LastLines THEN Top ELSE Pos + 1)

(* The condition of a branch, and where it goes on if it does not hold.    *)
Holds ==
  /\ Pos \in {11, 161} => backupmysql
  /\ Pos \in {61, 134} => Yes("xrootd.is-configured")
  /\ Pos = 101 => Yes("voms.started-server")
  /\ Pos = 131 => Yes("xrootd.backups-exist")
  /\ Pos = 137 => Yes("xrootd.service-was-running")
  /\ Pos = 162 => Yes("mysql.backup")
  /\ Pos = 141 => started["munge"]
  /\ Pos = 32 => daemon["munge"] # "running"
  /\ Pos \in {63, 135} => daemon["xrootd"] = "running"
Past ==
  \/ Pos \in {11, 161} /\ ~backupmysql /\ OnTo(Top)
  \/ Pos \in {61, 134} /\ ~Yes("xrootd.is-configured") /\ OnTo(Top)
  \/ Pos = 101 /\ ~Yes("voms.started-server") /\ OnTo(Top)
  \/ Pos = 131 /\ ~Yes("xrootd.backups-exist") /\ OnTo(134)
  \/ Pos = 137 /\ ~Yes("xrootd.service-was-running") /\ OnTo(Top)
  \/ Pos = 162 /\ ~Yes("mysql.backup") /\ OnTo(Top)
  \/ Pos = 141 /\ ~started["munge"] /\ OnTo(Top)
  \/ Pos = 32 /\ daemon["munge"] = "running" /\ OnTo(Top)
  \/ Pos = 63 /\ daemon["xrootd"] # "running" /\ OnTo(66)
  \/ Pos = 135 /\ daemon["xrootd"] # "running" /\ OnTo(137)

Moves == Stays \/ Cut \/ Raised \/ (Forth /\ Holds) \/ Past

(* The statements with a condition. *)
BranchLines == {11, 32, 61, 63, 101, 131, 134, 135, 137, 141, 161, 162}

(* A statement that works goes on to the next one. *)
LEMMA Continues ==
  ASSUME PcOK, ~Done, Advance(1), failed' = failed, interrupted' = interrupted
  PROVE  PcOK' /\ Forth
BY Ahead, Last, 1 \in 1..3, 1 + 0 = 1 DEF Forth, OnTo

(* A statement that raises ends its test. *)
LEMMA Raises ==
  ASSUME PcOK, ~Done, Raise, interrupted' = interrupted
  PROVE  PcOK' /\ Raised
BY Ahead DEF Raise, Raised

(* Only the branches have a condition. *)
LEMMA NoBranch ==
  ASSUME ~(Pos \in BranchLines), Forth
  PROVE  Moves
BY DEF Moves, Holds, BranchLines

(* A call is of a statement that calls. *)
LEMMA CallLine ==
  ASSUME PcOK, CallInv, call # NoCall
  PROVE  ~Done /\ Pos \in {13, 15, 21, 36, 65, 66, 92, 102, 136, 138, 142, 151}
BY Operations DEF CallInv

(* A branch goes on if its condition holds, and past some statements if    *)
(* not.                                                                    *)
LEMMA BranchMoves ==
  ASSUME PcOK, Branch
  PROVE  PcOK' /\ Moves
<1> USE DEF Statement, Yes
<1>1. ~Done /\ failed' = failed /\ interrupted' = interrupted
  BY DEF Branch
<1>2. NextTest => PcOK' /\ OnTo(Top)
  BY <1>1, Ahead DEF OnTo
<1>3. Continue => PcOK' /\ Forth
  BY <1>1, Continues DEF Continue
<1>4. Advance(1) => PcOK' /\ Forth
  BY <1>1, Continues
<1>5. CASE Statement("unless_option") /\ (IF backupmysql THEN Continue ELSE NextTest)
  <2>1. Pos \in {11, 161}
    BY <1>1, <1>5, Operations
  <2> QED
    BY <1>5, <2>1, <1>2, <1>3 DEF Moves, Past, Holds
<1>6. CASE Statement("skip_unless_started") /\ (IF started[This.svc] THEN Continue ELSE NextTest)
  <2>1. Pos = 141 /\ This.svc = "munge"
    BY <1>1, <1>6, Operations, Arguments
  <2> QED
    BY <1>6, <2>1, <1>2, <1>3 DEF Moves, Past, Holds
<1>7. CASE /\ Statement("skip_if_running")
           /\ IF status(This.svc) = STATUS_RUNNING THEN NextTest ELSE Continue
  <2>1. Pos = 32 /\ This.svc = "munge"
    BY <1>1, <1>7, Operations, Arguments
  <2> QED
    BY <1>7, <2>1, <1>2, <1>3 DEF Moves, Past, Holds, status, STATUS_RUNNING,
       STATUS_STOPPED
<1>8. CASE Statement("skip_unless") /\ (IF state[This.key] = "yes" THEN Continue ELSE NextTest)
  <2>1. \/ Pos \in {61, 134} /\ This.key = "xrootd.is-configured"
        \/ Pos = 101 /\ This.key = "voms.started-server"
    BY <1>1, <1>8, Operations, Arguments
  <2> QED
    BY <1>8, <2>1, <1>2, <1>3 DEF Moves, Past, Holds
<1>9. CASE /\ Statement("if")
           /\ Advance(IF state[This.key] = "yes" THEN 1 ELSE This.length + 1)
  <2>1. \/ Pos = 131 /\ This.key = "xrootd.backups-exist" /\ This.length = 2
        \/ Pos = 137 /\ This.key = "xrootd.service-was-running" /\ This.length = 1
        \/ Pos = 162 /\ This.key = "mysql.backup" /\ This.length = 2
    BY <1>1, <1>9, Operations, Arguments
  <2>2. CASE Yes(This.key)
    BY <1>9, <2>1, <2>2, <1>4 DEF Moves, Holds
  <2>3. CASE ~Yes(This.key)
    <3>1. /\ Pos \in {131, 162} => Advance(3)
          /\ Pos = 137 => Advance(2)
      BY <1>9, <2>1, <2>3
    <3>2. /\ Pos = 131 => pc.test = 13 /\ pc.line = 1
          /\ Pos = 137 => pc.test = 13 /\ pc.line = 7
          /\ Pos = 162 => pc.test = 16 /\ pc.line = 2
      BY <1>1, SomeTest DEF PcOK, Pos
    <3>3. /\ Pos = 131 => PcOK' /\ Pos' = 134
          /\ Pos \in {137, 162} => PcOK' /\ Pos' = Top
      BY <1>1, <3>1, <3>2, Ahead, Sizes
    <3> QED
      BY <1>1, <2>1, <2>3, <3>3 DEF Moves, Past, OnTo
  <2> QED
    BY <2>2, <2>3
<1>10. CASE /\ Statement("if_running")
           /\ Advance(IF status(This.svc) = STATUS_RUNNING THEN 1 ELSE This.length + 1)
  <2>1. \/ Pos = 63 /\ This.svc = "xrootd" /\ This.length = 2
        \/ Pos = 135 /\ This.svc = "xrootd" /\ This.length = 1
    BY <1>1, <1>10, Operations, Arguments
  <2>2. CASE daemon["xrootd"] = "running"
    BY <1>10, <2>1, <2>2, <1>4 DEF Moves, Holds, status, STATUS_RUNNING, STATUS_STOPPED
  <2>3. CASE daemon["xrootd"] # "running"
    <3>1. (Pos = 63 => Advance(3)) /\ (Pos = 135 => Advance(2))
      BY <1>10, <2>1, <2>3 DEF status, STATUS_RUNNING, STATUS_STOPPED
    <3>2. /\ Pos = 63 => pc.test = 6 /\ pc.line = 3
          /\ Pos = 135 => pc.test = 13 /\ pc.line = 5
      BY <1>1, SomeTest DEF PcOK, Pos
    <3>3. (Pos = 63 => PcOK' /\ Pos' = 66) /\ (Pos = 135 => PcOK' /\ Pos' = 137)
      BY <1>1, <3>1, <3>2, Ahead, Sizes
    <3> QED
      BY <1>1, <2>1, <2>3, <3>3 DEF Moves, Past, OnTo
  <2> QED
    BY <2>2, <2>3
<1> QED
  BY <1>5, <1>6, <1>7, <1>8, <1>9, <1>10 DEF Branch

(* Every step moves along the plan, and stays on it. *)
LEMMA Moving ==
  ASSUME PcOK, CallInv, Next
  PROVE  PcOK' /\ Moves
<1> USE DEF Statement
<1>1. ASSUME Statement("set") \/ Statement("reset_flag") \/ Statement("command")
             \/ Statement("preserve") \/ Statement("change") \/ Statement("restore") \/ Statement("make")
             \/ Statement("destroy") \/ Statement("sql") \/ Statement("install_db")
             \/ Statement("move_data") \/ Statement("remove_data")
             \/ Statement("move_data_back") \/ Statement("check_backups")
      PROVE  ~(Pos \in BranchLines) /\ ~Done
  BY <1>1, Operations DEF BranchLines
<1>2. ASSUME ~Done, ~(Pos \in BranchLines), Advance(1), UNCHANGED failed, UNCHANGED interrupted
      PROVE  PcOK' /\ Moves
  BY <1>2, Continues, NoBranch
<1>3. ASSUME ~Done, Raise, UNCHANGED interrupted
      PROVE  PcOK' /\ Moves
  BY <1>3, Raises DEF Moves
<1>4. ASSUME UNCHANGED <<pc, failed, interrupted>>
      PROVE  PcOK' /\ Moves
  BY <1>4 DEF Moves, Stays, PcOK
<1>5. CASE SetKey
  BY <1>5, <1>1, <1>2 DEF SetKey, Continue
<1>6. CASE ResetStarted
  BY <1>6, <1>1, <1>2 DEF ResetStarted, Continue
<1>7. CASE Branch
  BY <1>7, BranchMoves
<1>8. CASE RunCommand
  BY <1>8, <1>1, <1>2, <1>3 DEF RunCommand, Works, Continue, Fails
<1>9. CASE PreserveFile
  BY <1>9, <1>1, <1>2, <1>3 DEF PreserveFile, Works, Continue, Fails
<1>10. CASE ChangeFile
  BY <1>10, <1>1, <1>2, <1>3 DEF ChangeFile, Works, Continue, Fails
<1>11. CASE RestoreFile
  BY <1>11, <1>1, <1>2, <1>3 DEF RestoreFile, Works, Continue
<1>12. CASE MakeDir
  BY <1>12, <1>1, <1>2, <1>3 DEF MakeDir, Works, Continue, Fails
<1>13. CASE DestroyDir
  BY <1>13, <1>1, <1>2, <1>3 DEF DestroyDir, Continue
<1>14. CASE ExecuteSql
  BY <1>14, <1>1, <1>2 DEF ExecuteSql
<1>15. CASE InstallVoDb
  BY <1>15, <1>1, <1>2, <1>3 DEF InstallVoDb, Works, Continue
<1>16. CASE MoveDatadir
  BY <1>16, <1>1, <1>2 DEF MoveDatadir
<1>17. CASE BackupExists
  BY <1>17, <1>1, <1>3 DEF BackupExists
<1>18. CASE RemoveDatadir \/ MoveDatadirBack
  BY <1>18, <1>1, <1>2, <1>3 DEF RemoveDatadir, MoveDatadirBack, Continue
<1>19. CASE RemoveBackups
  BY <1>19, <1>1, <1>2, <1>3 DEF RemoveBackups, Continue
<1>20. CASE BeginCall
  BY <1>20, <1>4 DEF BeginCall
<1>21. CASE CommandSucceeds
  BY <1>21, <1>4 DEF CommandSucceeds
<1>22. CASE Wait
  BY <1>22, <1>4 DEF Wait
<1>23. CASE CommandFails
  BY <1>23, <1>4 DEF CommandFails
<1>24. CASE EndCall
  <2>1. call # NoCall
    BY <1>24 DEF EndCall, At
  <2>2. ~Done /\ ~(Pos \in BranchLines)
    BY <2>1, CallLine DEF BranchLines
  <2> QED
    BY <1>24, <2>2, <1>2, <1>3 DEF EndCall
<1>25. CASE Interrupt
  <2>1. pc' = [test |-> 17, line |-> 1] /\ pc.test < 17 /\ interrupted' = TRUE /\ failed' = failed
    BY <1>25, PlanLength DEF Interrupt
  <2>2. pc'.test = 17 /\ pc'.line = 1 /\ pc' \in [test : 1..18, line : 1..9]
    BY <2>1
  <2>3. Pos' = 171 /\ PcOK'
    BY <2>2, Sizes DEF Pos, PcOK
  <2>4. Pos < 171
    BY <2>1 DEF PcOK, Pos
  <2> QED
    BY <2>1, <2>3, <2>4 DEF Moves, Cut
<1>26. ASSUME NEW s \in Service, DaemonDies(s) \/ DaemonComesUp(s)
       PROVE  PcOK' /\ Moves
  BY <1>26, <1>4 DEF DaemonDies, DaemonComesUp
<1> QED
  BY <1>5, <1>6, <1>7, <1>8, <1>9, <1>10, <1>11, <1>12, <1>13, <1>14, <1>15, <1>16,
     <1>17, <1>18,
     <1>19, <1>20, <1>21, <1>22, <1>23, <1>24, <1>25, <1>26 DEF Next

--------------------------------------------------------------------------------
(* What a step does to each part of the state.                             *)

(* What a step does to the files and their backups. *)
Saves(p, o) == saved' = [saved EXCEPT ![<<p, o>>] = content[p]] /\ content' = content
Changes(p) == content' = [content EXCEPT ![p] = "test"] /\ saved' = saved
PutsBack(p, o) ==
  /\ saved[<<p, o>>] # NotSaved
  /\ content' = [content EXCEPT ![p] = saved[<<p, o>>]]
  /\ saved' = [saved EXCEPT ![<<p, o>>] = NotSaved]

(* The statements about files, and the steps that get none of them done.   *)
FileLines == {33, 34, 44, 45, 51, 52, 53, 84, 86, 112, 132, 133, 143}
Abandons == Stays \/ Cut \/ Raised
FileStep ==
  \/ content' = content /\ saved' = saved /\ (Pos \in FileLines => Abandons)
  \/ Forth /\ \/ Pos = 33 /\ Saves("munge.key", "munge")
              \/ Pos = 34 /\ Changes("munge.key")
              \/ Pos = 44 /\ Saves("xrootd.cfg", "xrootd")
              \/ Pos \in {45, 53} /\ Changes("xrootd.cfg")
              \/ Pos = 51 /\ Saves("scitokens.conf", "xrootd")
              \/ Pos = 52 /\ Changes("scitokens.conf")
              \/ Pos = 84 /\ Saves("vomses", "voms")
              \/ Pos = 86 /\ Changes("vomses")
              \/ Pos = 112 /\ PutsBack("vomses", "voms")
              \/ Pos = 132 /\ PutsBack("xrootd.cfg", "xrootd")
              \/ Pos = 133 /\ PutsBack("scitokens.conf", "xrootd")
              \/ Pos = 143 /\ PutsBack("munge.key", "munge")
  \/ content' = content /\ saved' = [k \in Path \X Owner |-> NotSaved] /\ Pos = 171 /\ Pos' > 171

(* A step does nothing else to the files. *)
LEMMA Filing ==
  ASSUME PcOK, CallInv, Next
  PROVE  FileStep
<1> USE DEF Statement
<1>1. ASSUME Statement("set") \/ Statement("reset_flag") \/ Statement("command")
             \/ Statement("make") \/ Statement("destroy") \/ Statement("sql")
             \/ Statement("install_db") \/ Statement("move_data") \/ Statement("remove_data")
             \/ Statement("move_data_back")
      PROVE  ~(Pos \in FileLines)
  BY <1>1, Operations DEF FileLines
<1>2. ASSUME UNCHANGED <<content, saved>>, ~(Pos \in FileLines) \/ Abandons
      PROVE  FileStep
  BY <1>2 DEF FileStep
<1>3. ASSUME ~Done, Raise, UNCHANGED interrupted
      PROVE  Abandons
  BY <1>3, Raises DEF Abandons
<1>4. ASSUME UNCHANGED <<pc, failed, interrupted>>
      PROVE  Abandons
  BY <1>4 DEF Abandons, Stays
<1> USE DEF machineVars
<1>5. CASE SetKey
  BY <1>5, <1>1, <1>2 DEF SetKey
<1>6. CASE ResetStarted
  BY <1>6, <1>1, <1>2 DEF ResetStarted
<1>7. CASE Branch
  <2>1. ~(Pos \in FileLines) /\ UNCHANGED <<content, saved>>
    BY <1>7, Operations DEF Branch, FileLines
  <2> QED
    BY <2>1, <1>2
<1>8. CASE RunCommand
  BY <1>8, <1>1, <1>2 DEF RunCommand, NoMachine
<1>9. CASE PreserveFile
  <2>1. CASE Fails
    BY <1>9, <2>1, <1>2, <1>3 DEF PreserveFile, Fails
  <2>2. CASE Store!Save(This.path, This.owner) /\ UNCHANGED <<made, data, databackup>> /\ Works
    <3>1. ~Done /\ Forth
      BY <1>9, <2>2, Continues DEF PreserveFile, Works, Continue
    <3>2. Saves(This.path, This.owner)
      BY <2>2 DEF Store!Save, Saves
    <3>3. \/ Pos = 33 /\ This.path = "munge.key" /\ This.owner = "munge"
          \/ Pos = 44 /\ This.path = "xrootd.cfg" /\ This.owner = "xrootd"
          \/ Pos = 51 /\ This.path = "scitokens.conf" /\ This.owner = "xrootd"
          \/ Pos = 84 /\ This.path = "vomses" /\ This.owner = "voms"
      BY <1>9, <3>1, Operations, Arguments DEF PreserveFile
    <3> QED
      BY <3>1, <3>2, <3>3 DEF FileStep
  <2> QED
    BY <1>9, <2>1, <2>2 DEF PreserveFile
<1>10. CASE ChangeFile
  <2>1. CASE Fails
    BY <1>10, <2>1, <1>2, <1>3 DEF ChangeFile, Fails
  <2>2. CASE /\ content' = [content EXCEPT ![This.path] = "test"]
             /\ UNCHANGED <<saved, made, data, databackup>> /\ Works
    <3>1. ~Done /\ Forth
      BY <1>10, <2>2, Continues DEF ChangeFile, Works, Continue
    <3>2. Changes(This.path)
      BY <2>2 DEF Changes
    <3>3. \/ Pos = 34 /\ This.path = "munge.key"
          \/ Pos \in {45, 53} /\ This.path = "xrootd.cfg"
          \/ Pos = 52 /\ This.path = "scitokens.conf"
          \/ Pos = 86 /\ This.path = "vomses"
      BY <1>10, <3>1, Operations, Arguments DEF ChangeFile
    <3> QED
      BY <3>1, <3>2, <3>3 DEF FileStep
  <2> QED
    BY <1>10, <2>1, <2>2 DEF ChangeFile
<1>11. CASE RestoreFile
  <2>1. CASE Store!PutBack(This.path, This.owner) /\ UNCHANGED <<made, data, databackup>> /\ Works
    <3>1. ~Done /\ Forth
      BY <1>11, <2>1, Continues DEF RestoreFile, Works, Continue
    <3>2. PutsBack(This.path, This.owner)
      BY <2>1 DEF Store!PutBack, PutsBack
    <3>3. \/ Pos = 112 /\ This.path = "vomses" /\ This.owner = "voms"
          \/ Pos = 132 /\ This.path = "xrootd.cfg" /\ This.owner = "xrootd"
          \/ Pos = 133 /\ This.path = "scitokens.conf" /\ This.owner = "xrootd"
          \/ Pos = 143 /\ This.path = "munge.key" /\ This.owner = "munge"
      BY <1>11, <3>1, Operations, Arguments DEF RestoreFile
    <3> QED
      BY <3>1, <3>2, <3>3 DEF FileStep
  <2>2. CASE ~Store!PutBack(This.path, This.owner)
    BY <1>11, <2>2, <1>2, <1>3 DEF RestoreFile
  <2> QED
    BY <1>11, <2>1, <2>2, <1>2, <1>3 DEF RestoreFile
<1>12. CASE MakeDir
  BY <1>12, <1>1, <1>2 DEF MakeDir, Fails
<1>13. CASE DestroyDir
  BY <1>13, <1>1, <1>2 DEF DestroyDir
<1>14. CASE ExecuteSql
  BY <1>14, <1>1, <1>2 DEF ExecuteSql
<1>15. CASE InstallVoDb
  BY <1>15, <1>1, <1>2 DEF InstallVoDb
<1>16. CASE MoveDatadir
  BY <1>16, <1>1, <1>2 DEF MoveDatadir
<1>17. CASE BackupExists
  BY <1>17, <1>1, <1>2 DEF BackupExists
<1>18. CASE RemoveDatadir \/ MoveDatadirBack
  BY <1>18, <1>1, <1>2 DEF RemoveDatadir, MoveDatadirBack
<1>19. CASE RemoveBackups
  <2>1. /\ Pos = 171 /\ ~Done /\ content' = content
        /\ saved' = [k \in Path \X Owner |-> NotSaved]
    BY <1>19, Operations DEF RemoveBackups, Store!Forget, Store!Pair
  <2>2. pc.test = 17
    BY <2>1, SomeTest DEF PcOK, Pos
  <2>3. Forth \/ Raised
    BY <1>19, <2>1, Continues, Raises DEF RemoveBackups, Continue
  <2>4. Pos' > 171
    BY <2>1, <2>2, <2>3 DEF Forth, OnTo, Raised, Top, LastLines
  <2> QED
    BY <2>1, <2>4 DEF FileStep
<1>20. CASE BeginCall
  BY <1>20, <1>2, <1>4 DEF BeginCall
<1>21. CASE CommandSucceeds
  BY <1>21, <1>2, <1>4 DEF CommandSucceeds
<1>22. CASE Wait
  BY <1>22, <1>2, <1>4 DEF Wait
<1>23. CASE CommandFails
  BY <1>23, <1>2, <1>4 DEF CommandFails
<1>24. CASE EndCall
  <2>1. call # NoCall /\ UNCHANGED <<content, saved>>
    BY <1>24 DEF EndCall, At
  <2>2. ~(Pos \in FileLines)
    BY <2>1, CallLine DEF FileLines
  <2> QED
    BY <2>1, <2>2, <1>2
<1>25. CASE Interrupt
  <2>1. pc' = [test |-> 17, line |-> 1] /\ pc.test < 17 /\ interrupted' = TRUE /\ failed' = failed
        /\ UNCHANGED <<content, saved>>
    BY <1>25, PlanLength DEF Interrupt
  <2>2. pc'.test = 17 /\ pc'.line = 1
    BY <2>1
  <2>3. Cut
    BY <2>1, <2>2 DEF Cut, PcOK, Pos
  <2> QED
    BY <2>1, <2>3, <1>2 DEF Abandons
<1>26. ASSUME NEW s \in Service, DaemonDies(s) \/ DaemonComesUp(s)
       PROVE  FileStep
  BY <1>26, <1>2, <1>4 DEF DaemonDies, DaemonComesUp
<1> QED
  BY <1>5, <1>6, <1>7, <1>8, <1>9, <1>10, <1>11, <1>12, <1>13, <1>14, <1>15, <1>16,
     <1>17, <1>18,
     <1>19, <1>20, <1>21, <1>22, <1>23, <1>24, <1>25, <1>26 DEF Next

(* What a step does to core.state and core.config. *)
SetTo(k, v) == state' = [state EXCEPT ![k] = v]
Moved == data # NoData /\ databackup = NoData /\ databackup' = data /\ data' = NoData
SetLines == {12, 41, 42, 47, 48, 62, 64, 91, 93}
StateStep ==
  \/ state' = state /\ (Pos \in SetLines => Abandons)
  \/ Forth /\ \/ Pos = 12 /\ SetTo("mysql.backup", "no")
              \/ Pos = 16 /\ SetTo("mysql.backup", "yes") /\ Moved
              \/ Pos = 41 /\ SetTo("xrootd.is-configured", "no")
              \/ Pos = 42 /\ SetTo("xrootd.backups-exist", "no")
              \/ Pos = 47 /\ SetTo("xrootd.backups-exist", "yes")
              \/ Pos = 48 /\ SetTo("xrootd.is-configured", "yes")
              \/ Pos = 62 /\ SetTo("xrootd.service-was-running", "no")
              \/ Pos = 64 /\ SetTo("xrootd.service-was-running", "yes")
              \/ Pos = 91 /\ SetTo("voms.started-server", "no")
              \/ Pos = 93 /\ SetTo("voms.started-server", "yes")

(* Steps that take no statement of the plan to its end. *)
Lingers == Stays \/ Cut

(* Calls that go on, Ctrl-C and daemons end no statement. *)
LEMMA Abandoning ==
  ASSUME PcOK, CallInv,
         \/ BeginCall \/ CommandSucceeds \/ Wait \/ CommandFails \/ Interrupt
         \/ \E s \in Service : DaemonDies(s) \/ DaemonComesUp(s)
  PROVE  Lingers
<1>1. CASE UNCHANGED <<pc, failed, interrupted>>
  BY <1>1 DEF Lingers, Stays
<1>2. CASE Interrupt
  <2>1. pc' = [test |-> 17, line |-> 1] /\ pc.test < 17 /\ interrupted' = TRUE /\ failed' = failed
    BY <1>2, PlanLength DEF Interrupt
  <2>2. pc'.test = 17 /\ pc'.line = 1
    BY <2>1
  <2> QED
    BY <2>1, <2>2 DEF Cut, PcOK, Pos, Lingers
<1> QED
  BY <1>1, <1>2 DEF BeginCall, CommandSucceeds, Wait, CommandFails, DaemonDies,
     DaemonComesUp

(* A step does nothing else to the states. *)
LEMMA Setting ==
  ASSUME PcOK, CallInv, Next
  PROVE  StateStep
<1> USE DEF Statement
<1>1. ASSUME UNCHANGED state, ~Done, call = NoCall, This.op # "set"
      PROVE  StateStep
  BY <1>1, Operations DEF StateStep, SetLines
<1>2. ASSUME UNCHANGED state, Abandons
      PROVE  StateStep
  BY <1>2 DEF StateStep
<1>3. CASE SetKey
  <2>1. ~Done /\ Forth /\ SetTo(This.key, This.value)
    BY <1>3, Continues DEF SetKey, Continue, SetTo
  <2>2. \/ Pos = 12 /\ This.key = "mysql.backup" /\ This.value = "no"
        \/ Pos = 41 /\ This.key = "xrootd.is-configured" /\ This.value = "no"
        \/ Pos = 42 /\ This.key = "xrootd.backups-exist" /\ This.value = "no"
        \/ Pos = 47 /\ This.key = "xrootd.backups-exist" /\ This.value = "yes"
        \/ Pos = 48 /\ This.key = "xrootd.is-configured" /\ This.value = "yes"
        \/ Pos = 62 /\ This.key = "xrootd.service-was-running" /\ This.value = "no"
        \/ Pos = 64 /\ This.key = "xrootd.service-was-running" /\ This.value = "yes"
        \/ Pos = 91 /\ This.key = "voms.started-server" /\ This.value = "no"
        \/ Pos = 93 /\ This.key = "voms.started-server" /\ This.value = "yes"
    BY <1>3, <2>1, Operations, Arguments DEF SetKey
  <2> QED
    BY <2>1, <2>2 DEF StateStep
<1>4. CASE MoveDatadir
  <2>1. ~Done /\ Pos = 16 /\ Forth
    BY <1>4, Operations, Continues DEF MoveDatadir
  <2> QED
    BY <1>4, <2>1 DEF MoveDatadir, StateStep, SetTo, Moved, SetLines
<1>5. CASE EndCall
  <2>1. call # NoCall /\ UNCHANGED state
    BY <1>5 DEF EndCall, At
  <2> QED
    BY <2>1, CallLine DEF SetLines, StateStep
<1>6. CASE \/ BeginCall \/ CommandSucceeds \/ Wait \/ CommandFails \/ Interrupt
           \/ \E s \in Service : DaemonDies(s) \/ DaemonComesUp(s)
  <2>1. UNCHANGED state
    BY <1>6 DEF BeginCall, CommandSucceeds, Wait, CommandFails, Interrupt,
       DaemonDies, DaemonComesUp
  <2> QED
    BY <1>6, <2>1, <1>2, Abandoning DEF Lingers, Abandons
<1>7. CASE ResetStarted
  BY <1>7, <1>1 DEF ResetStarted
<1>8. CASE Branch
  BY <1>8, <1>1 DEF Branch
<1>9. CASE RunCommand \/ PreserveFile \/ ChangeFile \/ RestoreFile \/ MakeDir \/ DestroyDir
  BY <1>9, <1>1 DEF RunCommand, PreserveFile, ChangeFile, RestoreFile, MakeDir,
     DestroyDir, Works,
     Fails
<1>10. CASE ExecuteSql \/ InstallVoDb
  BY <1>10, <1>1 DEF ExecuteSql, InstallVoDb, Works
<1>11. CASE BackupExists \/ RemoveDatadir \/ MoveDatadirBack \/ RemoveBackups
  BY <1>11, <1>1 DEF BackupExists, RemoveDatadir, MoveDatadirBack, RemoveBackups
<1> QED
  BY <1>3, <1>4, <1>5, <1>6, <1>7, <1>8, <1>9, <1>10, <1>11 DEF Next

(* What a step does to the databases and the directories of the VO.        *)
Awake == daemon["mariadb"] # "dead"
Executes(add, remove) ==
  /\ UNCHANGED <<made, databackup>>
  /\ \/ data' = data /\ unnoticed' = unnoticed \cup {"sql"}
     \/ /\ daemon["mariadb"] = "running" /\ unnoticed' = unnoticed
        /\ data' = [data EXCEPT !.holds = (data.holds \cup add) \ remove]
Installs ==
  /\ UNCHANGED <<databackup, unnoticed>> /\ made' \in {made, made \cup {"conf"}}
  /\ \/ data' = data
     \/ daemon["mariadb"] = "running" /\ data' = [data EXCEPT !.holds = data.holds \cup {"vo"}]
MovesData ==
  /\ UNCHANGED made
  /\ \/ Moved /\ (unnoticed' = unnoticed \cup {"move"} \/ (SetTo("mysql.backup", "yes") /\ unnoticed' = unnoticed))
     \/ /\ UNCHANGED <<data, databackup>>
        /\ \/ unnoticed' = unnoticed \cup {"move"}
           \/ data = NoData /\ databackup = NoData /\ unnoticed' = unnoticed
MakesOnly == UNCHANGED <<data, databackup, unnoticed>>
Skips == UNCHANGED <<made, data, databackup>> /\ unnoticed' = unnoticed \cup {"conf"}
Empties ==
  /\ UNCHANGED <<made, databackup, unnoticed>>
  /\ \/ Forth /\ data' = NoData
     \/ /\ Raised /\ data # NoData
        /\ \E h \in SUBSET data.holds : data' = [data EXCEPT !.holds = h]
MovesBack ==
  /\ UNCHANGED <<made, unnoticed>>
  /\ \/ Forth /\ data' = databackup /\ databackup' = NoData
     \/ Raised /\ data' \in {data, NewData, databackup} /\ databackup' = databackup

(* The statements about databases and directories. *)
DataLines == {16, 71, 72, 73, 74, 75, 82, 111, 121, 122, 123, 163, 164}
DataStep ==
  \/ /\ UNCHANGED <<made, data, databackup, unnoticed>> /\ (Awake' => Awake)
     /\ Pos \in DataLines => Lingers \/ (Raised /\ Pos \in {16, 82, 111})
  \/ /\ Stays /\ UNCHANGED <<made, databackup, unnoticed>>
     /\ data' = IF Awake' /\ data = NoData THEN NewData ELSE data
  \/ /\ Forth /\ UNCHANGED daemon
     /\ \/ Pos \in {71, 121} /\ Executes({}, {"vo"})
        \/ Pos \in {72, 122} /\ Executes({}, {"user"})
        \/ Pos = 74 /\ Executes({"user"}, {})
        \/ Pos = 16 /\ MovesData
        \/ Pos = 82 /\ made' = made \cup {"lsc"} /\ MakesOnly
        \/ Pos \in {73, 123} /\ ((made' = made \ {"conf"} /\ MakesOnly) \/ Skips)
        \/ Pos = 111 /\ made' = made \ {"lsc"} /\ MakesOnly
  \/ (Pos = 163 /\ Empties /\ UNCHANGED daemon) \/ (Pos = 164 /\ MovesBack /\ UNCHANGED daemon)
  \/ (Forth \/ Raised) /\ Pos = 75 /\ Installs /\ UNCHANGED daemon

(* A step does nothing else to the databases and the directories. *)
LEMMA Storing ==
  ASSUME PcOK, CallInv, Next, ServiceTypeOK
  PROVE  DataStep
<1> USE DEF Statement
<1>1. "mariadb" \in Service /\ DOMAIN daemon = Service
  BY ServiceAssumption DEF Services, ServiceTypeOK
<1>2. ASSUME UNCHANGED <<made, data, databackup, unnoticed, daemon>>, ~Done, call = NoCall,
             This.op \in {"set", "reset_flag", "command", "preserve", "change", "restore",
                          "check_backups", "unless_option", "skip_unless_started", "skip_unless",
                          "skip_if_running", "if", "if_running"}
      PROVE  DataStep
  BY <1>2, Operations DEF DataStep, DataLines, Awake
<1>3. ASSUME UNCHANGED <<made, data, databackup, unnoticed>>, Awake' => Awake,
             Lingers \/ (Raised /\ Pos \in {16, 82, 111})
      PROVE  DataStep
  BY <1>3 DEF DataStep
<1> USE DEF machineVars, historyVars, serviceVars
<1>4. CASE SetKey
  BY <1>4, <1>2 DEF SetKey
<1>5. CASE MoveDatadir
  <2>1. ~Done /\ Pos = 16 /\ Forth
    BY <1>5, Operations, Continues DEF MoveDatadir
  <2>2. MovesData
    BY <1>5 DEF MoveDatadir, MovesData, SetTo, Moved
  <2> QED
    BY <1>5, <2>1, <2>2 DEF MoveDatadir, DataStep
<1>6. CASE EndCall
  <2>1. call # NoCall /\ UNCHANGED <<made, data, databackup, unnoticed, daemon>>
    BY <1>6 DEF EndCall, At
  <2> QED
    BY <2>1, CallLine DEF DataLines, DataStep, Awake
<1>7. CASE BeginCall \/ Wait \/ Interrupt
  <2>1. UNCHANGED <<made, data, databackup, unnoticed, daemon>>
    BY <1>7 DEF BeginCall, Wait, Interrupt, Begin, Poll, PollEnds
  <2> QED
    BY <1>7, <2>1, <1>3, Abandoning DEF Awake
<1>8. CASE CommandFails
  <2>1. UNCHANGED <<made, data, databackup, unnoticed>>
    BY <1>8 DEF CommandFails
  <2>2. Awake' => Awake
    BY <1>1, <1>8 DEF CommandFails, StartFails, StopFails, Awake
  <2> QED
    BY <1>8, <2>1, <2>2, <1>3, Abandoning
<1>9. CASE CommandSucceeds
  <2>1. Stays /\ UNCHANGED <<made, databackup, unnoticed>>
    BY <1>9 DEF CommandSucceeds, Stays
  <2>2. data' = IF Awake' /\ data = NoData THEN NewData ELSE data
    BY <1>9 DEF CommandSucceeds, Fill, Awake
  <2> QED
    BY <2>1, <2>2 DEF DataStep
<1>10. ASSUME NEW s \in Service, DaemonDies(s) \/ DaemonComesUp(s)
      PROVE  DataStep
  <2>1. UNCHANGED <<made, data, databackup, unnoticed>>
    BY <1>10 DEF DaemonDies, DaemonComesUp
  <2>2. Awake' => Awake
    BY <1>1, <1>10 DEF DaemonDies, DaemonComesUp, Dies, ComesUp, Awake
  <2> QED
    BY <1>10, <2>1, <2>2, <1>3, Abandoning
<1>11. CASE ResetStarted
  BY <1>11, <1>2 DEF ResetStarted
<1>12. CASE Branch
  BY <1>12, <1>2 DEF Branch
<1>13. CASE RunCommand \/ PreserveFile \/ ChangeFile \/ RestoreFile \/ RemoveBackups
  BY <1>13, <1>2 DEF RunCommand, PreserveFile, ChangeFile, RestoreFile, RemoveBackups,
     NoMachine,
     Works, Fails
<1>14. CASE MakeDir
  <2>1. CASE Fails
    <3>1. ~Done /\ UNCHANGED <<made, data, databackup, unnoticed, daemon>>
      BY <1>14, <2>1 DEF MakeDir, Fails
    <3>2. Pos = 82
      BY <1>14, <3>1, Operations DEF MakeDir
    <3> QED
      BY <1>14, <2>1, <3>1, <3>2, <1>3, Raises DEF MakeDir, Fails, Awake
  <2>2. CASE made' = made \cup {This.item} /\ UNCHANGED <<content, saved, data, databackup>> /\ Works
    <3>1. ~Done /\ Forth
      BY <1>14, <2>2, Continues DEF MakeDir, Works, Continue
    <3>2. Pos = 82 /\ This.item = "lsc"
      BY <1>14, <3>1, Operations, Arguments DEF MakeDir
    <3> QED
      BY <2>2, <3>1, <3>2 DEF DataStep, Works, MakesOnly
  <2> QED
    BY <1>14, <2>1, <2>2 DEF MakeDir
<1>15. CASE DestroyDir
  <2>1. ~Done /\ ((Pos \in {73, 123} /\ This.item = "conf") \/ (Pos = 111 /\ This.item = "lsc"))
    BY <1>15, Operations, Arguments DEF DestroyDir
  <2>2. UNCHANGED <<data, databackup, daemon>>
    BY <1>15 DEF DestroyDir
  <2>3. CASE made' = made \ {This.item} /\ Continue /\ UNCHANGED unnoticed
    <3>1. Forth
      BY <1>15, <2>1, <2>3, Continues DEF DestroyDir, Continue
    <3> QED
      BY <2>1, <2>2, <2>3, <3>1 DEF DataStep, MakesOnly
  <2>4. CASE This.item = "lsc" /\ Raise /\ UNCHANGED <<made, unnoticed>>
    <3>1. Raised
      BY <1>15, <2>1, <2>4, Raises DEF DestroyDir
    <3> QED
      BY <2>1, <2>2, <2>4, <3>1, <1>3 DEF Awake
  <2>5. CASE /\ This.item = "conf" /\ unnoticed' = unnoticed \cup {"conf"}
             /\ Advance(1) /\ UNCHANGED <<failed, made>>
    <3>1. Forth
      BY <1>15, <2>1, <2>5, Continues DEF DestroyDir
    <3> QED
      BY <2>1, <2>2, <2>5, <3>1 DEF DataStep, Skips
  <2> QED
    BY <1>15, <2>3, <2>4, <2>5 DEF DestroyDir
<1>16. CASE ExecuteSql
  <2>1. ~Done /\ Forth
    BY <1>16, Continues DEF ExecuteSql
  <2>2. \/ Pos \in {71, 121} /\ This.add = {} /\ This.remove = {"vo"}
        \/ Pos \in {72, 122} /\ This.add = {} /\ This.remove = {"user"}
        \/ Pos = 74 /\ This.add = {"user"} /\ This.remove = {}
    BY <1>16, <2>1, Operations, Arguments DEF ExecuteSql
  <2>3. Executes(This.add, This.remove) /\ UNCHANGED daemon
    BY <1>16 DEF ExecuteSql, Executes
  <2> QED
    BY <2>1, <2>2, <2>3 DEF DataStep
<1>17. CASE InstallVoDb
  <2>1. ~Done /\ (Forth \/ Raised)
    BY <1>17, Continues, Raises DEF InstallVoDb, Works, Continue
  <2>2. Pos = 75
    BY <1>17, <2>1, Operations DEF InstallVoDb
  <2>3. Installs /\ UNCHANGED daemon
    BY <1>17 DEF InstallVoDb, Installs, Works
  <2> QED
    BY <2>1, <2>2, <2>3 DEF DataStep
<1>18. CASE BackupExists
  <2>1. ~Done /\ Pos = 16
    BY <1>18, Operations DEF BackupExists
  <2> QED
    BY <1>18, <2>1, <1>3, Raises DEF BackupExists, Awake
<1>19. CASE RemoveDatadir
  <2>1. ~Done /\ Pos = 163 /\ (Forth \/ Raised)
    BY <1>19, Operations, Continues, Raises DEF RemoveDatadir, Continue
  <2>2. Empties
    BY <1>19, <2>1, Continues, Raises DEF RemoveDatadir, Continue, Empties
  <2> QED
    BY <1>19, <2>1, <2>2 DEF RemoveDatadir, DataStep
<1>20. CASE MoveDatadirBack
  <2>1. ~Done /\ Pos = 164
    BY <1>20, Operations DEF MoveDatadirBack
  <2>2. MovesBack
    BY <1>20, <2>1, Continues, Raises DEF MoveDatadirBack, Continue, MovesBack
  <2> QED
    BY <1>20, <2>1, <2>2 DEF MoveDatadirBack, DataStep
<1> QED
  BY <1>4, <1>5, <1>6, <1>7, <1>8, <1>9, <1>10, <1>11, <1>12, <1>13, <1>14, <1>15,
     <1>16, <1>17, <1>18, <1>19, <1>20 DEF Next

(* The statements that call a service function. *)
CallLines == {13, 15, 21, 36, 65, 66, 92, 102, 136, 138, 142, 151}
CallStep ==
  \/ call = NoCall /\ UNCHANGED <<daemon, started, call, died>> /\ ~(Pos \in CallLines) /\ Pos # 31
  \/ Cut /\ call' = NoCall /\ UNCHANGED <<daemon, started, died>>
  \/ /\ Forth /\ Pos = 31 /\ started' = [started EXCEPT !["munge"] = FALSE]
     /\ call = NoCall /\ UNCHANGED <<daemon, call, died>>
  \/ /\ Stays /\ ~Done /\ This.op = "call" /\ Begin(This.fn, This.svc, This.force)
     /\ UNCHANGED <<daemon, started, died>>
  \/ /\ Stays /\ call # NoCall /\ UNCHANGED died
     /\ StartSucceeds \/ StartFails \/ StopSucceeds \/ StopFails \/ Poll \/ PollEnds
  \/ Forth /\ At("returned") /\ call' = NoCall /\ UNCHANGED <<daemon, started, died>>
  \/ Raised /\ At("raised") /\ call' = NoCall /\ UNCHANGED <<daemon, started, died>>
  \/ Stays /\ \E s \in Service : Dies(s) /\ died' = died \cup {s}
  \/ Stays /\ died' = died /\ \E s \in Service : ComesUp(s)

(* A step does nothing else to the daemons and to the call. *)
LEMMA Calling ==
  ASSUME PcOK, CallInv, Next
  PROVE  CallStep
<1> USE DEF Statement
<1>1. ASSUME UNCHANGED <<daemon, started, call, died>>, ~Done, call = NoCall,
             This.op # "call", This.op # "reset_flag"
      PROVE  CallStep
  BY <1>1, Operations DEF CallStep, CallLines
<1> USE DEF historyVars, serviceVars
<1>2. CASE SetKey \/ Branch \/ RunCommand \/ PreserveFile \/ ChangeFile \/ RestoreFile
  BY <1>2, <1>1 DEF SetKey, Branch, RunCommand, PreserveFile, ChangeFile, RestoreFile,
     Works, Fails
<1>3. CASE MakeDir \/ DestroyDir \/ ExecuteSql \/ InstallVoDb
  BY <1>3, <1>1 DEF MakeDir, DestroyDir, ExecuteSql, InstallVoDb, Works, Fails
<1>4. CASE MoveDatadir \/ BackupExists \/ RemoveDatadir \/ MoveDatadirBack \/ RemoveBackups
  BY <1>4, <1>1 DEF MoveDatadir, BackupExists, RemoveDatadir, MoveDatadirBack, RemoveBackups
<1>5. CASE ResetStarted
  <2>1. ~Done /\ Forth
    BY <1>5, Continues DEF ResetStarted, Continue
  <2>2. Pos = 31 /\ This.svc = "munge"
    BY <1>5, <2>1, Operations, Arguments DEF ResetStarted
  <2> QED
    BY <1>5, <2>1, <2>2 DEF ResetStarted, CallStep
<1>6. CASE BeginCall
  BY <1>6 DEF BeginCall, CallStep, Stays
<1>7. CASE CommandSucceeds
  BY <1>7 DEF CommandSucceeds, CallStep, Stays, StartSucceeds, StopSucceeds, At
<1>8. CASE Wait
  BY <1>8 DEF Wait, CallStep, Stays, Poll, PollEnds, At
<1>9. CASE CommandFails
  BY <1>9 DEF CommandFails, CallStep, Stays, StartFails, StopFails, At
<1>10. CASE EndCall
  <2>1. call # NoCall /\ ~Done
    BY <1>10, CallLine DEF EndCall, At
  <2> QED
    BY <1>10, <2>1, Continues, Raises DEF EndCall, CallStep
<1>11. CASE Interrupt
  <2>1. /\ pc' = [test |-> 17, line |-> 1] /\ pc.test < 17 /\ interrupted' = TRUE /\ failed' = failed
        /\ call' = NoCall /\ UNCHANGED <<daemon, started, died>>
    BY <1>11, PlanLength DEF Interrupt
  <2>2. pc'.test = 17 /\ pc'.line = 1
    BY <2>1
  <2>3. Cut
    BY <2>1, <2>2 DEF Cut, PcOK, Pos
  <2> QED
    BY <2>1, <2>3 DEF CallStep
<1>12. ASSUME NEW s \in Service, DaemonDies(s) \/ DaemonComesUp(s)
       PROVE  CallStep
  BY <1>12 DEF DaemonDies, DaemonComesUp, CallStep, Stays
<1> QED
  BY <1>2, <1>3, <1>4, <1>5, <1>6, <1>7, <1>8, <1>9, <1>10, <1>11, <1>12 DEF Next

(* What a step does to the option, the history and the number of faults.   *)
RestStep ==
  /\ backupmysql' = backupmysql /\ hadData' = hadData /\ ran' = ran
  /\ faults' = faults \/ (faults < MaxFaults /\ faults' = faults + 1)
  /\ unnoticed \subseteq unnoticed' /\ unnoticed' \subseteq unnoticed \cup {"sql", "conf", "move"}

(* A step does nothing else to what is left. *)
LEMMA Resting ==
  ASSUME Next
  PROVE  RestStep
<1> USE DEF historyVars, RestStep
<1>1. CASE SetKey \/ ResetStarted \/ Branch \/ RunCommand \/ PreserveFile \/ ChangeFile
  BY <1>1 DEF SetKey, ResetStarted, Branch, RunCommand, PreserveFile, ChangeFile,
     Works, Fails,
     Continue, Fault
<1>2. CASE RestoreFile \/ MakeDir \/ DestroyDir \/ ExecuteSql \/ InstallVoDb
  BY <1>2 DEF RestoreFile, MakeDir, DestroyDir, ExecuteSql, InstallVoDb, Works, Fails,
     Continue, Fault
<1>3. CASE MoveDatadir \/ BackupExists \/ RemoveDatadir \/ MoveDatadirBack \/ RemoveBackups
  BY <1>3 DEF MoveDatadir, BackupExists, RemoveDatadir, MoveDatadirBack, RemoveBackups,
     Continue, Fault
<1>4. CASE BeginCall \/ CommandSucceeds \/ Wait \/ CommandFails \/ EndCall \/ Interrupt
  BY <1>4 DEF BeginCall, CommandSucceeds, Wait, CommandFails, EndCall, Interrupt, Fault
<1>5. ASSUME NEW s \in Service, DaemonDies(s) \/ DaemonComesUp(s)
      PROVE  RestStep
  BY <1>5 DEF DaemonDies, DaemonComesUp, Fault
<1> QED
  BY <1>1, <1>2, <1>3, <1>4, <1>5 DEF Next

--------------------------------------------------------------------------------
(* Calls of the service functions.                                         *)

(* A call is well typed, of the statement it is at, and returns only when  *)
(* the daemon is as the call promises.                                     *)
LEMMA CallOK ==
  ASSUME PcOK, TypeOK, CallInv, Next, CallStep
  PROVE  ServiceTypeOK' /\ CallInv' /\ died' \subseteq Service
<1> USE DEF ServiceTypeOK, Call, Step, Fn, STATUS_RUNNING, STATUS_STOPPED, UNSEEN
<1>1. ServiceTypeOK /\ died \subseteq Service /\ NoCall \notin Call /\ Timeout \in Nat \ {0}
  BY NoCallAssumption, TimeoutAssumption DEF TypeOK
<1>2. CASE call = NoCall /\ UNCHANGED <<daemon, started, call, died>>
  BY <1>1, <1>2 DEF CallInv
<1>3. CASE call' = NoCall /\ UNCHANGED <<daemon, started, died>>
  BY <1>1, <1>3 DEF CallInv
<1>4. CASE /\ started' = [started EXCEPT !["munge"] = FALSE]
           /\ call = NoCall /\ UNCHANGED <<daemon, call, died>>
  BY <1>1, <1>4 DEF CallInv
<1>5. ASSUME Stays PROVE Done' = Done /\ This' = This
  BY <1>5 DEF Stays, Done, This
<1>6. CASE /\ Stays /\ ~Done /\ This.op = "call" /\ Begin(This.fn, This.svc, This.force)
           /\ UNCHANGED <<daemon, started, died>>
  <2>1. This.fn \in Fn /\ This.svc \in Service
    BY <1>6, Operations, Arguments, ServiceAssumption DEF Services
  <2>2. This.force \in BOOLEAN
    BY <1>6, Forced
  <2>3. /\ call'.fn = This.fn /\ call'.svc = This.svc /\ call'.force = This.force
        /\ call'.rc = UNSEEN /\ call'.timer = 0
        /\ call'.step \in {"command", AfterCommand(This.fn)}
        /\ (call'.step # "command" /\ This.fn \in {"start", "check_start"}) => SkipStart(This.svc, This.force)
    BY <1>6 DEF Begin
  <2>4. call' \in Call
    BY <1>1, <1>6, <2>1, <2>2 DEF Begin, AfterCommand
  <2>5. CallInv'
    BY <1>5, <1>6, <2>1, <2>3 DEF CallInv, AfterCommand, SkipStart, Checking,
       Expected, Starting
  <2> QED
    BY <1>1, <1>6, <2>4, <2>5
<1>7. ASSUME Stays, call # NoCall, UNCHANGED died, NEW d, d \in {"dead", "starting", "running"},
             daemon' = [daemon EXCEPT ![call.svc] = d], NEW step, step \in Step,
             call' = [call EXCEPT !.step = step]
      PROVE  /\ call' \in Call /\ call' # NoCall
             /\ call'.fn = call.fn /\ call'.svc = call.svc /\ call'.force = call.force
             /\ call'.rc = call.rc /\ call'.step = step
             /\ daemon'[call.svc] = d /\ daemon' \in [Service -> {"dead", "starting", "running"}]
  BY <1>1, <1>7
<1>8. CASE Stays /\ call # NoCall /\ UNCHANGED died /\ StartSucceeds
  <2>1. PICK d \in {"starting", "running"} : daemon' = [daemon EXCEPT ![call.svc] = d]
    BY <1>1, <1>8 DEF StartSucceeds
  <2>2. AfterCommand(call.fn) \in Step
    BY DEF AfterCommand
  <2>3. /\ call' \in Call /\ call' # NoCall
        /\ call'.fn = call.fn /\ call'.svc = call.svc /\ call'.force = call.force
        /\ call'.rc = call.rc /\ call'.step = AfterCommand(call.fn)
        /\ daemon'[call.svc] = d /\ daemon' \in [Service -> {"dead", "starting", "running"}]
    BY <1>7, <1>8, <2>1, <2>2 DEF StartSucceeds, Goto
  <2>4. started' \in [Service -> BOOLEAN] /\ started'[call.svc]
    BY <1>1, <1>8 DEF StartSucceeds
  <2>5. CallInv'
    BY <1>5, <1>8, <2>1, <2>3, <2>4 DEF CallInv, StartSucceeds, At, Checking,
       Starting, Expected, AfterCommand
  <2> QED
    BY <1>1, <1>8, <2>3, <2>4, <2>5
<1>9. CASE Stays /\ call # NoCall /\ UNCHANGED died /\ (StartFails \/ StopFails)
  <2>1. PICK d \in {"dead", daemon[call.svc]} : daemon' = [daemon EXCEPT ![call.svc] = d]
    BY <1>9 DEF StartFails, StopFails
  <2>2. daemon[call.svc] \in {"dead", "starting", "running"} /\ "raised" \in Step
    BY <1>1, <1>9
  <2>3. /\ call' \in Call /\ call' # NoCall
        /\ call'.fn = call.fn /\ call'.svc = call.svc /\ call'.force = call.force
        /\ call'.rc = call.rc /\ call'.step = "raised"
        /\ daemon'[call.svc] = d /\ daemon' \in [Service -> {"dead", "starting", "running"}]
    BY <1>7, <1>9, <2>1, <2>2 DEF StartFails, StopFails, Goto
  <2>4. CallInv'
    BY <1>5, <1>9, <2>1, <2>3 DEF CallInv, StartFails, StopFails, At
  <2> QED
    BY <1>1, <1>9, <2>3, <2>4 DEF StartFails, StopFails
<1>10. CASE Stays /\ call # NoCall /\ UNCHANGED died /\ StopSucceeds
  <2>1. AfterCommand(call.fn) \in Step
    BY DEF AfterCommand
  <2>2. /\ call' \in Call /\ call' # NoCall
        /\ call'.fn = call.fn /\ call'.svc = call.svc /\ call'.force = call.force
        /\ call'.rc = call.rc /\ call'.step = AfterCommand(call.fn)
        /\ daemon'[call.svc] = "dead" /\ daemon' \in [Service -> {"dead", "starting", "running"}]
    BY <1>7, <1>10, <2>1 DEF StopSucceeds, Goto
  <2>3. started' \in [Service -> BOOLEAN]
    BY <1>1, <1>10 DEF StopSucceeds
  <2>4. CallInv'
    BY <1>5, <1>10, <2>2 DEF CallInv, StopSucceeds, At, Checking, Starting,
       Expected, AfterCommand
  <2> QED
    BY <1>1, <1>10, <2>2, <2>3, <2>4
<1>11. CASE Stays /\ call # NoCall /\ UNCHANGED died /\ Poll
  <2>1. /\ call' \in Call /\ call' # NoCall
        /\ call'.fn = call.fn /\ call'.svc = call.svc /\ call'.force = call.force
        /\ call'.rc = status(call.svc) /\ call'.step = "poll" /\ call.step = "poll"
    <3>1. PICK r : r = status(call.svc) /\ r \in {STATUS_RUNNING, STATUS_STOPPED}
      BY DEF status
    <3>2. PICK i : i = call.timer + 1 /\ i \in 0..Timeout
      BY <1>1, <1>11 DEF Poll
    <3>3. call' = [call EXCEPT !.rc = r, !.timer = i] /\ call.step = "poll"
      BY <1>11, <3>1, <3>2 DEF Poll, At
    <3>4. call \in Call
      BY <1>1, <1>11
    <3> QED
      BY <1>1, <3>1, <3>2, <3>3, <3>4
  <2>2. status(call.svc) = STATUS_RUNNING => daemon[call.svc] # "starting"
    BY DEF status
  <2>3. CallInv'
    BY <1>5, <1>11, <2>1, <2>2 DEF CallInv, Poll, Starting
  <2> QED
    BY <1>1, <1>11, <2>1, <2>3 DEF Poll
<1>12. CASE Stays /\ call # NoCall /\ UNCHANGED died /\ PollEnds
  <2>1. PICK step \in {"returned", "raised"} :
          call' = [call EXCEPT !.step = step] /\ (step = "returned" => call.rc = Expected)
    BY <1>12 DEF PollEnds, Goto
  <2>2. /\ call' \in Call /\ call' # NoCall
        /\ call'.fn = call.fn /\ call'.svc = call.svc /\ call'.force = call.force
        /\ call'.rc = call.rc /\ call'.step = step
    BY <1>1, <1>12, <2>1
  <2>3. CallInv'
    BY <1>5, <1>12, <2>1, <2>2 DEF CallInv, PollEnds, At, Starting, Checking, Expected
  <2> QED
    BY <1>1, <1>12, <2>2, <2>3 DEF PollEnds
<1>13. ASSUME Stays, NEW s \in Service, Dies(s), died' = died \cup {s}
       PROVE  ServiceTypeOK' /\ CallInv' /\ died' \subseteq Service
  <2>1. daemon' \in [Service -> {"dead", "starting", "running"}]
    BY <1>1, <1>13 DEF Dies
  <2>2. call # NoCall => call.svc \in Service /\ daemon'[call.svc] \in {"dead", daemon[call.svc]}
                         /\ (daemon'[call.svc] = daemon[call.svc] \/ call.svc \in died')
    BY <1>1, <1>13 DEF Dies
  <2>3. CallInv'
    BY <1>5, <1>13, <2>2 DEF CallInv, Dies, Starting, Checking, Expected
  <2> QED
    BY <1>1, <1>13, <2>1, <2>3 DEF Dies
<1>14. ASSUME Stays, died' = died, NEW s \in Service, ComesUp(s)
       PROVE  ServiceTypeOK' /\ CallInv' /\ died' \subseteq Service
  <2>1. daemon' \in [Service -> {"dead", "starting", "running"}]
    BY <1>1, <1>14 DEF ComesUp
  <2>2. call # NoCall => call.svc \in Service
                         /\ (daemon'[call.svc] = daemon[call.svc] \/
                             (daemon[call.svc] = "starting" /\ daemon'[call.svc] = "running"))
    BY <1>1, <1>14 DEF ComesUp
  <2>3. CallInv'
    BY <1>5, <1>14, <2>2 DEF CallInv, ComesUp, Starting, Checking, Expected
  <2> QED
    BY <1>1, <1>14, <2>1, <2>3 DEF ComesUp
<1> QED
  BY <1>2, <1>3, <1>4, <1>6, <1>8, <1>9, <1>10, <1>11, <1>12, <1>13, <1>14 DEF CallStep

(* The numbers of statements, and that a call is at one of a call. *)
LEMMA Places ==
  ASSUME PcOK
  PROVE  /\ pc.test \in 1..18 /\ pc.line \in 1..9
         /\ Pos = 10 * pc.test + pc.line /\ Top = 10 * pc.test + 11
         /\ Stays => Pos' = Pos
         /\ call # NoCall /\ CallInv => Pos \in CallLines
BY CallLine DEF PcOK, Pos, Top, Stays, CallLines

(* Which call is where. *)
CallAt(fn, svc) ==
  \/ Pos \in {13, 21} /\ svc = "mariadb" /\ fn = "check_start"
  \/ Pos = 36 /\ svc = "munge" /\ fn = "check_start"
  \/ Pos \in {66, 138} /\ svc = "xrootd" /\ fn = "check_start"
  \/ Pos = 92 /\ svc = "voms" /\ fn = "check_start"
  \/ Pos \in {15, 151} /\ svc = "mariadb" /\ fn = "check_stop"
  \/ Pos = 65 /\ svc = "xrootd" /\ fn = "stop"
  \/ Pos = 102 /\ svc = "voms" /\ fn = "check_stop"
  \/ Pos = 136 /\ svc = "xrootd" /\ fn = "check_stop"
  \/ Pos = 142 /\ svc = "munge" /\ fn = "check_stop"

(* A statement that calls is the one of the table ... *)
LEMMA ThisPlaces ==
  ASSUME PcOK, ~Done, This.op = "call"
  PROVE  CallAt(This.fn, This.svc)
BY Operations, Arguments DEF CallAt

(* ... and so is the call that is under way. *)
LEMMA CallPlaces ==
  ASSUME PcOK, CallInv, call # NoCall
  PROVE  CallAt(call.fn, call.svc) /\ (Pos \in {65, 136, 138} => call.force)
BY ThisPlaces, Forced DEF CallInv

(* What a step does to one service, and to the call. *)
Same(s) == daemon'[s] = daemon[s] /\ started'[s] = started[s]

(* The statements that start a service, and that stop it. *)
StartLine(s) ==
  CASE s = "mariadb" -> {13, 21} [] s = "munge" -> {36} [] s = "xrootd" -> {66, 138}
    [] s = "voms" -> {92} [] OTHER -> {}
StopLine(s) ==
  CASE s = "mariadb" -> {15, 151} [] s = "munge" -> {142} [] s = "xrootd" -> {65, 136}
    [] s = "voms" -> {102} [] OTHER -> {}

(* A step within a statement, and one that leaves it. *)
Lasts(s, starts, stops) ==
  /\ Stays
  /\ \/ Same(s) /\ (Pos \in starts \cup stops => Phase' = Phase)
     \/ /\ Pos \in starts \cup stops /\ Same(s) /\ Phase = "none"
        /\ \/ Phase' = "command"
           \/ Phase' = "poll" /\ ~(Pos \in {65, 136, 138}) /\ (Pos \in starts <=> started[s])
     \/ /\ Pos \in starts \cup stops /\ Phase = "command" /\ Phase' = "raised"
        /\ daemon'[s] \in {"dead", daemon[s]} /\ started'[s] = started[s]
     \/ /\ Pos \in starts /\ Phase = "command" /\ Phase' = "poll"
        /\ daemon'[s] \in {"starting", "running"} /\ started'[s] = TRUE
     \/ /\ Pos \in stops /\ Phase = "command" /\ Phase' = (IF Pos = 65 THEN "returned" ELSE "poll")
        /\ daemon'[s] = "dead" /\ started'[s] = FALSE
     \/ /\ Pos \in starts \cup stops /\ Same(s)
        /\ Phase = "poll" /\ Phase' \in {"poll", "returned", "raised"}
     \/ /\ Phase' = Phase /\ started'[s] = started[s]
        /\ \/ daemon'[s] = "dead" /\ s \in died'
           \/ daemon[s] = "starting" /\ daemon'[s] = "running"
Leaves(s, starts, stops) ==
  /\ Phase' = "none" /\ daemon'[s] = daemon[s]
  /\ IF s = "munge" /\ Pos = 31
       THEN (Cut /\ started'[s] = started[s]) \/ (Forth /\ started'[s] = FALSE)
       ELSE started'[s] = started[s]
  /\ Pos \in starts \cup stops =>
       \/ Cut
       \/ Raised /\ Phase = "raised"
       \/ /\ Forth /\ Phase = "returned"
          /\ Pos \in starts =>
               started[s] /\ daemon[s] # "starting" /\ (Pos = 138 /\ daemon[s] = "dead" => s \in died)
Serves(s, starts, stops) == Lasts(s, starts, stops) \/ Leaves(s, starts, stops)
ServiceStep(s) == Serves(s, StartLine(s), StopLine(s))

(* What a call is to the lines of its service. *)
LEMMA Lined ==
  ASSUME NEW fn, NEW svc, CallAt(fn, svc)
  PROVE  /\ Pos \in CallLines /\ Pos # 31 /\ svc \in Service
         /\ fn \in Fn \ {"start"}
         /\ Pos \in StartLine(svc) <=> fn = "check_start"
         /\ Pos \in StopLine(svc) <=> fn \in {"stop", "check_stop"}
         /\ fn = "stop" <=> Pos = 65
BY ServiceAssumption DEF CallAt, Services, StartLine, StopLine, CallLines, Fn

(* The lines of a service are those of the calls of that service. *)
LEMMA LineOf ==
  ASSUME NEW fn, NEW svc, CallAt(fn, svc), NEW s \in Service
  PROVE  Pos \in StartLine(s) \cup StopLine(s) <=> s = svc
BY ServiceAssumption DEF CallAt, Services, StartLine, StopLine

(* A step does nothing else to a service. *)
LEMMA Serving ==
  ASSUME PcOK, TypeOK, CallInv, CallStep, NEW s \in Service
  PROVE  ServiceStep(s) /\ died \subseteq died'
<1> USE DEF ServiceStep, Serves, Lasts, Leaves
<1>1. /\ daemon \in [Service -> {"dead", "starting", "running"}] /\ started \in [Service -> BOOLEAN]
      /\ call \in Call \cup {NoCall} /\ NoCall \notin Call
  BY NoCallAssumption DEF TypeOK, ServiceTypeOK
<1>2. StartLine(s) \cup StopLine(s) \subseteq CallLines /\ 31 \notin CallLines
  BY ServiceAssumption DEF Services, StartLine, StopLine, CallLines
<1>3. CASE call = NoCall /\ UNCHANGED <<daemon, started, call, died>> /\ ~(Pos \in CallLines) /\ Pos # 31
  BY <1>2, <1>3 DEF Same, Phase
<1>4. CASE Cut /\ call' = NoCall /\ UNCHANGED <<daemon, started, died>>
  BY <1>2, <1>4 DEF Same, Phase
<1>5. CASE /\ Forth /\ Pos = 31 /\ started' = [started EXCEPT !["munge"] = FALSE]
           /\ call = NoCall /\ UNCHANGED <<daemon, call, died>>
  <2>1. "munge" \in Service
    BY ServiceAssumption DEF Services
  <2> QED
    BY <1>1, <1>2, <1>5, <2>1 DEF Same, Phase
<1>6. CASE /\ Stays /\ ~Done /\ This.op = "call" /\ Begin(This.fn, This.svc, This.force)
           /\ UNCHANGED <<daemon, started, died>>
  <2>1. CallAt(This.fn, This.svc) /\ This.force \in BOOLEAN /\ (Pos \in {65, 136, 138} => This.force)
    BY <1>6, ThisPlaces, Forced
  <2>2. /\ call = NoCall
        /\ \E skip \in BOOLEAN :
              /\ skip = (IF This.fn \in {"start", "check_start"} THEN SkipStart(This.svc, This.force)
                         ELSE SkipStop(This.svc, This.force))
              /\ call' = [fn |-> This.fn, svc |-> This.svc, force |-> This.force,
                          step |-> IF skip THEN AfterCommand(This.fn) ELSE "command",
                          timer |-> 0, rc |-> UNSEEN]
    BY <1>6 DEF Begin, SkipStart, SkipStop
  <2>3. PICK skip \in BOOLEAN :
          /\ skip = (IF This.fn \in {"start", "check_start"} THEN SkipStart(This.svc, This.force)
                     ELSE SkipStop(This.svc, This.force))
          /\ call' = [fn |-> This.fn, svc |-> This.svc, force |-> This.force,
                      step |-> IF skip THEN AfterCommand(This.fn) ELSE "command",
                      timer |-> 0, rc |-> UNSEEN]
    BY <2>2
  <2>4. call' \in Call /\ call'.step = IF skip THEN AfterCommand(This.fn) ELSE "command"
    <3>1. This.fn \in Fn /\ This.svc \in Service /\ Timeout \in Nat /\ UNSEEN = 1
      BY <2>1, Lined, LineOf, TimeoutAssumption DEF UNSEEN
    <3>2. PICK step \in Step : step = IF skip THEN AfterCommand(This.fn) ELSE "command"
      BY DEF Step, AfterCommand
    <3>3. call' = [fn |-> This.fn, svc |-> This.svc, force |-> This.force,
                   step |-> step, timer |-> 0, rc |-> UNSEEN]
      BY <2>3, <3>2
    <3> HIDE DEF This
    <3> QED
      BY <2>1, <3>1, <3>2, <3>3 DEF Call
  <2>5. call' # NoCall /\ Phase = "none" /\ Phase' = IF skip THEN AfterCommand(This.fn) ELSE "command"
    BY <1>1, <2>2, <2>4 DEF Phase
  <2>6. CASE s # This.svc
    BY <1>6, <2>1, <2>6, Lined, LineOf DEF Same
  <2>7. CASE s = This.svc /\ ~skip
    BY <1>6, <2>1, <2>5, <2>7, Lined, LineOf DEF Same
  <2>8. CASE s = This.svc /\ skip
    <3>1. IF This.fn \in {"start", "check_start"} THEN SkipStart(s, This.force) ELSE SkipStop(s, This.force)
      BY <2>3, <2>8
    <3>2. This.fn \in Fn \ {"start"} /\ (This.fn = "check_start" <=> Pos \in StartLine(s))
          /\ Pos \in StartLine(s) \cup StopLine(s)
          /\ ~(Pos \in {65, 136, 138}) /\ ~(This.fn = "stop")
      BY <2>1, <2>8, <3>1, Lined, LineOf DEF SkipStart, SkipStop
    <3>3. (Pos \in StartLine(s)) = started[s] /\ AfterCommand(This.fn) = "poll"
      BY <1>1, <3>1, <3>2 DEF SkipStart, SkipStop, Fn, AfterCommand
    <3> QED
      BY <1>6, <2>5, <2>8, <3>2, <3>3 DEF Same
  <2> QED
    BY <1>6, <2>6, <2>7, <2>8
<1>7. ASSUME call # NoCall
      PROVE  /\ CallAt(call.fn, call.svc) /\ (Pos \in {65, 136, 138} => call.force)
             /\ call \in Call /\ Phase = call.step
             /\ Pos \in CallLines /\ Pos # 31 /\ call.svc \in Service /\ call.fn \in Fn \ {"start"}
             /\ Pos \in StartLine(s) \cup StopLine(s) <=> s = call.svc
             /\ Starting <=> Pos \in StartLine(call.svc)
             /\ ~Starting <=> Pos \in StopLine(call.svc)
             /\ AfterCommand(call.fn) = IF Pos = 65 THEN "returned" ELSE "poll"
  <2>1. CallAt(call.fn, call.svc) /\ (Pos \in {65, 136, 138} => call.force)
    BY <1>7, CallPlaces
  <2>2. call \in Call /\ Phase = call.step
    BY <1>1, <1>7 DEF Phase
  <2>3. /\ Pos \in CallLines /\ Pos # 31 /\ call.svc \in Service /\ call.fn \in Fn \ {"start"}
        /\ Pos \in StartLine(s) \cup StopLine(s) <=> s = call.svc
        /\ Pos \in StartLine(call.svc) <=> call.fn = "check_start"
        /\ Pos \in StopLine(call.svc) <=> call.fn \in {"stop", "check_stop"}
        /\ call.fn = "stop" <=> Pos = 65
    BY <2>1, Lined, LineOf
  <2> QED
    BY <2>1, <2>2, <2>3 DEF Starting, AfterCommand, Fn
<1>8. ASSUME call # NoCall, NEW step \in Step, Goto(step)
      PROVE  Phase' = step
  <2>1. call' \in Call /\ call'.step = step
    BY <1>7, <1>8 DEF Goto, Call
  <2> QED
    BY <1>1, <2>1 DEF Phase
<1>9. CASE Stays /\ call # NoCall /\ UNCHANGED died /\ StartSucceeds
  <2>1. Phase = "command" /\ Phase' = "poll" /\ Starting
    BY <1>7, <1>8, <1>9 DEF StartSucceeds, At, AfterCommand, Step, Starting,
       StartLine, Goto
  <2>2. /\ daemon'[call.svc] \in {"starting", "running"} /\ started'[call.svc] = TRUE
        /\ s # call.svc => Same(s)
    BY <1>1, <1>7, <1>9 DEF StartSucceeds, Same
  <2> QED
    BY <1>7, <1>9, <2>1, <2>2
<1>10. CASE Stays /\ call # NoCall /\ UNCHANGED died /\ (StartFails \/ StopFails)
  <2>1. Phase = "command" /\ Phase' = "raised"
    BY <1>7, <1>8, <1>10 DEF StartFails, StopFails, At, Step
  <2>2. /\ daemon'[call.svc] \in {"dead", daemon[call.svc]} /\ started' = started
        /\ s # call.svc => Same(s)
    BY <1>1, <1>7, <1>10 DEF StartFails, StopFails, Same
  <2> QED
    BY <1>7, <1>10, <2>1, <2>2
<1>11. CASE Stays /\ call # NoCall /\ UNCHANGED died /\ StopSucceeds
  <2>1. Phase = "command" /\ Phase' = (IF Pos = 65 THEN "returned" ELSE "poll") /\ ~Starting
    BY <1>7, <1>8, <1>11 DEF StopSucceeds, At, Step
  <2>2. /\ daemon'[call.svc] = "dead" /\ started'[call.svc] = FALSE
        /\ s # call.svc => Same(s)
    BY <1>1, <1>7, <1>11 DEF StopSucceeds, Same
  <2> QED
    BY <1>7, <1>11, <2>1, <2>2
<1>12. CASE Stays /\ call # NoCall /\ UNCHANGED died /\ Poll
  <2>1. call' \in Call /\ call'.step = "poll" /\ call.step = "poll"
    <3>1. PICK r : r = status(call.svc) /\ r \in {STATUS_RUNNING, STATUS_STOPPED}
      BY DEF status
    <3>2. PICK i : i = call.timer + 1 /\ i \in 0..Timeout
      BY <1>7, <1>12, TimeoutAssumption DEF Poll, Call
    <3>3. call' = [call EXCEPT !.rc = r, !.timer = i] /\ call.step = "poll"
      BY <1>12, <3>1, <3>2 DEF Poll, At
    <3> QED
      BY <1>7, <1>12, <3>1, <3>2, <3>3 DEF Call
  <2>2. Phase = "poll" /\ Phase' = "poll"
    BY <1>1, <1>7, <1>12, <2>1 DEF Phase
  <2> QED
    BY <1>7, <1>12, <2>2 DEF Same, Poll
<1>13. CASE Stays /\ call # NoCall /\ UNCHANGED died /\ PollEnds
  <2>1. Phase = "poll" /\ Phase' \in {"returned", "raised"}
    BY <1>7, <1>8, <1>13 DEF PollEnds, At, Step
  <2> QED
    BY <1>7, <1>13, <2>1 DEF Same, PollEnds
<1>14. CASE Forth /\ At("returned") /\ call' = NoCall /\ UNCHANGED <<daemon, started, died>>
  <2>1. call # NoCall /\ Phase = "returned" /\ Phase' = "none" /\ Same(s)
    BY <1>14 DEF At, Phase, Same
  <2>2. Starting => /\ started[call.svc] /\ daemon[call.svc] # "starting"
                    /\ call.force /\ daemon[call.svc] = "dead" => call.svc \in died
    BY <1>7, <1>14, <2>1 DEF At, CallInv, Starting, Checking, Expected, CallAt
  <2> QED
    BY <1>7, <1>14, <2>1, <2>2
<1>15. CASE Raised /\ At("raised") /\ call' = NoCall /\ UNCHANGED <<daemon, started, died>>
  <2>1. call # NoCall /\ Phase = "raised" /\ Phase' = "none" /\ Same(s)
    BY <1>15 DEF At, Phase, Same
  <2> QED
    BY <1>7, <1>15, <2>1
<1>16. CASE Stays /\ \E r \in Service : Dies(r) /\ died' = died \cup {r}
  BY <1>1, <1>2, <1>16 DEF Dies, Same, Phase
<1>17. CASE Stays /\ died' = died /\ \E r \in Service : ComesUp(r)
  BY <1>1, <1>2, <1>17 DEF ComesUp, Same, Phase
<1> QED
  BY <1>3, <1>4, <1>5, <1>6, <1>9, <1>10, <1>11, <1>12, <1>13, <1>14, <1>15, <1>16,
     <1>17 DEF CallStep

--------------------------------------------------------------------------------
(* The parts of the invariant, one after the other.                        *)

(* The lines of the tests. *)
OnPlan ==
  /\ Pos \in Nat
  /\ \/ (11 <= Pos /\ Pos <= 16 /\ Top = 21 /\ pc.test = 1)
     \/ (Pos = 21 /\ Top = 31 /\ pc.test = 2)
     \/ (31 <= Pos /\ Pos <= 36 /\ Top = 41 /\ pc.test = 3)
     \/ (41 <= Pos /\ Pos <= 48 /\ Top = 51 /\ pc.test = 4)
     \/ (51 <= Pos /\ Pos <= 53 /\ Top = 61 /\ pc.test = 5)
     \/ (61 <= Pos /\ Pos <= 66 /\ Top = 71 /\ pc.test = 6)
     \/ (71 <= Pos /\ Pos <= 75 /\ Top = 81 /\ pc.test = 7)
     \/ (81 <= Pos /\ Pos <= 86 /\ Top = 91 /\ pc.test = 8)
     \/ (91 <= Pos /\ Pos <= 93 /\ Top = 101 /\ pc.test = 9)
     \/ (101 <= Pos /\ Pos <= 102 /\ Top = 111 /\ pc.test = 10)
     \/ (111 <= Pos /\ Pos <= 112 /\ Top = 121 /\ pc.test = 11)
     \/ (121 <= Pos /\ Pos <= 123 /\ Top = 131 /\ pc.test = 12)
     \/ (131 <= Pos /\ Pos <= 138 /\ Top = 141 /\ pc.test = 13)
     \/ (141 <= Pos /\ Pos <= 143 /\ Top = 151 /\ pc.test = 14)
     \/ (Pos = 151 /\ Top = 161 /\ pc.test = 15)
     \/ (161 <= Pos /\ Pos <= 164 /\ Top = 171 /\ pc.test = 16)
     \/ (Pos = 171 /\ Top = 181 /\ pc.test = 17)
     \/ (Pos = 181 /\ Top = 191 /\ pc.test = 18)

(* The run is at a statement of the plan, before a step and after it.      *)
LEMMA PlanPos ==
  ASSUME PcOK, PcOK'
  PROVE  OnPlan /\ OnPlan'
<1>1. /\ pc.test \in 1..18 /\ pc.line \in 1..9 /\ pc.line <= Size(pc.test)
      /\ Pos = 10 * pc.test + pc.line /\ Top = 10 * pc.test + 11
  BY DEF PcOK, Pos, Top
<1>2. /\ pc'.test \in 1..18 /\ pc'.line \in 1..9 /\ pc'.line <= Size(pc'.test)
      /\ Pos' = 10 * pc'.test + pc'.line /\ Top' = 10 * pc'.test + 11
  BY DEF PcOK, Pos, Top, Size
<1>3. OnPlan
  BY <1>1, Sizes DEF OnPlan
<1>4. OnPlan'
  BY <1>2, Sizes DEF OnPlan
<1> QED
  BY <1>3, <1>4

(* A run goes on along the plan; a failure and Ctrl-C are not forgotten.   *)
LEMMA Onward ==
  ASSUME PcOK, PcOK', Moves
  PROVE  /\ Stays => Pos' = Pos
         /\ Pos <= Pos' /\ failed \subseteq failed' /\ (interrupted => interrupted')
         /\ Pos' # Pos => Cut \/ Raised \/ (Forth /\ Holds) \/ Past
BY PlanPos DEF OnPlan, Moves, Cut, Raised, Forth, OnTo, Past, Stays, LastLines, Pos

(* FlagInv is kept: the flag of a service is up at the statements that     *)
(* rely on it.                                                             *)
LEMMA FlagOK ==
  ASSUME PcOK, PcOK', TypeOK, FlagInv, Moves, StateStep, \A s \in Services : ServiceStep(s)
  PROVE  FlagInv'
<1>1. OnPlan /\ OnPlan'
  BY PlanPos
<1>2. /\ Stays => Pos' = Pos
      /\ Pos <= Pos' /\ failed \subseteq failed' /\ (interrupted => interrupted')
  BY Onward
<1>3. state \in [Key -> {"no", "yes"}] /\ "voms.started-server" \in Key
  BY DEF TypeOK, Key
<1>4. /\ Serves("mariadb", {13, 21}, {15, 151})
      /\ Serves("munge", {36}, {142})
      /\ Serves("voms", {92}, {102})
  BY DEF Services, ServiceStep, StartLine, StopLine
<1> USE DEF FlagInv, Unstopped, Yes, Same
<1>5. Pos' = 14 \/ (Pos' = 15 /\ Unstopped') => started'["mariadb"]
  <2>1. Pos' \in {14, 15} => Pos \in {14, 15} \/ (Pos = 13 /\ Forth)
    BY <1>1, <1>2 DEF OnPlan, Moves, Cut, Raised, Forth, OnTo, LastLines, Past
  <2> QED
    BY <1>1, <1>2, <1>4, <2>1 DEF OnPlan, Serves, Lasts, Leaves, Cut, Raised, Forth,
       OnTo, LastLines
<1>6. Pos' <= 93 => ~Yes("voms.started-server")'
  <2>1. Pos' <= 93 => Pos <= 93 /\ ~(Forth /\ Pos = 93)
    BY <1>1, <1>2 DEF OnPlan, Moves, Cut, Raised, Forth, OnTo, LastLines, Past
  <2> QED
    BY <1>3, <2>1 DEF StateStep, SetTo
<1>7. Pos' = 93 => started'["voms"]
  <2>1. Pos' = 93 => Pos = 93 \/ (Pos = 92 /\ Forth)
    BY <1>1, <1>2 DEF OnPlan, Moves, Cut, Raised, Forth, OnTo, LastLines, Past
  <2> QED
    BY <1>1, <1>2, <1>4, <2>1 DEF OnPlan, Serves, Lasts, Leaves, Cut, Raised, Forth,
       OnTo, LastLines
<1>8. Pos' = 101 \/ (Pos' = 102 /\ Unstopped') => (Yes("voms.started-server")' => started'["voms"])
  <2>1. Pos' \in 101..102 => Pos \in 101..102 \/ Pos \in 91..93
    BY <1>1, <1>2 DEF OnPlan, Moves, Cut, Raised, Forth, OnTo, LastLines, Past
  <2>2. Yes("voms.started-server")' => Yes("voms.started-server") \/ (Pos = 93 /\ Forth)
    BY <1>3 DEF StateStep, SetTo
  <2> QED
    BY <1>1, <1>2, <1>4, <2>1, <2>2 DEF OnPlan, Serves, Lasts, Leaves, Cut, Raised,
       Forth, OnTo, LastLines
<1>9. Pos' = 102 => Yes("voms.started-server")'
  <2>1. Pos' = 102 => Pos = 102 \/ (Pos = 101 /\ Forth /\ Holds)
    BY <1>1, <1>2 DEF OnPlan, Moves, Cut, Raised, Forth, OnTo, LastLines, Past
  <2> QED
    BY <2>1 DEF StateStep, Holds, Stays
<1>10. Pos' = 142 /\ Unstopped' => started'["munge"]
  <2>1. Pos' = 142 => Pos = 142 \/ (Pos = 141 /\ Forth /\ Holds)
    BY <1>1, <1>2 DEF OnPlan, Moves, Cut, Raised, Forth, OnTo, LastLines, Past
  <2> QED
    BY <1>1, <1>2, <1>4, <2>1 DEF OnPlan, Serves, Lasts, Leaves, Holds, Cut, Raised,
       Forth, OnTo, LastLines
<1>11. Pos' \in 31..143 => started'["mariadb"] \/ 2 \in failed'
  <2>1. Pos' \in 31..143 => Pos \in 31..143 \/ (Pos = 21 /\ Forth) \/ (Pos = 21 /\ Raised)
    BY <1>1, <1>2 DEF OnPlan, Moves, Cut, Raised, Forth, OnTo, LastLines, Past
  <2>3. Pos = 21 /\ Raised => 2 \in failed'
    BY <1>1 DEF OnPlan, Raised
  <2> QED
    BY <1>1, <1>2, <1>4, <2>1, <2>3 DEF OnPlan, Serves, Lasts, Leaves, Cut
<1>12. Pos' = 151 /\ Unstopped' => started'["mariadb"] \/ 2 \in failed'
  <2>1. Pos' = 151 => Pos = 151 \/ Pos \in 31..143
    BY <1>1, <1>2 DEF OnPlan, Moves, Cut, Raised, Forth, OnTo, LastLines, Past
  <2> QED
    BY <1>1, <1>2, <1>4, <2>1 DEF OnPlan, Serves, Lasts, Leaves, Cut, Raised, Forth,
       OnTo, LastLines
<1> QED
  BY <1>5, <1>6, <1>7, <1>8, <1>9, <1>10, <1>11, <1>12

(* DownInv is kept: a daemon that was stopped is down when the call        *)
(* returns.                                                                *)
LEMMA DownOK ==
  ASSUME PcOK, PcOK', FlagInv, DownInv, Moves, \A s \in Services : ServiceStep(s)
  PROVE  DownInv'
<1>1. OnPlan /\ OnPlan'
  BY PlanPos
<1>2. /\ Stays => Pos' = Pos
      /\ Pos <= Pos' /\ failed \subseteq failed' /\ (interrupted => interrupted')
  BY Onward
<1>3. /\ Serves("mariadb", {13, 21}, {15, 151})
      /\ Serves("munge", {36}, {142})
      /\ Serves("xrootd", {66, 138}, {65, 136})
      /\ Serves("voms", {92}, {102})
  BY DEF Services, ServiceStep, StartLine, StopLine
<1> USE DEF FlagInv, DownInv, Unstopped, Waited, Yes, Same
<1>4. (Pos' = 15 /\ Waited') \/ Pos' = 16 => daemon'["mariadb"] = "dead"
  <2>1. /\ Pos' = 16 => Pos = 16 \/ (Pos = 15 /\ Forth)
        /\ Pos' = 15 => Pos = 15 \/ Pos = 14
    BY <1>1, <1>2 DEF OnPlan, Moves, Cut, Raised, Forth, OnTo, LastLines, Past
  <2> QED
    BY <1>1, <1>2, <1>3, <2>1 DEF OnPlan, Serves, Lasts, Leaves, Cut, Raised, Forth,
       OnTo, LastLines
<1>5. Pos' \in {65, 136} /\ Waited' => daemon'["xrootd"] = "dead"
  <2>1. /\ Pos' = 65 => Pos = 65 \/ Pos = 64
        /\ Pos' = 136 => Pos = 136 \/ Pos = 135
    BY <1>1, <1>2 DEF OnPlan, Moves, Cut, Raised, Forth, OnTo, LastLines, Past
  <2> QED
    BY <1>1, <1>2, <1>3, <2>1 DEF OnPlan, Serves, Lasts, Leaves, Cut, Raised, Forth,
       OnTo, LastLines
<1>6. Pos' = 102 /\ Waited' => daemon'["voms"] = "dead"
  <2>1. Pos' = 102 => Pos = 102 \/ Pos = 101
    BY <1>1, <1>2 DEF OnPlan, Moves, Cut, Raised, Forth, OnTo, LastLines, Past
  <2> QED
    BY <1>1, <1>2, <1>3, <2>1 DEF OnPlan, Serves, Lasts, Leaves, Cut, Raised, Forth,
       OnTo, LastLines
<1>7. (Pos' = 142 /\ Waited') \/ Pos' = 143 => daemon'["munge"] = "dead"
  <2>1. /\ Pos' = 143 => Pos = 143 \/ (Pos = 142 /\ Forth)
        /\ Pos' = 142 => Pos = 142 \/ Pos = 141
    BY <1>1, <1>2 DEF OnPlan, Moves, Cut, Raised, Forth, OnTo, LastLines, Past
  <2> QED
    BY <1>1, <1>2, <1>3, <2>1 DEF OnPlan, Serves, Lasts, Leaves, Cut, Raised, Forth,
       OnTo, LastLines
<1>8. Pos' = 151 /\ Waited' => daemon'["mariadb"] = "dead" \/ 2 \in failed'
  <2>1. Pos' = 151 => Pos = 151 \/ Pos' # Pos
    BY <1>1, <1>2 DEF OnPlan, Moves, Cut, Raised, Forth, OnTo, LastLines, Past
  <2> QED
    BY <1>1, <1>2, <1>3, <2>1 DEF OnPlan, Serves, Lasts, Leaves, Cut, Raised, Forth,
       OnTo, LastLines
<1> QED
  BY <1>4, <1>5, <1>6, <1>7, <1>8

(* The data directory when what it holds changes. *)
LEMMA Databases ==
  /\ \A d \in Data, h \in SUBSET {"vo", "user"} :
       /\ [d EXCEPT !.holds = h] \in Data
       /\ [d EXCEPT !.holds = h].origin = d.origin /\ [d EXCEPT !.holds = h].holds = h
  /\ \A d \in Data : d # NoData /\ d.origin \in Content /\ d.holds \in SUBSET {"vo", "user"}
  /\ NewData \in Data /\ NewData.origin = "test" /\ NewData.holds = {}
  /\ NoData.origin = "none" /\ NoData.holds = {}
BY DEF Data, NoData, NewData, Content

(* What an SQL statement does to the data directory, if there is one.      *)
LEMMA Executed ==
  ASSUME data \in Data \cup {NoData}, Awake => data # NoData, NEW add \in SUBSET {"vo", "user"},
         NEW remove, Executes(add, remove)
  PROVE  \/ data' = data /\ unnoticed' = unnoticed \cup {"sql"}
         \/ /\ data \in Data /\ data' \in Data /\ data'.origin = data.origin
            /\ data'.holds = (data.holds \cup add) \ remove /\ unnoticed' = unnoticed
<1>1. data \in Data => (data.holds \cup add) \ remove \in SUBSET {"vo", "user"}
  BY Databases
<1>2. ASSUME daemon["mariadb"] = "running", unnoticed' = unnoticed, NEW h, h = (data.holds \cup add) \ remove,
             data' = [data EXCEPT !.holds = h]
      PROVE  /\ data \in Data /\ data' \in Data /\ data'.origin = data.origin
             /\ data'.holds = (data.holds \cup add) \ remove /\ unnoticed' = unnoticed
  <2>1. data \in Data
    BY <1>2 DEF Awake
  <2> QED
    BY <1>1, <1>2, <2>1, Databases
<1> QED
  BY <1>2 DEF Executes

(* What voms_install_db does to it. *)
LEMMA Installed ==
  ASSUME data \in Data \cup {NoData}, Awake => data # NoData, Installs
  PROVE  \/ data' = data
         \/ /\ data \in Data /\ data' \in Data /\ data'.origin = data.origin
            /\ data'.holds = data.holds \cup {"vo"}
<1>1. data \in Data => data.holds \cup {"vo"} \in SUBSET {"vo", "user"}
  BY Databases
<1>2. ASSUME daemon["mariadb"] = "running", NEW h, h = data.holds \cup {"vo"},
             data' = [data EXCEPT !.holds = h]
      PROVE  /\ data \in Data /\ data' \in Data /\ data'.origin = data.origin
             /\ data'.holds = data.holds \cup {"vo"}
  <2>1. data \in Data
    BY <1>2 DEF Awake
  <2> QED
    BY <1>1, <1>2, <2>1, Databases
<1> QED
  BY <1>2 DEF Installs

(* What a removal that raises does to it. *)
LEMMA Emptied ==
  ASSUME data \in Data, NEW h \in SUBSET data.holds, data' = [data EXCEPT !.holds = h]
  PROVE  data' \in Data /\ data'.origin = data.origin /\ data'.holds = h
<1>1. h \in SUBSET {"vo", "user"}
  BY Databases
<1> QED
  BY <1>1, Databases

(* A step leaves everything well typed. *)
LEMMA TypesOK ==
  ASSUME TypeOK, PcOK, PcOK', ServiceTypeOK', died' \subseteq Service,
         Awake /\ Pos <= 163 => data # NoData,
         Moves, FileStep, StateStep, DataStep, RestStep
  PROVE  TypeOK'
<1>1. ServiceTypeOK' /\ died' \subseteq Service
  OBVIOUS
<1>2. pc' \in [test : 1..(Len(Plan) + 1), line : 1..9]
  BY PlanLength DEF PcOK
<1>3. state' \in [Key -> {"no", "yes"}]
  BY DEF TypeOK, StateStep, SetTo
<1>4. content' \in [Path -> Content] /\ saved' \in [Path \X Owner -> Content \cup {NotSaved}]
  <2>1. content \in [Path -> Content] /\ saved \in [Path \X Owner -> Content \cup {NotSaved}]
    BY DEF TypeOK
  <2>2. ASSUME NEW p \in Path, NEW o \in Owner, Saves(p, o) \/ Changes(p) \/ PutsBack(p, o)
        PROVE  content' \in [Path -> Content] /\ saved' \in [Path \X Owner -> Content \cup {NotSaved}]
    <3>1. <<p, o>> \in Path \X Owner /\ "test" \in Content
      BY DEF Content
    <3> QED
      BY <2>1, <2>2, <3>1 DEF Saves, Changes, PutsBack
  <2>3. {"munge.key", "xrootd.cfg", "scitokens.conf", "vomses"} \subseteq Path
        /\ {"munge", "xrootd", "voms"} \subseteq Owner
    BY DEF Path, Owner
  <2>4. CASE \E p \in Path, o \in Owner : Saves(p, o) \/ Changes(p) \/ PutsBack(p, o)
    BY <2>2, <2>4
  <2>5. CASE content' = content /\ (saved' = saved \/ saved' = [k \in Path \X Owner |-> NotSaved])
    BY <2>1, <2>5
  <2> QED
    BY <2>3, <2>4, <2>5 DEF FileStep
<1>5. made' \subseteq {"lsc", "conf"}
  BY DEF TypeOK, DataStep, Executes, Installs, MovesData, Skips, Empties, MovesBack
<1>6. data' \in Data \cup {NoData} /\ databackup' \in Data \cup {NoData}
  <2>1. data \in Data \cup {NoData} /\ databackup \in Data \cup {NoData}
    BY DEF TypeOK
  <2>2. CASE UNCHANGED <<data, databackup>>
    BY <2>1, <2>2
  <2>3. CASE databackup' = databackup /\ data' = (IF Awake' /\ data = NoData THEN NewData ELSE data)
    BY <2>1, <2>3, Databases
  <2>4. CASE /\ Pos <= 163
             /\ Executes({}, {"vo"}) \/ Executes({}, {"user"}) \/ Executes({"user"}, {})
    BY <2>1, <2>4, Executed DEF Executes
  <2>5. CASE MovesData \/ MovesBack
    BY <2>1, <2>5, Databases DEF MovesData, Moved, MovesBack
  <2>6. CASE Pos <= 163 /\ Installs
    BY <2>1, <2>6, Installed DEF Installs
  <2>7. CASE Empties
    <3>1. CASE data' = NoData
      BY <2>1, <2>7, <3>1 DEF Empties
    <3>2. CASE data # NoData /\ \E h \in SUBSET data.holds : data' = [data EXCEPT !.holds = h]
      BY <2>1, <2>7, <3>2, Emptied DEF Empties
    <3> QED
      BY <2>7, <3>1, <3>2 DEF Empties
  <2> QED
    BY <2>2, <2>3, <2>4, <2>5, <2>6, <2>7 DEF DataStep, MakesOnly, Skips
<1>7. /\ backupmysql' \in BOOLEAN /\ hadData' \in BOOLEAN /\ ran' \subseteq Service
      /\ unnoticed' \subseteq {"sql", "conf", "move"}
  BY DEF TypeOK, RestStep
<1>8. interrupted' \in BOOLEAN
  BY DEF TypeOK, Moves, Stays, Cut, Raised, Forth, Past, OnTo
<1>9. failed' \subseteq Test
  <2>1. Raised => pc.test \in 1..17
    BY PlanPos DEF OnPlan, Raised
  <2> QED
    BY <2>1, PlanLength DEF TypeOK, Test, Moves, Stays, Cut, Raised, Forth, Past, OnTo
<1>10. faults' \in 0..MaxFaults
  BY ServiceAssumption DEF TypeOK, RestStep
<1> QED
  BY <1>1, <1>2, <1>3, <1>4, <1>5, <1>6, <1>7, <1>8, <1>9, <1>10 DEF TypeOK

(* A step does one of these to the databases. *)
Keeps == data' = data /\ databackup' = databackup
Fills == data = NoData /\ data' = NewData /\ databackup' = databackup
Edits ==
  /\ data \in Data /\ data' \in Data /\ data'.origin = data.origin
  /\ databackup' = databackup /\ Pos \in 71..75 \cup 121..122
GoesAway ==
  Pos = 16 /\ Forth /\ Moved /\ ("move" \in unnoticed' \/ SetTo("mysql.backup", "yes"))
Clears ==
  /\ Pos = 163 /\ databackup' = databackup
  /\ \/ Forth /\ data' = NoData
     \/ Raised /\ data \in Data /\ data' \in Data /\ data'.origin = data.origin
ComesBack == Pos = 164 /\ Forth /\ data' = databackup /\ databackup' = NoData
HalfBack ==
  Pos = 164 /\ Raised /\ data' \in {data, NewData, databackup} /\ databackup' = databackup

DataKind ==
  /\ \/ Keeps /\ (Awake' /\ data = NoData => Awake)
     \/ Fills
     \/ (Edits \/ GoesAway \/ Clears \/ ComesBack \/ HalfBack) /\ UNCHANGED daemon
  /\ Pos = 16 =>
       GoesAway \/ Abandons \/ "move" \in unnoticed' \/ (data = NoData /\ databackup = NoData)
  /\ Pos = 163 => Clears \/ Abandons
  /\ Pos = 164 => ComesBack \/ Abandons

(* A step does one of these. *)
LEMMA DataKinds ==
  ASSUME TypeOK, Awake /\ Pos <= 163 => data # NoData, DataStep
  PROVE  DataKind
<1>1. data \in Data \cup {NoData}
  BY DEF TypeOK
<1>2. ASSUME NEW add \in SUBSET {"vo", "user"}, NEW remove, Executes(add, remove), UNCHANGED daemon,
             Pos \in {71, 72, 74, 121, 122}
      PROVE  (Keeps /\ (Awake' /\ data = NoData => Awake)) \/ (Edits /\ UNCHANGED daemon)
  <2>1. \/ data' = data
        \/ data \in Data /\ data' \in Data /\ data'.origin = data.origin
    BY <1>1, <1>2, Executed
  <2> QED
    BY <1>2, <2>1 DEF Executes, Keeps, Edits, Awake
<1>3. ASSUME Installs, UNCHANGED daemon, Pos = 75
      PROVE  (Keeps /\ (Awake' /\ data = NoData => Awake)) \/ (Edits /\ UNCHANGED daemon)
  <2>1. data' = data \/ (data \in Data /\ data' \in Data /\ data'.origin = data.origin)
    BY <1>1, <1>3, Installed
  <2> QED
    BY <1>3, <2>1 DEF Installs, Keeps, Edits, Awake
<1>4. /\ {} \in SUBSET {"vo", "user"} /\ {"user"} \in SUBSET {"vo", "user"}
  OBVIOUS
<1>5. ASSUME UNCHANGED daemon, Pos = 16, Forth, MovesData
      PROVE  /\ (Keeps /\ (Awake' /\ data = NoData => Awake)) \/ (GoesAway /\ UNCHANGED daemon)
             /\ GoesAway \/ "move" \in unnoticed' \/ (data = NoData /\ databackup = NoData)
  BY <1>5 DEF MovesData, Keeps, GoesAway, Awake
<1>6. ASSUME UNCHANGED daemon, UNCHANGED <<data, databackup>>
      PROVE  Keeps /\ (Awake' /\ data = NoData => Awake)
  BY <1>6 DEF Keeps, Awake
<1>7. CASE /\ UNCHANGED <<made, data, databackup, unnoticed>> /\ (Awake' => Awake)
           /\ Pos \in DataLines => Lingers \/ (Raised /\ Pos \in {16, 82, 111})
  BY <1>7 DEF Keeps, DataLines, DataKind, Lingers, Abandons
<1>8. CASE /\ Stays /\ UNCHANGED <<made, databackup, unnoticed>>
           /\ data' = IF Awake' /\ data = NoData THEN NewData ELSE data
  BY <1>8 DEF Keeps, Fills, Abandons, DataKind
<1>9. CASE (Forth \/ Raised) /\ Pos = 75 /\ Installs /\ UNCHANGED daemon
  BY <1>3, <1>9 DEF DataKind
<1>10. ASSUME Forth, UNCHANGED daemon,
              \/ Pos \in {71, 121} /\ Executes({}, {"vo"})
              \/ Pos \in {72, 122} /\ Executes({}, {"user"})
              \/ Pos = 74 /\ Executes({"user"}, {})
       PROVE  (Keeps /\ (Awake' /\ data = NoData => Awake)) \/ (Edits /\ UNCHANGED daemon)
  BY <1>2, <1>4, <1>10
<1>11. CASE Pos = 163 /\ Empties /\ UNCHANGED daemon
  <2>1. CASE Forth /\ data' = NoData
    BY <1>11, <2>1 DEF Empties, Clears, DataKind
  <2>2. CASE Raised /\ data # NoData /\ \E h \in SUBSET data.holds : data' = [data EXCEPT !.holds = h]
    <3>1. data \in Data
      BY <1>1, <2>2
    <3>2. data' \in Data /\ data'.origin = data.origin
      BY <2>2, <3>1, Emptied
    <3> QED
      BY <1>11, <2>2, <3>1, <3>2 DEF Empties, Clears, DataKind
  <2> QED
    BY <1>11, <2>1, <2>2 DEF Empties
<1>12. CASE /\ Forth /\ UNCHANGED daemon
            /\ \/ Pos \in {71, 121} /\ Executes({}, {"vo"})
               \/ Pos \in {72, 122} /\ Executes({}, {"user"})
               \/ Pos = 74 /\ Executes({"user"}, {})
  <2>1. Pos # 16 /\ Pos # 163 /\ Pos # 164
    BY <1>12
  <2> QED
    BY <1>10, <1>12, <2>1 DEF DataKind
<1>13. CASE Forth /\ UNCHANGED daemon /\ Pos = 16 /\ MovesData
  <2>1. Pos # 163 /\ Pos # 164
    BY <1>13
  <2> QED
    BY <1>5, <1>13, <2>1 DEF DataKind
<1>14. CASE Forth /\ UNCHANGED daemon /\ Pos \in {82, 73, 123, 111} /\ (MakesOnly \/ Skips)
  BY <1>6, <1>14 DEF MakesOnly, Skips, DataKind
<1>15. CASE Pos = 164 /\ MovesBack /\ UNCHANGED daemon
  BY <1>15 DEF MovesBack, ComesBack, HalfBack, Abandons, DataKind
<1>16. CASE /\ Forth /\ UNCHANGED daemon
            /\ \/ Pos \in {71, 121} /\ Executes({}, {"vo"})
               \/ Pos \in {72, 122} /\ Executes({}, {"user"})
               \/ Pos = 74 /\ Executes({"user"}, {})
               \/ Pos = 16 /\ MovesData
               \/ Pos = 82 /\ made' = made \cup {"lsc"} /\ MakesOnly
               \/ Pos \in {73, 123} /\ ((made' = made \ {"conf"} /\ MakesOnly) \/ Skips)
               \/ Pos = 111 /\ made' = made \ {"lsc"} /\ MakesOnly
  <2>1. CASE Pos \in {71, 72, 74, 121, 122}
    BY <1>12, <1>16, <2>1
  <2>2. CASE Pos = 16
    BY <1>13, <1>16, <2>2
  <2>3. CASE Pos \in {82, 73, 123, 111}
    BY <1>14, <1>16, <2>3
  <2> QED
    BY <1>16, <2>1, <2>2, <2>3
<1> QED
  BY <1>7, <1>8, <1>9, <1>11, <1>15, <1>16, Zenon DEF DataStep

(* DataInv is kept: the databases that were found are somewhere, and where *)
(* the option put them.                                                    *)
LEMMA DataOK ==
  ASSUME PcOK, PcOK', TypeOK, DownInv, DataInv, Moves, StateStep, DataStep, RestStep
  PROVE  DataInv'
<1>1. OnPlan /\ OnPlan'
  BY PlanPos
<1>2. /\ Stays => Pos' = Pos
      /\ Pos <= Pos' /\ failed \subseteq failed' /\ (interrupted => interrupted')
  BY Onward
<1>3. /\ \/ Keeps /\ (Awake' /\ data = NoData => Awake)
         \/ Fills
         \/ (Edits \/ GoesAway \/ Clears \/ ComesBack \/ HalfBack) /\ UNCHANGED daemon
      /\ Pos = 16 =>
           GoesAway \/ Abandons \/ "move" \in unnoticed' \/ (data = NoData /\ databackup = NoData)
      /\ Pos = 163 => Clears \/ Abandons
      /\ Pos = 164 => ComesBack \/ Abandons
  BY DataKinds DEF DataKind, Awake, DataInv
<1>4. /\ data \in Data \cup {NoData} /\ databackup \in Data \cup {NoData}
      /\ state \in [Key -> {"no", "yes"}] /\ "mysql.backup" \in Key
  BY DEF TypeOK, Key
<1>5. backupmysql' = backupmysql /\ hadData' = hadData /\ unnoticed \subseteq unnoticed'
  BY DEF RestStep
<1>6. \/ state'["mysql.backup"] = state["mysql.backup"]
      \/ Pos = 12 /\ Forth /\ state'["mysql.backup"] = "no"
      \/ Pos = 16 /\ Forth /\ Moved /\ state'["mysql.backup"] = "yes"
  BY <1>4 DEF StateStep, SetTo
<1> USE DEF DataInv, Awake
<1>7. daemon'["mariadb"] # "dead" /\ Pos' <= 163 => data' # NoData
  <2>1. Clears => ~(Pos' <= 163)
    BY <1>1 DEF Clears, Forth, Raised, OnTo, LastLines, OnPlan
  <2>2. ComesBack \/ HalfBack => ~(Pos' <= 163)
    BY <1>1 DEF ComesBack, HalfBack, Forth, Raised, OnTo, LastLines, OnPlan
  <2>3. Pos' <= 163 => Pos <= 163
    BY <1>1, <1>2 DEF OnPlan
  <2>4. CASE Keeps /\ (Awake' /\ data = NoData => Awake)
    BY <2>3, <2>4 DEF Keeps
  <2>5. CASE Fills
    BY <2>5, Databases DEF Fills
  <2>6. CASE Edits
    BY <2>6, Databases DEF Edits
  <2>7. CASE GoesAway /\ UNCHANGED daemon
    BY <2>7 DEF GoesAway, DownInv
  <2> QED
    BY <1>3, <2>1, <2>2, <2>4, <2>5, <2>6, <2>7
<1>8. hadData' => "found" \in {data'.origin, databackup'.origin}
  <2>1. Pos \in 163..164 => state["mysql.backup"] = "yes"
    OBVIOUS
  <2>2. CASE Clears \/ HalfBack \/ ComesBack
    <3>1. hadData => databackup.origin = "found"
      BY <2>1, <2>2 DEF Clears, HalfBack, ComesBack
    <3> QED
      BY <1>5, <2>2, <3>1 DEF Clears, HalfBack, ComesBack
  <2> QED
    BY <1>3, <1>4, <1>5, <2>2, Databases DEF Keeps, Fills, Edits, GoesAway, Moved
<1>9. Pos' <= 12 => state'["mysql.backup"] = "no"
  BY <1>1, <1>2, <1>6 DEF OnPlan
<1>10. state'["mysql.backup"] = "yes" /\ Pos' <= 164 =>
         databackup' # NoData /\ (hadData' => databackup'.origin = "found")
  <2>1. Pos' <= 164 => ~ComesBack
    BY <1>1 DEF ComesBack, Forth, OnTo, LastLines, OnPlan
  <2> QED
    BY <1>1, <1>2, <1>3, <1>4, <1>5, <1>6, <2>1, Databases DEF Keeps, Fills, Edits, GoesAway,
       Clears, HalfBack, Moved, Forth, OnTo, LastLines, OnPlan
<1>11. Pos' \in 163..164 => state'["mysql.backup"] = "yes"
  <2>1. Pos' \in 163..164 => Pos \in 163..164 \/ (Pos = 162 /\ Forth /\ Holds)
    BY <1>1, <1>2 DEF OnPlan, Moves, Cut, Raised, Forth, OnTo, LastLines, Past
  <2> QED
    BY <1>6, <2>1 DEF Holds, Yes
<1>12. ASSUME backupmysql', hadData', "move" \notin unnoticed', ~Excuse({1, 16})'
       PROVE  /\ Pos' \in 21..164 => state'["mysql.backup"] = "yes"
              /\ Pos' > 164 => data'.origin = "found" /\ databackup' = NoData
  <2>1. backupmysql /\ hadData /\ "move" \notin unnoticed /\ ~Excuse({1, 16})
    BY <1>2, <1>5, <1>12 DEF Excuse
  <2>2. ~Cut /\ (Raised => pc.test \notin {1, 16})
    BY <1>12 DEF Excuse, Cut, Raised
  <2>3. Pos' \in 21..164 => Pos \in 21..164 \/ (Pos = 16 /\ Forth)
    BY <1>1, <1>2, <2>1, <2>2 DEF OnPlan, Moves, Stays, Raised, Forth, OnTo, LastLines, Past
  <2>4. Pos' > 164 => Pos > 164 \/ (Pos = 164 /\ Forth)
    BY <1>1, <1>2, <2>1, <2>2 DEF OnPlan, Moves, Raised, Forth, OnTo, LastLines, Past, Yes
  <2>5. Pos' \in 21..164 => state'["mysql.backup"] = "yes"
    <3>1. CASE Pos = 16 /\ Forth
      <4>1. ~Abandons
        BY <1>1, <2>2, <3>1 DEF Abandons, Stays, Forth, OnTo, LastLines, OnPlan, Pos
      <4> QED
        BY <1>3, <1>4, <1>12, <2>1, <3>1, <4>1, Databases DEF GoesAway, SetTo
    <3> QED
      BY <1>6, <2>1, <2>3, <3>1
  <2>6. Pos' > 164 => data'.origin = "found" /\ databackup' = NoData
    <3>1. CASE Pos = 164 /\ Forth
      <4>1. ~Abandons
        BY <1>1, <2>2, <3>1 DEF Abandons, Stays, Forth, OnTo, LastLines, OnPlan, Pos
      <4> QED
        BY <1>3, <2>1, <3>1, <4>1 DEF ComesBack
    <3>2. CASE Pos > 164
      BY <1>3, <1>4, <2>1, <3>2, Databases DEF Keeps, Fills, Edits, GoesAway, Clears,
         ComesBack, HalfBack
    <3> QED
      BY <2>4, <3>1, <3>2
  <2> QED
    BY <2>5, <2>6
<1> QED
  BY <1>7, <1>8, <1>9, <1>10, <1>11, <1>12 DEF Excuse

(* VoInv is kept: what was made for the virtual organisation goes at its   *)
(* line, unless its removal fails there.                                   *)
LEMMA VoOK ==
  ASSUME PcOK, PcOK', TypeOK, Awake /\ Pos <= 163 => data # NoData, VoInv, Moves, DataStep,
         RestStep
  PROVE  VoInv'
<1>1. OnPlan /\ OnPlan'
  BY PlanPos
<1>2. /\ Stays => Pos' = Pos
      /\ Pos <= Pos' /\ failed \subseteq failed' /\ (interrupted => interrupted')
  BY Onward
<1>3. /\ data \in Data \cup {NoData} /\ databackup \in Data \cup {NoData}
      /\ unnoticed \subseteq unnoticed'
  BY DEF RestStep, TypeOK
<1>4. ~interrupted' =>
        /\ Pos' > 111 => Pos > 111 \/ (Pos = 111 /\ (Forth \/ Raised))
        /\ Pos' > 121 => Pos > 121 \/ (Pos = 121 /\ (Forth \/ Raised))
        /\ Pos' > 122 => Pos > 122 \/ (Pos = 122 /\ (Forth \/ Raised)) \/ (Pos = 121 /\ Raised)
        /\ Pos' > 123 => Pos > 123 \/ (Pos = 123 /\ (Forth \/ Raised)) \/ (Pos \in 121..122 /\ Raised)
  BY <1>1, <1>2 DEF OnPlan, Moves, Cut, Raised, Forth, OnTo, LastLines, Past
<1>5. {} \in SUBSET {"vo", "user"}
  OBVIOUS
<1>6. ASSUME NEW add \in SUBSET {"vo", "user"}, NEW remove, Executes(add, remove), Pos <= 163
       PROVE  \/ data' = data /\ "sql" \in unnoticed'
              \/ data'.holds = (data.holds \cup add) \ remove
  BY <1>3, <1>6, Executed
<1> USE DEF VoInv
<1>7. CASE /\ UNCHANGED <<made, data, databackup, unnoticed>>
           /\ Pos \in DataLines => Lingers \/ (Raised /\ Pos \in {16, 82, 111})
  <2>1. ~interrupted' => /\ Pos' > 111 => Pos > 111 \/ 11 \in failed'
                         /\ Pos' > 121 => Pos > 121
                         /\ Pos' > 122 => Pos > 122
                         /\ Pos' > 123 => Pos > 123
    BY <1>1, <1>2, <1>4, <1>7 DEF DataLines, Lingers, Cut, Forth, Raised, OnTo,
       LastLines, OnPlan
  <2> QED
    BY <1>1, <1>2, <1>7, <2>1 DEF OnPlan
<1>8. CASE /\ Stays /\ UNCHANGED <<made, databackup, unnoticed>>
           /\ data' = IF Awake' /\ data = NoData THEN NewData ELSE data
  BY <1>2, <1>8, Databases
<1>9. CASE Forth /\ Pos \in {71, 121} /\ Executes({}, {"vo"})
  <2>1. \/ data' = data /\ "sql" \in unnoticed'
        \/ data'.holds = (data.holds \cup {}) \ {"vo"}
    <3>1. PICK add \in SUBSET {"vo", "user"} : add = {}
      BY <1>5
    <3>2. Executes(add, {"vo"})
      BY <1>9, <3>1, Zenon
    <3>3. \/ data' = data /\ "sql" \in unnoticed'
          \/ data'.holds = (data.holds \cup add) \ {"vo"}
      BY <1>9, <3>2, <1>6
    <3> QED
      BY <3>1, <3>3
  <2>2. UNCHANGED <<made, databackup>> /\ Pos' = Pos + 1
    BY <1>9 DEF Executes, Forth, OnTo, LastLines
  <2> QED
    BY <1>2, <1>3, <1>9, <2>1, <2>2
<1>10. CASE Forth /\ Pos \in {72, 122} /\ Executes({}, {"user"})
  <2>1. \/ data' = data /\ "sql" \in unnoticed'
        \/ data'.holds = (data.holds \cup {}) \ {"user"}
    <3>1. PICK add \in SUBSET {"vo", "user"} : add = {}
      BY <1>5
    <3>2. Executes(add, {"user"})
      BY <1>10, <3>1, Zenon
    <3>3. \/ data' = data /\ "sql" \in unnoticed'
          \/ data'.holds = (data.holds \cup add) \ {"user"}
      BY <1>10, <3>2, <1>6
    <3> QED
      BY <3>1, <3>3
  <2>2. UNCHANGED <<made, databackup>> /\ Pos' = Pos + 1
    BY <1>10 DEF Executes, Forth, OnTo, LastLines
  <2> QED
    BY <1>2, <1>3, <1>10, <2>1, <2>2
<1>11. CASE Forth /\ Pos = 74 /\ Executes({"user"}, {})
  <2>1. UNCHANGED <<made, databackup>> /\ Pos' = Pos + 1
    BY <1>11 DEF Executes, Forth, OnTo, LastLines
  <2> QED
    BY <1>11, <2>1
<1>12. CASE Forth /\ Pos = 16 /\ MovesData
  <2>1. Pos' = 21
    BY <1>1, <1>12 DEF OnPlan, Forth, OnTo, LastLines
  <2> QED
    BY <1>12, <2>1, Databases DEF MovesData, Moved
<1>13. CASE Forth /\ Pos = 82 /\ made' = made \cup {"lsc"} /\ MakesOnly
  <2>1. Pos' = 83
    BY <1>13 DEF Forth, OnTo, LastLines
  <2> QED
    BY <1>13, <2>1 DEF MakesOnly
<1>14. CASE Forth /\ Pos \in {73, 123} /\ ((made' = made \ {"conf"} /\ MakesOnly) \/ Skips)
  <2>1. Pos' = IF Pos = 73 THEN 74 ELSE 131
    BY <1>1, <1>14 DEF OnPlan, Forth, OnTo, LastLines
  <2>2. UNCHANGED <<data, databackup>> /\ made' \subseteq made
        /\ ("conf" \notin made' \/ "conf" \in unnoticed')
    BY <1>14 DEF MakesOnly, Skips
  <2> QED
    BY <1>2, <1>3, <1>14, <2>1, <2>2
<1>15. CASE Forth /\ Pos = 111 /\ made' = made \ {"lsc"} /\ MakesOnly
  <2>1. Pos' = 112
    BY <1>15 DEF Forth, OnTo, LastLines
  <2> QED
    BY <1>15, <2>1 DEF MakesOnly
<1>16. CASE Pos = 163 /\ Empties
  <2>1. Pos' > 163 /\ UNCHANGED <<made, databackup, unnoticed>>
    BY <1>1, <1>16 DEF OnPlan, Forth, Raised, OnTo, LastLines, Empties
  <2>2. data' = NoData \/ data'.holds \subseteq data.holds
    <3>1. CASE data # NoData /\ \E h \in SUBSET data.holds : data' = [data EXCEPT !.holds = h]
      BY <1>3, <3>1, Emptied
    <3> QED
      BY <1>16, <3>1 DEF Empties
  <2>3. data'.holds \subseteq data.holds
    BY <2>2, Databases
  <2>4. ~(Pos' <= 74)
    BY <1>1, <2>1 DEF OnPlan
  <2>5. ~interrupted' =>
          /\ "lsc" \notin made \/ 11 \in failed
          /\ "conf" \notin made \/ "conf" \in unnoticed
          /\ "sql" \in unnoticed \/ "vo" \notin data.holds
          /\ "sql" \in unnoticed \/ "user" \notin data.holds
    BY <1>2, <1>16
  <2> QED
    BY <1>2, <2>1, <2>3, <2>4, <2>5
<1>17. CASE Pos = 164 /\ MovesBack
  <2>1. Pos' = 171 /\ UNCHANGED <<made, unnoticed>>
    BY <1>1, <1>17 DEF OnPlan, Forth, Raised, OnTo, LastLines, MovesBack
  <2>2. databackup'.holds = {} /\ (data' = data \/ data'.holds = {})
    BY <1>17, Databases DEF MovesBack
  <2> QED
    BY <1>2, <1>17, <2>1, <2>2
<1>18. CASE (Forth \/ Raised) /\ Pos = 75 /\ Installs
  <2>1. Pos' = 81
    BY <1>1, <1>18 DEF OnPlan, Forth, OnTo, LastLines, Raised
  <2> QED
    BY <1>18, <2>1 DEF Installs
<1>19. CASE /\ Forth /\ UNCHANGED daemon
            /\ \/ Pos \in {71, 121} /\ Executes({}, {"vo"})
               \/ Pos \in {72, 122} /\ Executes({}, {"user"})
               \/ Pos = 74 /\ Executes({"user"}, {})
               \/ Pos = 16 /\ MovesData
               \/ Pos = 82 /\ made' = made \cup {"lsc"} /\ MakesOnly
               \/ Pos \in {73, 123} /\ ((made' = made \ {"conf"} /\ MakesOnly) \/ Skips)
               \/ Pos = 111 /\ made' = made \ {"lsc"} /\ MakesOnly
  <2>1. CASE Pos \in {71, 121}
    BY <1>9, <1>19, <2>1
  <2>2. CASE Pos \in {72, 122}
    BY <1>10, <1>19, <2>2
  <2>3. CASE Pos \in {16, 74, 82}
    BY <1>11, <1>12, <1>13, <1>19, <2>3
  <2>4. CASE Pos \in {73, 123, 111}
    BY <1>14, <1>15, <1>19, <2>4
  <2> QED
    BY <1>19, <2>1, <2>2, <2>3, <2>4
<1> QED
  BY <1>7, <1>8, <1>16, <1>17, <1>18, <1>19, Zenon DEF DataStep

(* What a step does to one file, and to its backup. *)
FileAt(p, o, save, change, back) ==
  \/ /\ content'[p] = content[p] /\ saved'[<<p, o>>] = saved[<<p, o>>]
     /\ Pos \in {save, back} \cup change => Abandons
  \/ Pos = save /\ Forth /\ content'[p] = content[p] /\ saved'[<<p, o>>] = content[p]
  \/ Pos \in change /\ Forth /\ content'[p] = "test" /\ saved'[<<p, o>>] = saved[<<p, o>>]
  \/ /\ Pos = back /\ Forth /\ saved[<<p, o>>] # NotSaved /\ content'[p] = saved[<<p, o>>]
     /\ saved'[<<p, o>>] = NotSaved
  \/ Pos = 171 /\ Pos' > 171 /\ content'[p] = content[p] /\ saved'[<<p, o>>] = NotSaved

(* A step does nothing else to a file and to its backup. *)
LEMMA OneFile ==
  ASSUME TypeOK, FileStep
  PROVE  /\ FileAt("munge.key", "munge", 33, {34}, 143)
         /\ FileAt("xrootd.cfg", "xrootd", 44, {45, 53}, 132)
         /\ FileAt("scitokens.conf", "xrootd", 51, {52}, 133)
         /\ FileAt("vomses", "voms", 84, {86}, 112)
<1>1. /\ content \in [Path -> Content] /\ saved \in [Path \X Owner -> Content \cup {NotSaved}]
      /\ {"munge.key", "xrootd.cfg", "scitokens.conf", "vomses"} \subseteq Path
      /\ <<"munge.key", "munge">> \in Path \X Owner /\ <<"xrootd.cfg", "xrootd">> \in Path \X Owner
      /\ <<"scitokens.conf", "xrootd">> \in Path \X Owner /\ <<"vomses", "voms">> \in Path \X Owner
  BY DEF TypeOK, Path, Owner
<1>2. FileAt("munge.key", "munge", 33, {34}, 143)
  BY <1>1 DEF FileStep, FileAt, Saves, Changes, PutsBack, FileLines
<1>3. FileAt("xrootd.cfg", "xrootd", 44, {45, 53}, 132)
  BY <1>1 DEF FileStep, FileAt, Saves, Changes, PutsBack, FileLines
<1>4. FileAt("scitokens.conf", "xrootd", 51, {52}, 133)
  BY <1>1 DEF FileStep, FileAt, Saves, Changes, PutsBack, FileLines
<1>5. FileAt("vomses", "voms", 84, {86}, 112)
  BY <1>1 DEF FileStep, FileAt, Saves, Changes, PutsBack, FileLines
<1> QED
  BY <1>2, <1>3, <1>4, <1>5

(* What excuses once does so for good. *)
LEMMA Excuses ==
  ASSUME PcOK, PcOK', Moves, NEW T
  PROVE  /\ Excuse(T) \/ Cut \/ (Raised /\ pc.test \in T) => Excuse(T)'
BY Onward DEF Excuse, Cut, Raised

(* VomsesInv is kept. *)
LEMMA VomsesOK ==
  ASSUME PcOK, PcOK', TypeOK, VomsesInv, Moves, FileStep
  PROVE  VomsesInv'
<1>1. OnPlan /\ OnPlan'
  BY PlanPos
<1>2. (Stays => Pos' = Pos) /\ Pos <= Pos'
  BY Onward
<1>3. Excuse({8, 11}) \/ Cut \/ (Raised /\ pc.test \in {8, 11}) => Excuse({8, 11})'
  BY Excuses
<1>4. FileAt("vomses", "voms", 84, {86}, 112) /\ OwnerOf["vomses"] = "voms"
  BY OneFile DEF OwnerOf, Path
<1> USE DEF VomsesInv, Held
<1>5. Pos' <= 85 => content'["vomses"] = "found"
  BY <1>1, <1>2, <1>4 DEF OnPlan, FileAt, Forth, OnTo, LastLines
<1>6. ASSUME ~Excuse({8, 11})', Pos' \in 85..112
      PROVE  Held("vomses")'
  <2>1. Pos \in 85..112 \/ (Pos = 84 /\ Forth)
    BY <1>1, <1>2, <1>3, <1>6 DEF OnPlan, Moves, Raised, Forth, OnTo, LastLines, Past
  <2> QED
    BY <1>1, <1>2, <1>3, <1>4, <1>6, <2>1 DEF OnPlan, FileAt, Abandons, Raised,
       Forth, OnTo, LastLines
<1>7. ASSUME ~Excuse({8, 11})', Pos' > 112
      PROVE  content'["vomses"] = "found"
  <2>1. Pos > 112 \/ (Pos = 112 /\ Forth)
    BY <1>1, <1>2, <1>3, <1>7 DEF OnPlan, Moves, Raised, Forth, OnTo, LastLines, Past
  <2> QED
    BY <1>1, <1>2, <1>3, <1>4, <1>7, <2>1 DEF OnPlan, FileAt, Abandons, Raised,
       Forth, OnTo, LastLines
<1> QED
  BY <1>5, <1>6, <1>7

(* CfgInv and SciInv are kept. *)
LEMMA XrootdFilesOK ==
  ASSUME PcOK, PcOK', TypeOK, CfgInv, SciInv, Moves, FileStep, StateStep
  PROVE  CfgInv' /\ SciInv'
<1>1. OnPlan /\ OnPlan'
  BY PlanPos
<1>2. (Stays => Pos' = Pos) /\ Pos <= Pos'
  BY Onward
<1>3. Excuse({4, 5, 13}) \/ Cut \/ (Raised /\ pc.test \in {4, 5, 13}) => Excuse({4, 5, 13})'
  BY Excuses
<1>4. /\ FileAt("xrootd.cfg", "xrootd", 44, {45, 53}, 132) /\ OwnerOf["xrootd.cfg"] = "xrootd"
      /\ FileAt("scitokens.conf", "xrootd", 51, {52}, 133) /\ OwnerOf["scitokens.conf"] = "xrootd"
  BY OneFile DEF OwnerOf, Path
<1>5. state \in [Key -> {"no", "yes"}] /\ "xrootd.backups-exist" \in Key
  BY DEF TypeOK, Key
<1> USE DEF CfgInv, SciInv, Held
<1>6. Pos' <= 45 => content'["xrootd.cfg"] = "found"
  BY <1>1, <1>2, <1>4 DEF OnPlan, FileAt, Forth, OnTo, LastLines
<1>7. ASSUME ~Excuse({4, 5, 13})', Pos' \in 45..132
      PROVE  Held("xrootd.cfg")'
  <2>1. Pos \in 45..132 \/ (Pos = 44 /\ Forth)
    BY <1>1, <1>2, <1>3, <1>7 DEF OnPlan, Moves, Raised, Forth, OnTo, LastLines, Past
  <2> QED
    BY <1>1, <1>2, <1>3, <1>4, <1>7, <2>1 DEF OnPlan, FileAt, Abandons, Raised,
       Forth, OnTo, LastLines
<1>8. ASSUME ~Excuse({4, 5, 13})', Pos' \in 48..131
      PROVE  state'["xrootd.backups-exist"] = "yes"
  <2>1. Pos \in 48..131 \/ (Pos = 47 /\ Forth)
    BY <1>1, <1>2, <1>3, <1>8 DEF OnPlan, Moves, Raised, Forth, OnTo, LastLines, Past
  <2> QED
    BY <1>1, <1>2, <1>3, <1>5, <1>8, <2>1 DEF OnPlan, StateStep, SetTo, SetLines,
       Abandons, Raised, Forth, OnTo, LastLines
<1>9. ASSUME ~Excuse({4, 5, 13})', Pos' > 132
      PROVE  content'["xrootd.cfg"] = "found"
  <2>1. Pos > 132 \/ (Pos = 132 /\ Forth)
    BY <1>1, <1>2, <1>3, <1>9 DEF OnPlan, Moves, Raised, Forth, OnTo, LastLines,
       Past, Yes
  <2> QED
    BY <1>1, <1>2, <1>3, <1>4, <1>9, <2>1 DEF OnPlan, FileAt, Abandons, Raised,
       Forth, OnTo, LastLines
<1>10. Pos' <= 52 => content'["scitokens.conf"] = "found"
  BY <1>1, <1>2, <1>4 DEF OnPlan, FileAt, Forth, OnTo, LastLines
<1>11. ASSUME ~Excuse({4, 5, 13})', Pos' \in 52..133
      PROVE  Held("scitokens.conf")'
  <2>1. Pos \in 52..133 \/ (Pos = 51 /\ Forth)
    BY <1>1, <1>2, <1>3, <1>11 DEF OnPlan, Moves, Raised, Forth, OnTo, LastLines, Past
  <2> QED
    BY <1>1, <1>2, <1>3, <1>4, <1>11, <2>1 DEF OnPlan, FileAt, Abandons, Raised,
       Forth, OnTo, LastLines
<1>12. ASSUME ~Excuse({4, 5, 13})', Pos' > 133
      PROVE  content'["scitokens.conf"] = "found"
  <2>1. Pos > 133 \/ (Pos = 133 /\ Forth)
    BY <1>1, <1>2, <1>3, <1>12 DEF OnPlan, Moves, Raised, Forth, OnTo, LastLines,
       Past, Yes
  <2> QED
    BY <1>1, <1>2, <1>3, <1>4, <1>12, <2>1 DEF OnPlan, FileAt, Abandons, Raised,
       Forth, OnTo, LastLines
<1> QED
  BY <1>6, <1>7, <1>8, <1>9, <1>10, <1>11, <1>12

(* KeyInv is kept. *)
LEMMA KeyOK ==
  ASSUME PcOK, PcOK', TypeOK, KeyInv, Moves, FileStep, \A s \in Services : ServiceStep(s)
  PROVE  KeyInv'
<1>1. OnPlan /\ OnPlan'
  BY PlanPos
<1>2. (Stays => Pos' = Pos) /\ Pos <= Pos'
  BY Onward
<1>3. Excuse({3, 14}) \/ Cut \/ (Raised /\ pc.test \in {3, 14}) => Excuse({3, 14})'
  BY Excuses
<1>4. FileAt("munge.key", "munge", 33, {34}, 143) /\ OwnerOf["munge.key"] = "munge"
  BY OneFile DEF OwnerOf, Path
<1>5. Serves("munge", {36}, {142})
  BY DEF Services, ServiceStep, StartLine, StopLine
<1>6. /\ content["munge.key"] \in {"found", "test"}
      /\ saved[<<"munge.key", "munge">>] \in {"found", "test", NotSaved}
  BY DEF TypeOK, Path, Owner, Content
<1> USE DEF KeyInv, Held
<1>7. Pos' <= 34 => content'["munge.key"] = "found"
  BY <1>1, <1>2, <1>4 DEF OnPlan, FileAt, Forth, OnTo, LastLines
<1>8. saved'[<<"munge.key", "munge">>] # "test"
  BY <1>4 DEF FileAt, NotSaved
<1>9. ASSUME ~Excuse({3, 14})', Pos' \in 34..36
      PROVE  Held("munge.key")'
  <2>1. Pos \in 34..36 \/ (Pos = 33 /\ Forth)
    BY <1>1, <1>2, <1>3, <1>9 DEF OnPlan, Moves, Raised, Forth, OnTo, LastLines, Past
  <2> QED
    BY <1>1, <1>2, <1>3, <1>4, <1>9, <2>1 DEF OnPlan, FileAt, Abandons, Raised,
       Forth, OnTo, LastLines
<1>10. ASSUME ~Excuse({3, 14})', Pos' \in 41..141
       PROVE  content'["munge.key"] = "found" \/ (Held("munge.key")' /\ started'["munge"])
  <2>1. Pos \in 41..141 \/ (Pos = 36 /\ Forth) \/ Pos = 32
    BY <1>1, <1>2, <1>3, <1>10 DEF OnPlan, Moves, Raised, Forth, OnTo, LastLines, Past
  <2>2. /\ content'["munge.key"] = content["munge.key"]
        /\ saved'[<<"munge.key", "munge">>] = saved[<<"munge.key", "munge">>]
    BY <2>1, <1>4 DEF FileAt
  <2>3. Pos \in 41..141 => started'["munge"] = started["munge"]
    BY <1>5 DEF Serves, Lasts, Leaves, Same
  <2>4. Pos = 36 /\ Forth => started'["munge"]
    BY <1>1, <1>2, <1>3, <1>5, <1>10 DEF Serves, Lasts, Leaves, Cut, Raised, Forth,
       OnTo, LastLines, OnPlan
  <2> QED
    BY <1>3, <1>4, <1>10, <2>1, <2>2, <2>3, <2>4
<1>11. ASSUME ~Excuse({3, 14})', Pos' \in 142..143
       PROVE  content'["munge.key"] = "found" \/ Held("munge.key")'
  <2>1. Pos \in 141..143 /\ ~(Pos = 143 /\ Forth)
    BY <1>1, <1>2, <1>3, <1>11 DEF OnPlan, Moves, Raised, Forth, OnTo, LastLines, Past
  <2> QED
    BY <1>3, <1>4, <1>11, <2>1 DEF FileAt
<1>12. ASSUME ~Excuse({3, 14})', Pos' > 143
       PROVE  content'["munge.key"] = "found"
  <2>1. Pos > 143 \/ (Pos = 143 /\ Forth) \/ (Pos = 141 /\ ~started["munge"])
    BY <1>1, <1>2, <1>3, <1>12 DEF OnPlan, Moves, Raised, Forth, OnTo, LastLines, Past
  <2> QED
    BY <1>1, <1>2, <1>3, <1>4, <1>6, <1>12, <2>1 DEF OnPlan, FileAt, Abandons,
       Raised, Forth, OnTo, LastLines
<1> QED
  BY <1>7, <1>8, <1>9, <1>10, <1>11, <1>12

(* The key comes back only while munge is down. *)
LEMMA KeyStep ==
  ASSUME PcOK, TypeOK, DownInv, FileStep
  PROVE  content["munge.key"] = "test" /\ content'["munge.key"] = "found" => daemon["munge"] = "dead"
<1>1. FileAt("munge.key", "munge", 33, {34}, 143)
  BY OneFile
<1> QED
  BY <1>1 DEF FileAt, DownInv

(* MariadbInv is kept. *)
LEMMA MariadbOK ==
  ASSUME PcOK, PcOK', TypeOK, MariadbInv, DownInv, Moves, RestStep,
         ServiceStep("mariadb"), died \subseteq died'
  PROVE  MariadbInv'
<1>1. OnPlan /\ OnPlan'
  BY PlanPos
<1>2. (Stays => Pos' = Pos) /\ Pos <= Pos'
  BY Onward
<1>3. Excuse({2, 15}) \/ Cut \/ (Raised /\ pc.test \in {2, 15}) => Excuse({2, 15})'
  BY Excuses
<1>4. Serves("mariadb", {13, 21}, {15, 151}) /\ ran' = ran
  BY DEF ServiceStep, StartLine, StopLine, RestStep
<1>5. daemon["mariadb"] \in {"dead", "starting", "running"} /\ state \in [Key -> {"no", "yes"}]
      /\ {"xrootd.is-configured", "xrootd.service-was-running", "voms.started-server"} \subseteq Key
  BY ServiceAssumption DEF TypeOK, ServiceTypeOK, Services, Key
<1> USE DEF MariadbInv, DownInv, Waited
<1>6. ASSUME ~Excuse({2, 15})', Pos' > 151
      PROVE  daemon'["mariadb"] = "dead"
  <2>1. Pos > 151 \/ (Pos = 151 /\ Forth)
    BY <1>1, <1>2, <1>3, <1>6 DEF OnPlan, Moves, Raised, Forth, OnTo, LastLines,
       Past, Yes
  <2>2. 2 \notin failed
    BY <1>3, <1>6 DEF Excuse
  <2> QED
    BY <1>1, <1>2, <1>3, <1>4, <1>6, <2>1, <2>2 DEF OnPlan, Serves, Lasts, Leaves,
       Cut, Raised, Forth, OnTo, LastLines, Same
<1> QED
  BY <1>6

(* MungeInv is kept. *)
LEMMA MungeOK ==
  ASSUME PcOK, PcOK', TypeOK, MungeInv, DownInv, Moves, RestStep,
         ServiceStep("munge"), died \subseteq died'
  PROVE  MungeInv'
<1>1. OnPlan /\ OnPlan'
  BY PlanPos
<1>2. (Stays => Pos' = Pos) /\ Pos <= Pos'
  BY Onward
<1>3. Excuse({3, 14}) \/ Cut \/ (Raised /\ pc.test \in {3, 14}) => Excuse({3, 14})'
  BY Excuses
<1>4. Serves("munge", {36}, {142}) /\ ran' = ran
  BY DEF ServiceStep, StartLine, StopLine, RestStep
<1>5. daemon["munge"] \in {"dead", "starting", "running"} /\ state \in [Key -> {"no", "yes"}]
      /\ {"xrootd.is-configured", "xrootd.service-was-running", "voms.started-server"} \subseteq Key
  BY ServiceAssumption DEF TypeOK, ServiceTypeOK, Services, Key
<1> USE DEF MungeInv, DownInv, Waited, Fine, Gone
<1>6. ASSUME Pos' <= 35
      PROVE  daemon'["munge"] # "starting" /\ Fine("munge")'
  <2>1. Pos <= 35
    BY <1>1, <1>2, <1>3, <1>6 DEF OnPlan, Moves, Cut, Raised, Forth, OnTo,
       LastLines, Past, Yes
  <2> QED
    BY <1>1, <1>2, <1>3, <1>4, <1>5, <1>6, <2>1 DEF OnPlan, Serves, Lasts, Leaves,
       Cut, Raised, Forth, OnTo, LastLines, Same
<1>7. ASSUME ~Excuse({3, 14})', Pos' = 32
      PROVE  ~started'["munge"]
  <2>1. Pos = 32 \/ (Pos = 31 /\ Forth)
    BY <1>1, <1>2, <1>3, <1>7 DEF OnPlan, Moves, Raised, Forth, OnTo, LastLines,
       Past, Yes
  <2> QED
    BY <1>1, <1>2, <1>3, <1>4, <1>5, <1>7, <2>1 DEF OnPlan, Serves, Lasts, Leaves,
       Cut, Raised, Forth, OnTo, LastLines, Same
<1>8. ASSUME ~Excuse({3, 14})', Pos' \in 33..36
      PROVE  Gone("munge")'
  <2>1. Pos \in 33..36 \/ (Pos = 32 /\ Forth /\ Holds)
    BY <1>1, <1>2, <1>3, <1>8 DEF OnPlan, Moves, Raised, Forth, OnTo, LastLines,
       Past, Yes
  <2> QED
    BY <1>1, <1>2, <1>3, <1>4, <1>5, <1>8, <2>1 DEF OnPlan, Serves, Lasts, Leaves,
       Cut, Raised, Forth, OnTo, LastLines, Same, Holds
<1>9. ASSUME ~Excuse({3, 14})', Pos' \in 41..141
      PROVE  IF started'["munge"] THEN Gone("munge")' ELSE Fine("munge")'
  <2>1. Pos \in 41..141 \/ (Pos = 36 /\ Forth) \/ Pos = 32
    BY <1>1, <1>2, <1>3, <1>9 DEF OnPlan, Moves, Raised, Forth, OnTo, LastLines,
       Past, Yes
  <2> QED
    BY <1>1, <1>2, <1>3, <1>4, <1>5, <1>9, <2>1 DEF OnPlan, Serves, Lasts, Leaves,
       Cut, Raised, Forth, OnTo, LastLines, Same
<1>10. ASSUME ~Excuse({3, 14})', Pos' \in 142..143
      PROVE  Gone("munge")'
  <2>1. Pos \in 142..143 \/ (Pos = 141 /\ Forth /\ Holds)
    BY <1>1, <1>2, <1>3, <1>10 DEF OnPlan, Moves, Raised, Forth, OnTo, LastLines,
       Past, Yes
  <2> QED
    BY <1>1, <1>2, <1>3, <1>4, <1>5, <1>10, <2>1 DEF OnPlan, Serves, Lasts, Leaves,
       Cut, Raised, Forth, OnTo, LastLines, Same, Holds
<1>11. ASSUME ~Excuse({3, 14})', Pos' > 143
      PROVE  Fine("munge")'
  <2>1. Pos > 143 \/ (Pos = 143 /\ Forth) \/ (Pos = 141 /\ ~started["munge"])
    BY <1>1, <1>2, <1>3, <1>11 DEF OnPlan, Moves, Raised, Forth, OnTo, LastLines,
       Past, Yes
  <2> QED
    BY <1>1, <1>2, <1>3, <1>4, <1>5, <1>11, <2>1 DEF OnPlan, Serves, Lasts, Leaves,
       Cut, Raised, Forth, OnTo, LastLines, Same
<1> QED
  BY <1>6, <1>7, <1>8, <1>9, <1>10, <1>11

(* VomsInv is kept. *)
LEMMA VomsOK ==
  ASSUME PcOK, PcOK', TypeOK, VomsInv, DownInv, StateStep, Moves, RestStep,
         ServiceStep("voms"), died \subseteq died'
  PROVE  VomsInv'
<1>1. OnPlan /\ OnPlan'
  BY PlanPos
<1>2. (Stays => Pos' = Pos) /\ Pos <= Pos'
  BY Onward
<1>3. Excuse({9, 10}) \/ Cut \/ (Raised /\ pc.test \in {9, 10}) => Excuse({9, 10})'
  BY Excuses
<1>4. Serves("voms", {92}, {102}) /\ ran' = ran
  BY DEF ServiceStep, StartLine, StopLine, RestStep
<1>5. daemon["voms"] \in {"dead", "starting", "running"} /\ state \in [Key -> {"no", "yes"}]
      /\ {"xrootd.is-configured", "xrootd.service-was-running", "voms.started-server"} \subseteq Key
  BY ServiceAssumption DEF TypeOK, ServiceTypeOK, Services, Key
<1> USE DEF VomsInv, DownInv, Waited
<1>6. ASSUME Pos' <= 91
      PROVE  daemon'["voms"] = "dead"
  <2>1. Pos <= 91
    BY <1>1, <1>2, <1>3, <1>6 DEF OnPlan, Moves, Cut, Raised, Forth, OnTo,
       LastLines, Past, Yes
  <2> QED
    BY <1>1, <1>2, <1>3, <1>4, <1>5, <1>6, <2>1 DEF OnPlan, Serves, Lasts, Leaves,
       Cut, Raised, Forth, OnTo, LastLines, Same
<1>7. ASSUME ~Excuse({9, 10})', Pos' = 101
      PROVE  state'["voms.started-server"] = "yes"
  <2>1. Pos = 101 \/ (Pos = 93 /\ Forth)
    BY <1>1, <1>2, <1>3, <1>7 DEF OnPlan, Moves, Raised, Forth, OnTo, LastLines,
       Past, Yes
  <2> QED
    BY <1>1, <1>2, <1>3, <1>4, <1>5, <1>7, <2>1 DEF OnPlan, Serves, Lasts, Leaves,
       Cut, Raised, Forth, OnTo, LastLines, Same, StateStep, SetTo, SetLines,
       Abandons
<1>8. ASSUME ~Excuse({9, 10})', Pos' > 102
      PROVE  daemon'["voms"] = "dead"
  <2>1. Pos > 102 \/ (Pos = 102 /\ Forth)
    BY <1>1, <1>2, <1>3, <1>8 DEF OnPlan, Moves, Raised, Forth, OnTo, LastLines,
       Past, Yes
  <2> QED
    BY <1>1, <1>2, <1>3, <1>4, <1>5, <1>8, <2>1 DEF OnPlan, Serves, Lasts, Leaves,
       Cut, Raised, Forth, OnTo, LastLines, Same
<1>9. "voms" \notin ran'
  BY <1>4
<1> QED
  BY <1>6, <1>7, <1>8, <1>9

(* XrootdInv is kept. *)
LEMMA XrootdOK ==
  ASSUME PcOK, PcOK', TypeOK, XrootdInv, DownInv, StateStep, Moves, RestStep,
         ServiceStep("xrootd"), died \subseteq died'
  PROVE  XrootdInv'
<1>1. OnPlan /\ OnPlan'
  BY PlanPos
<1>2. (Stays => Pos' = Pos) /\ Pos <= Pos'
  BY Onward
<1>3. Excuse({6, 13}) \/ Cut \/ (Raised /\ pc.test \in {6, 13}) => Excuse({6, 13})'
  BY Excuses
<1>4. Serves("xrootd", {66, 138}, {65, 136}) /\ ran' = ran
  BY DEF ServiceStep, StartLine, StopLine, RestStep
<1>5. daemon["xrootd"] \in {"dead", "starting", "running"} /\ state \in [Key -> {"no", "yes"}]
      /\ {"xrootd.is-configured", "xrootd.service-was-running", "voms.started-server"} \subseteq Key
  BY ServiceAssumption DEF TypeOK, ServiceTypeOK, Services, Key
<1>6. /\ \/ state'["xrootd.is-configured"] = state["xrootd.is-configured"]
          \/ (Pos = 41 /\ Forth) \/ (Pos = 48 /\ Forth)
       /\ \/ state'["xrootd.service-was-running"] = state["xrootd.service-was-running"]
             /\ (Pos \in {62, 64} => Abandons)
          \/ Pos = 62 /\ Forth /\ state'["xrootd.service-was-running"] = "no"
          \/ Pos = 64 /\ Forth /\ state'["xrootd.service-was-running"] = "yes"
  BY <1>5 DEF StateStep, SetTo, SetLines
<1> USE DEF XrootdInv, DownInv, Waited, Fine, Gone
<1>7. ASSUME Pos' <= 65
      PROVE  daemon'["xrootd"] # "starting"
  <2>1. Pos <= 65
    BY <1>1, <1>2, <1>3, <1>7 DEF OnPlan, Moves, Cut, Raised, Forth, OnTo,
       LastLines, Past, Yes
  <2> QED
    BY <1>1, <1>2, <1>3, <1>4, <1>5, <1>6, <1>7, <2>1 DEF OnPlan, Serves, Lasts,
       Leaves, Cut, Raised, Forth, OnTo, LastLines, Same
<1>8. ASSUME Pos' <= 64
      PROVE  Fine("xrootd")' /\ state'["xrootd.service-was-running"] = "no"
  <2>1. Pos <= 64 /\ ~(Pos = 64 /\ Forth)
    BY <1>1, <1>2, <1>3, <1>8 DEF OnPlan, Moves, Cut, Raised, Forth, OnTo,
       LastLines, Past, Yes
  <2> QED
    BY <1>1, <1>2, <1>3, <1>4, <1>5, <1>6, <1>8, <2>1 DEF OnPlan, Serves, Lasts,
       Leaves, Cut, Raised, Forth, OnTo, LastLines, Same, Abandons
<1>9. ASSUME ~Excuse({6, 13})', Pos' = 64
      PROVE  "xrootd" \in ran'
  <2>1. Pos = 64 \/ (Pos = 63 /\ Forth /\ Holds)
    BY <1>1, <1>2, <1>3, <1>9 DEF OnPlan, Moves, Raised, Forth, OnTo, LastLines,
       Past, Yes
  <2> QED
    BY <1>1, <1>2, <1>3, <1>4, <1>5, <1>6, <1>9, <2>1 DEF OnPlan, Serves, Lasts,
       Leaves, Cut, Raised, Forth, OnTo, LastLines, Same, Holds
<1>10. ASSUME ~Excuse({6, 13})', Pos' \in 65..66
      PROVE  IF state'["xrootd.service-was-running"] = "yes" THEN "xrootd" \in ran' ELSE Gone("xrootd")'
  <2>1. Pos \in 65..66 \/ (Pos = 64 /\ Forth) \/ (Pos = 63 /\ daemon["xrootd"] # "running")
    BY <1>1, <1>2, <1>3, <1>10 DEF OnPlan, Moves, Raised, Forth, OnTo, LastLines,
       Past, Yes
  <2> QED
    BY <1>1, <1>2, <1>3, <1>4, <1>5, <1>6, <1>10, <2>1 DEF OnPlan, Serves, Lasts,
       Leaves, Cut, Raised, Forth, OnTo, LastLines, Same, Abandons
<1>11. ASSUME ~Excuse({6, 13})', Pos' \in 71..137, state'["xrootd.is-configured"] = "yes"
      PROVE  /\ IF state'["xrootd.service-was-running"] = "yes" THEN "xrootd" \in ran'
                                                                 ELSE Gone("xrootd")'
             /\ daemon'["xrootd"] # "starting"
  <2>1. Pos \in 71..137 \/ (Pos = 66 /\ Forth) \/ (Pos = 61 /\ ~Yes("xrootd.is-configured"))
    BY <1>1, <1>2, <1>3, <1>11 DEF OnPlan, Moves, Raised, Forth, OnTo, LastLines,
       Past, Yes
  <2> QED
    BY <1>1, <1>2, <1>3, <1>4, <1>5, <1>6, <1>11, <2>1 DEF OnPlan, Serves, Lasts,
       Leaves, Cut, Raised, Forth, OnTo, LastLines, Same, Abandons, Yes
<1>12. ASSUME ~Excuse({6, 13})', Pos' \in 71..134, state'["xrootd.is-configured"] = "no"
      PROVE  Fine("xrootd")'
  <2>1. Pos \in 71..134 \/ (Pos = 66 /\ Forth) \/ (Pos = 61 /\ ~Yes("xrootd.is-configured"))
    BY <1>1, <1>2, <1>3, <1>12 DEF OnPlan, Moves, Raised, Forth, OnTo, LastLines,
       Past, Yes
  <2> QED
    BY <1>1, <1>2, <1>3, <1>4, <1>5, <1>6, <1>12, <2>1 DEF OnPlan, Serves, Lasts,
       Leaves, Cut, Raised, Forth, OnTo, LastLines, Same, Abandons, Yes
<1>13. ASSUME ~Excuse({6, 13})', Pos' \in 135..137
      PROVE  state'["xrootd.is-configured"] = "yes"
  <2>1. Pos \in 135..137 \/ (Pos = 134 /\ Forth /\ Holds)
    BY <1>1, <1>2, <1>3, <1>13 DEF OnPlan, Moves, Raised, Forth, OnTo, LastLines,
       Past, Yes
  <2> QED
    BY <1>1, <1>2, <1>3, <1>4, <1>5, <1>6, <1>13, <2>1 DEF OnPlan, Serves, Lasts,
       Leaves, Cut, Raised, Forth, OnTo, LastLines, Same, Holds, Yes
<1>14. ASSUME ~Excuse({6, 13})', Pos' = 137
      PROVE  daemon'["xrootd"] = "dead"
  <2>1. Pos = 137 \/ (Pos = 136 /\ Forth) \/ (Pos = 135 /\ daemon["xrootd"] # "running")
    BY <1>1, <1>2, <1>3, <1>14 DEF OnPlan, Moves, Raised, Forth, OnTo, LastLines,
       Past, Yes
  <2> QED
    BY <1>1, <1>2, <1>3, <1>4, <1>5, <1>6, <1>14, <2>1 DEF OnPlan, Serves, Lasts,
       Leaves, Cut, Raised, Forth, OnTo, LastLines, Same
<1>15. ASSUME ~Excuse({6, 13})', Pos' = 138
      PROVE  "xrootd" \in ran'
  <2>1. Pos = 138 \/ (Pos = 137 /\ Forth /\ Holds)
    BY <1>1, <1>2, <1>3, <1>15 DEF OnPlan, Moves, Raised, Forth, OnTo, LastLines,
       Past, Yes
  <2> QED
    BY <1>1, <1>2, <1>3, <1>4, <1>5, <1>6, <1>15, <2>1 DEF OnPlan, Serves, Lasts,
       Leaves, Cut, Raised, Forth, OnTo, LastLines, Same, Holds, Yes
<1>16. ASSUME ~Excuse({6, 13})', Pos' > 138
      PROVE  Fine("xrootd")'
  <2>1. \/ Pos > 138 \/ (Pos = 138 /\ Forth)
        \/ Pos = 137 /\ ~Yes("xrootd.service-was-running")
        \/ Pos = 134 /\ ~Yes("xrootd.is-configured")
    BY <1>1, <1>2, <1>3, <1>16 DEF OnPlan, Moves, Raised, Forth, OnTo, LastLines,
       Past, Yes
  <2> QED
    BY <1>1, <1>2, <1>3, <1>4, <1>5, <1>6, <1>16, <2>1 DEF OnPlan, Serves, Lasts,
       Leaves, Cut, Raised, Forth, OnTo, LastLines, Same, Yes
<1>17. ASSUME ~Excuse({6, 13})', Pos' \in 62..66
       PROVE  state'["xrootd.is-configured"] = "yes"
  <2>1. Pos \in 62..66 \/ (Pos = 61 /\ Forth /\ Holds)
    BY <1>1, <1>2, <1>3, <1>17 DEF OnPlan, Moves, Raised, Forth, OnTo, LastLines,
       Past, Yes
  <2> QED
    BY <1>1, <1>2, <1>3, <1>6, <1>17, <2>1 DEF Holds, Yes
<1> QED
  BY <1>4, <1>7, <1>8, <1>9, <1>10, <1>11, <1>12, <1>13, <1>14, <1>15, <1>16, <1>17

--------------------------------------------------------------------------------
(* The theorems.                                                           *)

(* A test that has a statement with this argument has to do with it. *)
LEMMA Mentioned ==
  ASSUME NEW i \in 1..17, NEW j \in DOMAIN Plan[i], NEW field \in DOMAIN Plan[i][j], NEW x,
         Plan[i][j][field] = x
  PROVE  i \in Mentions(field, x)
BY PlanLength DEF Mentions, Test

(* The tests that have to do with an owner of files, and with a service.   *)
LEMMA Mentioning ==
  /\ {4, 5, 13} \subseteq Mentions("owner", "xrootd")
  /\ {3, 14} \subseteq Mentions("owner", "munge") /\ {8, 11} \subseteq Mentions("owner", "voms")
  /\ {2, 15} \subseteq Mentions("svc", "mariadb") /\ {3, 14} \subseteq Mentions("svc", "munge")
  /\ {9, 10} \subseteq Mentions("svc", "voms") /\ {6, 13} \subseteq Mentions("svc", "xrootd")
<1>1. 4 \in Mentions("owner", "xrootd")
  <2>1. 4 \in DOMAIN Plan[4] /\ Plan[4][4] = Preserve("xrootd.cfg", "xrootd")
    BY Tests, ConfigureXrootdLines
  <2>2. /\ "owner" \in DOMAIN Preserve("xrootd.cfg", "xrootd")
        /\ Preserve("xrootd.cfg", "xrootd").owner = "xrootd"
    BY DEF Preserve
  <2> QED
    BY <2>1, <2>2, Mentioned
<1>2. 5 \in Mentions("owner", "xrootd")
  <2>1. 1 \in DOMAIN Plan[5] /\ Plan[5][1] = Preserve("scitokens.conf", "xrootd")
    BY Tests, ConfigureScitokensLines
  <2>2. /\ "owner" \in DOMAIN Preserve("scitokens.conf", "xrootd")
        /\ Preserve("scitokens.conf", "xrootd").owner = "xrootd"
    BY DEF Preserve
  <2> QED
    BY <2>1, <2>2, Mentioned
<1>3. 13 \in Mentions("owner", "xrootd")
  <2>1. 2 \in DOMAIN Plan[13] /\ Plan[13][2] = Restore("xrootd.cfg", "xrootd")
    BY Tests, StopXrootdLines DEF StopXrootd
  <2>2. /\ "owner" \in DOMAIN Restore("xrootd.cfg", "xrootd")
        /\ Restore("xrootd.cfg", "xrootd").owner = "xrootd"
    BY DEF Restore
  <2> QED
    BY <2>1, <2>2, Mentioned
<1>4. 3 \in Mentions("owner", "munge")
  <2>1. 3 \in DOMAIN Plan[3] /\ Plan[3][3] = Preserve("munge.key", "munge")
    BY Tests, StartMungeLines DEF StartMunge
  <2>2. /\ "owner" \in DOMAIN Preserve("munge.key", "munge")
        /\ Preserve("munge.key", "munge").owner = "munge"
    BY DEF Preserve
  <2> QED
    BY <2>1, <2>2, Mentioned
<1>5. 14 \in Mentions("owner", "munge")
  <2>1. 3 \in DOMAIN Plan[14] /\ Plan[14][3] = Restore("munge.key", "munge")
    BY Tests, StopMungeLines DEF StopMunge
  <2>2. /\ "owner" \in DOMAIN Restore("munge.key", "munge")
        /\ Restore("munge.key", "munge").owner = "munge"
    BY DEF Restore
  <2> QED
    BY <2>1, <2>2, Mentioned
<1>6. 8 \in Mentions("owner", "voms")
  <2>1. 4 \in DOMAIN Plan[8] /\ Plan[8][4] = Preserve("vomses", "voms")
    BY Tests, AdvertiseLines
  <2>2. /\ "owner" \in DOMAIN Preserve("vomses", "voms")
        /\ Preserve("vomses", "voms").owner = "voms"
    BY DEF Preserve
  <2> QED
    BY <2>1, <2>2, Mentioned
<1>7. 11 \in Mentions("owner", "voms")
  <2>1. 2 \in DOMAIN Plan[11] /\ Plan[11][2] = Restore("vomses", "voms")
    BY Tests, RestoreVomsesLines
  <2>2. /\ "owner" \in DOMAIN Restore("vomses", "voms")
        /\ Restore("vomses", "voms").owner = "voms"
    BY DEF Restore
  <2> QED
    BY <2>1, <2>2, Mentioned
<1>8. 2 \in Mentions("svc", "mariadb")
  <2>1. 1 \in DOMAIN Plan[2] /\ Plan[2][1] = ServiceCall("check_start", "mariadb", FALSE)
    BY Tests, StartMysqldLines DEF StartMysqld, mysql_start
  <2>2. /\ "svc" \in DOMAIN ServiceCall("check_start", "mariadb", FALSE)
        /\ ServiceCall("check_start", "mariadb", FALSE).svc = "mariadb"
    BY DEF ServiceCall
  <2>3. 1 \in DOMAIN Plan[2] /\ "svc" \in DOMAIN Plan[2][1] /\ Plan[2][1]["svc"] = "mariadb"
    BY <2>1, <2>2, Zenon
  <2> QED
    BY <2>3, Mentioned
<1>9. 15 \in Mentions("svc", "mariadb")
  <2>1. 1 \in DOMAIN Plan[15] /\ Plan[15][1] = ServiceCall("check_stop", "mariadb", FALSE)
    BY Tests, StopMysqldLines DEF StopMysqld, mysql_stop
  <2>2. /\ "svc" \in DOMAIN ServiceCall("check_stop", "mariadb", FALSE)
        /\ ServiceCall("check_stop", "mariadb", FALSE).svc = "mariadb"
    BY DEF ServiceCall
  <2>3. 1 \in DOMAIN Plan[15] /\ "svc" \in DOMAIN Plan[15][1] /\ Plan[15][1]["svc"] = "mariadb"
    BY <2>1, <2>2, Zenon
  <2> QED
    BY <2>3, Mentioned
<1>10. 3 \in Mentions("svc", "munge")
  <2>1. 1 \in DOMAIN Plan[3] /\ Plan[3][1] = ResetFlag("munge")
    BY Tests, StartMungeLines DEF StartMunge
  <2>2. "svc" \in DOMAIN ResetFlag("munge") /\ ResetFlag("munge").svc = "munge"
    BY DEF ResetFlag
  <2> QED
    BY <2>1, <2>2, Mentioned
<1>11. 14 \in Mentions("svc", "munge")
  <2>1. 1 \in DOMAIN Plan[14] /\ Plan[14][1] = SkipUnlessStarted("munge")
    BY Tests, StopMungeLines DEF StopMunge
  <2>2. /\ "svc" \in DOMAIN SkipUnlessStarted("munge")
        /\ SkipUnlessStarted("munge").svc = "munge"
    BY DEF SkipUnlessStarted
  <2> QED
    BY <2>1, <2>2, Mentioned
<1>12. 9 \in Mentions("svc", "voms")
  <2>1. 2 \in DOMAIN Plan[9] /\ Plan[9][2] = ServiceCall("check_start", "voms", FALSE)
    BY Tests, StartVomsLines DEF StartVoms
  <2>2. /\ "svc" \in DOMAIN ServiceCall("check_start", "voms", FALSE)
        /\ ServiceCall("check_start", "voms", FALSE).svc = "voms"
    BY DEF ServiceCall
  <2>3. 2 \in DOMAIN Plan[9] /\ "svc" \in DOMAIN Plan[9][2] /\ Plan[9][2]["svc"] = "voms"
    BY <2>1, <2>2, Zenon
  <2> QED
    BY <2>3, Mentioned
<1>13. 10 \in Mentions("svc", "voms")
  <2>1. 2 \in DOMAIN Plan[10] /\ Plan[10][2] = ServiceCall("check_stop", "voms", FALSE)
    BY Tests, StopVomsLines DEF StopVoms
  <2>2. /\ "svc" \in DOMAIN ServiceCall("check_stop", "voms", FALSE)
        /\ ServiceCall("check_stop", "voms", FALSE).svc = "voms"
    BY DEF ServiceCall
  <2>3. 2 \in DOMAIN Plan[10] /\ "svc" \in DOMAIN Plan[10][2] /\ Plan[10][2]["svc"] = "voms"
    BY <2>1, <2>2, Zenon
  <2> QED
    BY <2>3, Mentioned
<1>14. 6 \in Mentions("svc", "xrootd")
  <2>1. 3 \in DOMAIN Plan[6] /\ Plan[6][3] = IfRunning("xrootd", 2)
    BY Tests, StartXrootdLines DEF StartXrootd
  <2>2. /\ "svc" \in DOMAIN IfRunning("xrootd", 2)
        /\ IfRunning("xrootd", 2).svc = "xrootd"
    BY DEF IfRunning
  <2> QED
    BY <2>1, <2>2, Mentioned
<1>15. 13 \in Mentions("svc", "xrootd")
  <2>1. 5 \in DOMAIN Plan[13] /\ Plan[13][5] = IfRunning("xrootd", 1)
    BY Tests, StopXrootdLines DEF StopXrootd
  <2>2. /\ "svc" \in DOMAIN IfRunning("xrootd", 1)
        /\ IfRunning("xrootd", 1).svc = "xrootd"
    BY DEF IfRunning
  <2> QED
    BY <2>1, <2>2, Mentioned
<1> QED
  BY <1>1, <1>2, <1>3, <1>4, <1>5, <1>6, <1>7, <1>8, <1>9, <1>10, <1>11, <1>12, <1>13,
     <1>14, <1>15

(* The inductive invariant. *)
IInv ==
  /\ TypeOK /\ PcOK /\ CallInv /\ FlagInv /\ DownInv
  /\ DataInv /\ VoInv /\ KeyInv /\ CfgInv /\ SciInv /\ VomsesInv
  /\ MariadbInv /\ MungeInv /\ VomsInv /\ XrootdInv

(* The initial states satisfy the inductive invariant ... *)
LEMMA InitOK ==
  Init => IInv
<1> SUFFICES ASSUME Init
             PROVE  IInv
  OBVIOUS
<1> USE DEF Init, Store!Init
<1>1. pc.test = 1 /\ pc.line = 1 /\ pc \in [test : 1..18, line : 1..9]
  OBVIOUS
<1>2. Pos = 11 /\ PcOK
  BY <1>1, Sizes DEF Pos, PcOK
<1>3. TypeOK
  <2>1. ServiceTypeOK /\ ran \subseteq Service /\ died \subseteq Service
    BY ServiceAssumption DEF Services, ServiceTypeOK
  <2>2. content \in [Path -> Content] /\ saved \in [Path \X Owner -> Content \cup {NotSaved}]
    BY DEF Store!Pair, Content
  <2>3. FoundData \in Data /\ NewData \in Data
    BY Databases DEF Data, FoundData, NewData, Content
  <2>4. data \in Data \cup {NoData} /\ databackup \in Data \cup {NoData}
    BY <2>3
  <2>5. hadData \in BOOLEAN /\ backupmysql \in BOOLEAN /\ interrupted \in BOOLEAN
        /\ unnoticed \subseteq {"sql", "conf", "move"}
    OBVIOUS
  <2>6. pc \in [test : 1..(Len(Plan) + 1), line : 1..9]
    BY PlanLength
  <2>7. failed \subseteq Test /\ faults \in 0..MaxFaults
    BY ServiceAssumption
  <2>8. state \in [Key -> {"no", "yes"}] /\ made \subseteq {"lsc", "conf"}
    OBVIOUS
  <2> QED
    BY <2>1, <2>2, <2>4, <2>5, <2>6, <2>7, <2>8 DEF TypeOK
<1>4. /\ \A k \in Key : state[k] = "no"
      /\ \A p \in Path : content[p] = "found"
      /\ \A k \in Path \X Owner : saved[k] = NotSaved
      /\ \A s \in Service : daemon[s] = (IF s \in ran THEN "running" ELSE "dead") /\ started[s] = FALSE
      /\ call = NoCall
  BY DEF Store!Pair
<1>5. {"mariadb", "munge", "xrootd", "voms"} \subseteq Service
  BY ServiceAssumption DEF Services
<1>6. {"munge.key", "xrootd.cfg", "scitokens.conf", "vomses"} \subseteq Path
      /\ <<"munge.key", "munge">> \in Path \X Owner
  BY DEF Path, Owner
<1>7. {"xrootd.is-configured", "xrootd.backups-exist", "xrootd.service-was-running",
       "voms.started-server", "mysql.backup"} \subseteq Key
  BY DEF Key
<1>8. CallInv /\ FlagInv /\ DownInv
  BY <1>2, <1>4, <1>7 DEF CallInv, FlagInv, DownInv, Phase, Waited, Yes
<1>9. DataInv
  BY <1>2, <1>4, <1>5, <1>7 DEF DataInv, NoData, NewData, FoundData
<1>10. VoInv
  BY <1>2 DEF VoInv, NoData, NewData, FoundData
<1>11. KeyInv /\ CfgInv /\ SciInv /\ VomsesInv
  BY <1>2, <1>4, <1>6 DEF KeyInv, CfgInv, SciInv, VomsesInv, NotSaved
<1>12. MariadbInv /\ MungeInv /\ VomsInv /\ XrootdInv
  BY <1>2, <1>4, <1>5, <1>7 DEF MariadbInv, MungeInv, VomsInv, XrootdInv, Fine, Gone
<1> QED
  BY <1>2, <1>3, <1>8, <1>9, <1>10, <1>11, <1>12 DEF IInv

(* ... every step keeps it ... *)
LEMMA StepOK ==
  ASSUME IInv, Next
  PROVE  IInv' /\ FileStep
<1> USE DEF IInv
<1>1. PcOK' /\ Moves
  BY Moving
<1>2. FileStep /\ StateStep /\ CallStep /\ RestStep
  BY Filing, Setting, Calling, Resting
<1>3. DataStep
  BY Storing DEF TypeOK
<1>4. ServiceTypeOK' /\ CallInv' /\ died' \subseteq Service
  BY <1>2, CallOK
<1>5. died \subseteq died' /\ \A s \in Services : ServiceStep(s)
  <2>1. \A s \in Service : ServiceStep(s) /\ died \subseteq died'
    BY <1>2, Serving
  <2> QED
    BY <2>1, ServiceAssumption DEF Services
<1>6. FlagInv' /\ DownInv'
  BY <1>1, <1>2, <1>5, FlagOK, DownOK
<1>7. Awake /\ Pos <= 163 => data # NoData
  BY DEF DataInv, Awake
<1>8. TypeOK'
  BY <1>1, <1>2, <1>3, <1>4, <1>7, TypesOK
<1>9. DataInv' /\ VoInv'
  BY <1>1, <1>2, <1>3, <1>7, DataOK, VoOK
<1>10. KeyInv' /\ CfgInv' /\ SciInv' /\ VomsesInv'
  BY <1>1, <1>2, <1>5, KeyOK, XrootdFilesOK, VomsesOK
<1>11. /\ ServiceStep("mariadb") /\ ServiceStep("munge") /\ ServiceStep("voms") /\ ServiceStep("xrootd")
  BY <1>5 DEF Services
<1>12. MariadbInv' /\ MungeInv' /\ VomsInv' /\ XrootdInv'
  BY <1>1, <1>2, <1>5, <1>11, MariadbOK, MungeOK, VomsOK, XrootdOK
<1> QED
  BY <1>1, <1>2, <1>4, <1>6, <1>8, <1>9, <1>10, <1>12

(* ... and so does a step that changes nothing. *)
LEMMA StutterOK ==
  ASSUME IInv, UNCHANGED vars
  PROVE  IInv'
<1> USE DEF vars, serviceVars, machineVars, historyVars
<1>1. TypeOK' /\ PcOK' /\ CallInv'
  BY DEF IInv, TypeOK, ServiceTypeOK, PcOK, CallInv, Done, This, Checking, Starting,
     Expected
<1>2. Pos' = Pos /\ Phase' = Phase
  BY DEF Pos, Phase
<1>3. FlagInv' /\ DownInv' /\ DataInv' /\ VoInv'
  BY <1>2 DEF IInv, FlagInv, DownInv, DataInv, VoInv, Unstopped, Waited, Yes, Excuse
<1>4. KeyInv' /\ CfgInv' /\ SciInv' /\ VomsesInv'
  BY <1>2 DEF IInv, KeyInv, CfgInv, SciInv, VomsesInv, Held, Excuse
<1>5. MariadbInv' /\ MungeInv' /\ VomsInv' /\ XrootdInv'
  BY <1>2 DEF IInv, MariadbInv, MungeInv, VomsInv, XrootdInv, Gone, Fine, Excuse
<1> QED
  BY <1>1, <1>3, <1>4, <1>5 DEF IInv

(* IInv is an invariant. *)
LEMMA Invariant ==
  Spec => []IInv
<1>1. Init => IInv
  BY InitOK
<1>2. IInv /\ [Next]_vars => IInv'
  BY StepOK, StutterOK
<1> QED
  BY <1>1, <1>2, PTL DEF Spec

(* The end of the run. *)
LEMMA AtEnd ==
  ASSUME IInv, Done
  PROVE  Pos = 181
BY PlanLength DEF IInv, PcOK, Done, Pos, Size

(* A failure in the tests that matter to x excuses x. *)
LEMMA ExcusedAtEnd ==
  ASSUME NEW field, NEW x, NEW T, T \subseteq Mentions(field, x), Excuse(T)
  PROVE  Excused(field, x)
BY DEF Excuse, Excused

(* Every variable has its type in every run, a call of service.py its      *)
(* fields among them.                                                      *)
THEOREM TypeCorrect ==
  Spec => []TypeOK
<1>1. IInv => TypeOK
  BY DEF IInv
<1> QED
  BY <1>1, Invariant, PTL

(* At the end every file that a set-up changes is as it was found, unless  *)
(* a test that has to do with its owner failed or Ctrl-C left out the      *)
(* tear-down (files.restore in 840, 780 and 940).                          *)
THEOREM FilesRestored ==
  Spec => []FilesAsFound
<1>1. ASSUME IInv, Done, NEW p \in Path
      PROVE  content[p] = "found" \/ Excused("owner", OwnerOf[p])
  <2>1. Pos = 181
    BY <1>1, AtEnd
  <2>2. CASE p = "munge.key"
    <3>1. OwnerOf[p] = "munge"
      BY <2>2 DEF OwnerOf, Path
    <3> QED
      BY <1>1, <2>1, <2>2, <3>1, Mentioning, ExcusedAtEnd DEF IInv, KeyInv
  <2>3. CASE p = "vomses"
    <3>1. OwnerOf[p] = "voms"
      BY <2>3 DEF OwnerOf, Path
    <3> QED
      BY <1>1, <2>1, <2>3, <3>1, Mentioning, ExcusedAtEnd DEF IInv, VomsesInv
  <2>4. CASE p \in {"xrootd.cfg", "scitokens.conf"}
    <3>1. OwnerOf[p] = "xrootd"
      BY <2>4 DEF OwnerOf, Path
    <3> QED
      BY <1>1, <2>1, <2>4, <3>1, Mentioning, ExcusedAtEnd DEF IInv, CfgInv, SciInv
  <2> QED
    BY <2>2, <2>3, <2>4 DEF Path
<1>2. IInv => FilesAsFound
  BY <1>1 DEF FilesAsFound
<1> QED
  BY <1>2, Invariant, PTL

(* At the end the services that ran before run, and no other does, but for *)
(* mysqld, those that died and those whose tests failed (service.stop and  *)
(* check_start in 150, 840, 940, 780).                                     *)
THEOREM ServicesRestored ==
  Spec => []ServicesAsFound
<1>1. ASSUME IInv, Done, NEW s \in Service
      PROVE  \/ daemon[s] = "dead" /\ s \notin ran
             \/ daemon[s] # "dead" /\ s \in ran
             \/ s = "mariadb" /\ daemon[s] = "dead"
             \/ s \in died /\ daemon[s] = "dead"
             \/ Excused("svc", s)
  <2>1. Pos = 181
    BY <1>1, AtEnd
  <2>2. CASE s = "mariadb"
    BY <1>1, <2>1, <2>2, Mentioning, ExcusedAtEnd DEF IInv, MariadbInv
  <2>3. CASE s = "munge"
    BY <1>1, <2>1, <2>3, Mentioning, ExcusedAtEnd DEF IInv, MungeInv, Fine, Gone
  <2>4. CASE s = "voms"
    BY <1>1, <2>1, <2>4, Mentioning, ExcusedAtEnd DEF IInv, VomsInv
  <2>5. CASE s = "xrootd"
    BY <1>1, <2>1, <2>5, Mentioning, ExcusedAtEnd DEF IInv, XrootdInv, Fine, Gone
  <2> QED
    BY <2>2, <2>3, <2>4, <2>5, ServiceAssumption DEF Services
<1>2. IInv => ServicesAsFound
  BY <1>1 DEF ServicesAsFound
<1> QED
  BY <1>2, Invariant, PTL

(* At the end the .lsc file of the virtual organisation is left only if    *)
(* the test that removes it failed, its configuration and its databases    *)
(* only if their removal failed unnoticed, or after Ctrl-C (destroy_lsc,   *)
(* destroy_db and destroy_voms_conf in 780).                               *)
THEOREM VoGone ==
  Spec => []VoRemoved
<1>1. 11 \in Destroying("lsc")
  <2>1. 1 \in DOMAIN Plan[11] /\ Plan[11][1] = Destroy("lsc")
    BY Tests, RestoreVomsesLines DEF RestoreVomses
  <2> QED
    BY <2>1, PlanLength DEF Destroying, Test
<1>2. ASSUME IInv, Done, ~interrupted
      PROVE  /\ "lsc" \in made => failed \cap Destroying("lsc") # {}
             /\ "conf" \in made => "conf" \in unnoticed
             /\ data.holds # {} => "sql" \in unnoticed
  <2>1. Pos = 181
    BY <1>2, AtEnd
  <2>2. ("lsc" \notin made \/ 11 \in failed) /\ ("conf" \notin made \/ "conf" \in unnoticed)
    BY <1>2, <2>1 DEF IInv, VoInv
  <2>3. "sql" \in unnoticed \/ ("vo" \notin data.holds /\ "user" \notin data.holds)
    BY <1>2, <2>1 DEF IInv, VoInv
  <2>4. data.holds \subseteq {"vo", "user"}
    BY <1>2, Databases DEF IInv, TypeOK
  <2> QED
    BY <1>1, <2>2, <2>3, <2>4
<1>3. IInv => VoRemoved
  BY <1>2 DEF VoRemoved
<1> QED
  BY <1>3, Invariant, PTL

(* The databases that were found are in the data directory or its backup   *)
(* at every moment, and at the end of a run with the backup option they    *)
(* are back, unless a test that moves the directory failed, its first move *)
(* failed unnoticed, or Ctrl-C (050:29-34, 950:20-22).                     *)
THEOREM DatabasesKept ==
  Spec => []DataKept
<1>1. ASSUME IInv, Done
      PROVE  Pos = 181
  BY <1>1, AtEnd
<1>2. {1, 16} \subseteq DatadirTests
  <2>1. 6 \in DOMAIN Plan[1] /\ Plan[1][6].op = "move_data"
    BY Tests, BackupMysqlLines DEF BackupMysql, MoveData
  <2>2. 3 \in DOMAIN Plan[16] /\ Plan[16][3].op = "remove_data"
    BY Tests, RestoreMysqlLines DEF RestoreMysql, RemoveData
  <2> QED
    BY <2>1, <2>2, PlanLength DEF DatadirTests, Test
<1>3. ASSUME IInv, Done, backupmysql, hadData
      PROVE  \/ data.origin = "found" /\ databackup = NoData
             \/ "move" \in unnoticed \/ interrupted \/ failed \cap DatadirTests # {}
  BY <1>1, <1>2, <1>3 DEF IInv, DataInv, Excuse
<1>4. IInv => DataKept
  BY <1>3 DEF DataKept, IInv, DataInv
<1> QED
  BY <1>4, Invariant, PTL

(* The key of munge is put back only while the daemon is down: 940 stops   *)
(* it first, and the flag that lets it do so is up (940:11-12).            *)
THEOREM KeyRestoredWhenDown ==
  Spec => KeyBackWhenDown
<1>1. ASSUME IInv, Next
      PROVE  content["munge.key"] = "test" /\ content'["munge.key"] = "found" => daemon["munge"] = "dead"
  <2>1. FileStep /\ PcOK /\ TypeOK /\ DownInv
    BY <1>1, StepOK DEF IInv
  <2> QED
    BY <2>1, KeyStep
<1>2. IInv /\ [Next]_vars =>
        [content["munge.key"] = "test" /\ content'["munge.key"] = "found" => daemon["munge"] = "dead"]_vars
  BY <1>1
<1> QED
  BY <1>2, Invariant, PTL DEF Spec, KeyBackWhenDown

================================================================================
