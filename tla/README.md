# Specifications of osg-test

TLA+ models of `osg-test`, the integration test driver of the OSG software
stack, with the TLC runs that check them and the proofs that TLAPS checks. All
line numbers are those of the sources in `src/`. `PROJECT.json` maps every
definition to the lines it stands for.

## 1. The system

`osg-test` runs as root on one machine, in one process and one thread. It
installs packages, configures and starts daemons, runs the tests, and tries to
leave the machine as it found it. What makes it hard is not threads of its own:
it is everything that may cut it short (the alarm of the run, which ends in
`os.abort`; Ctrl-C; an exception in the middle of a set-up) while it holds other
people's configuration files in a half-changed state, the processes it forks,
and daemons and log rotation working on the same files.

A run goes through test modules in numeric order: 000-299 set up, 300-699 test,
700-999 tear down, with `special_*` modules before and after. The modules
share two dictionaries, `core.config` and `core.state`; a tear-down knows what
its set-up did only from them.

| Component | State | Operations | Interacts with | What is hard | What makes it correct | Module |
|---|---|---|---|---|---|---|
| Backups (`library/files.py`) | the files, the directory of backups, the registry `_backups` | `preserve`, `write`, `append`, `replace`, `restore`, `preserve_and_remove` | every set-up and tear-down; `special_cleanup` 99 | the process dies between two system calls and is run again; I/O errors; nested owners; names that clash | a file that nobody holds is the one that was found; the last copy of an original is never destroyed | `Files`, `BackupStore`, `BackupUse` |
| Commands (`core.py` 286-326, 504-585) | the command, its group, the forked watcher | `system`, `check_system` | every test; the alarm | the time-out racing the end of the command; the watcher is a copy of the whole runner | time-outs reported as such, normal exits never; no watcher left; the call ends | `RunCommand` |
| Log monitor (`core.py` 203-271) | two stats, an open file, a position | `get_stat`, `monitor_file` | daemons, log rotation | three looks at a name that may move between them | no line from before the call is taken for a new one; new ones are found; the call ends | `MonitorFile` |
| Certificates (`core.py` 708-752) | target, backup and directory of each key; entries of `core.state` | `install_cert`, `remove_cert` | tests 155/835, 200/780 | a failure or Ctrl-C between moving, copying and recording | originals survive; a pair of calls leaves nothing behind | `Certs` |
| Runner and driver (`osgunittest.py`, `osg-test`) | suites, result lists, stop flag, exit code, alarm | `run`, `wasSuccessful`, `main`, handlers | all tests | a result on each of the ways out of three stages; Ctrl-C and a second run; a failing handler | the exit code is true; clean-up runs; `--exit-on-fail` stops; the run ends | `TestRunner` |
| Services (`service.py`) | a `started` flag per service, the daemons | `start`, `stop`, `check_*`, `status`, `is_*` | set-ups and tear-downs | flags that outlive a failed start or stop; a slow or dying daemon; a service that ran before | at the end the same daemons run as at the start | `Service`, `Lifecycle` |
| Packages (`yum.py`, `special_install`, `special_cleanup`) | installed packages, transaction ids, lists in `core.state` | `retry_command`, install, update, undo, reinstall orphans | yum, rpm, other users of yum | half-done transactions; retries; ids read after success; virtual names; lists that get stale | the undos go back to before the run; only its own transactions are undone; what remains is reported | `Packages` |
| Set-up and tear-down modules | flags in `core.state`, MySQL's data directory, the VO | one pair per service | all of the above | skipped or failed set-ups, Ctrl-C between them, ignored exit codes | tear-downs undo what was done, no more; one pair's failure costs no other its files | `Lifecycle`; patterns in `BackupUse`, `Certs` |
| VOMS and databases (`voms.py`, `mysql.py`) | the VO's database, user, configuration and LSC files | create, advertise, destroy, execute | mysqld | exit codes that nobody looks at | nothing of the VO outlives the run | `Lifecycle` |
| Tokens and contexts (`credentials.py`, `core.py` 824-903) | token files and their flags; `os.environ`; files of the user moved aside | `request_scitoken`, `environ_context`, `no_x509`, `no_bearer_token` | tests 401, 450, 465; `special_cleanup` 08 | nested contexts left by an exception or Ctrl-C; a failing move; a request that fails after its write | environment and files come back; only the run's tokens are removed | `Credentials` |
| Tags, versions, skips (`core.py` 79-123, 397-454, 625-658, 754-815) | - | decorators, `PackageVersion`, skips | tests | comparing versions | pure functions | not modelled, see section 7 |
| Command line (`osg-test` 21-163) | options | `parse_command_line` | configuration file | precedence | documented precedence | not modelled, see section 7 |
| Log, log viewer, daemon configuration, tests 300-699, vendored code | - | - | - | - | - | not modelled, see section 7 |

## 2. The modules

**`Files`** has the machine's files `fs`, the directory of backups `dir`, the
registry `backups` (`_backups`: the owner of the original, `Nothing` when there
was no file, `Unregistered`) and the call in progress. A call is begun by
`Write`, `Replace`, `AppendTo`, `Preserve`, `PreserveAndRemove` or `Restore`,
with the early checks of the code as guards; then each system call that changes
something is an action (`PreserveCheck`, `PreserveCopy`, `PreserveRecord`,
`Rename`, `RestoreUnlink`, `RestoreMove`, `RestoreFinish`, ...). Between any two
of them come `Crash` (the abort in the alarm handler: memory is lost, files
stay), `Interrupt` (Ctrl-C: memory stays; a fault of its own when it comes between the
move of a restore and its end), `CopyFails` and `MoveFails`; `EndOfRun`
is the end of a run, after which the registry is empty. A file is the set of
its lines, a mode and an owner.

**`BackupStore`** is what `files.py` promises, without a backup directory: save,
put back, change, forget. `Files` is shown to implement it (`StoreSpec`, with the
mapping `Saved`).

**`BackupUse`** composes the calls as the test modules make them: a file is
changed only while a component holds it, and of several holders the first is the
last to restore it. It adds the history of what each file was at the start of the
run, of the first holder, and of the paths that met one of three misfortunes (a crash
during their use, a restore cut off half way, a true backup taken for stale). A run
ends with `LastTest` (test 99 of `special_cleanup`), which deletes the backups that
are left and passes or fails; `NextRun`, a step of its own, then starts from the files
as they are, and runs go on after a crash too.

**`RunCommand`** is one call of `__run_command` with its four processes: runner,
command, a helper that inherits the pipe, and the forked watcher. Time is one
event, the end of the watcher's sleep. An exception in the watcher makes it a
`"clone"`, a second runner, because the code does not leave the forked child
before the exception goes up its stack. Ctrl-C (`Interrupt`) is such an exception: the
terminal sends SIGINT to runner and watcher alike, both go on with `special_cleanup`,
and the command, which `setsid` took out of the terminal's session, goes on by itself.
Between its signal and `os._exit` the watcher is `"exiting"`.

**`MonitorFile`** is one call of `monitor_file` against a daemon that writes in
pieces (whole lines, or the halves of a line across a flush) and a rotator.
Each look at the file system (`StatFile`, `OpenFile`, `ReadLine`, `CheckMoved`)
is an action.

**`Certs`** runs `install_cert` and `remove_cert` for a list of certificates, in
the order of the tests, one action per statement that changes the disk or
`core.state`.

**`TestRunner`** is `OSGTestCase.run` (`SetUp`, `TestMethod`, `TearDown`, each with
what it raises), `OSGTestSuite.run` (`NextTest`), and main with its handlers:
`CtrlC` starts the second run that has only `special_cleanup`, `Alarm` aborts or,
if it cannot write the dump file, raises inside the test that runs.

**`Service`** is one call of `service.py` at a time: `Begin` with the flag
(`SkipStart`, `SkipStop`), the command that succeeds or fails, and the rounds of
`check_status` (`Poll`, `PollEnds`). Daemons are dead, starting or running, and
come up and die when they like.

**`Lifecycle`** runs four pairs of set-up and tear-down tests in one osg-test:
mysqld 050/950, munge 070/940, xrootd 150/840 and VOMS 200/780, and the last test
of `special_cleanup`. Each test is a sequence of statements (`StartMunge ==
<<...>>`), with the functions of `voms.py` and `mysql.py` as sub-sequences, and
each kind of statement is an action; one that raises ends its test and the next
one starts, as in `TestRunner`. It EXTENDS `Service` for the calls and uses
`BackupStore`, the abstract specification that `Files` implements, for the files:
`Store!Save`, `Store!PutBack`, `Store!Forget`. The removal of a directory
(`DestroyDir`) may raise in `destroy_lsc` and fail unnoticed in `destroy_voms_conf`;
the return of MySQL's data is a removal and a move (`RemoveDatadir`,
`MoveDatadirBack`), each of which may fail with a part done. Simplified: packages are
installed, no `--exit-on-fail`, the lock file of VOMS and the multi-user
configuration of xrootd are left out, `xrootd.cfg` stands for the three files that
test 150 01 writes and 840 02 restores together. The backup directory of the MySQL
data may exist already, left by a run that was cut off between the move of the data
and their return; set-up then leaves the data alone (`BackupExists`).

**`Packages`** is `retry_command` as a loop (`FailsForNow`, `Succeeds`, `Fails`,
`FailsForNowHalfDone`, `GivesUp`) inside the four tests that call it: install
package by package, with the id of the transaction, the verification and the
lists (`ListPackages`) after each; update; undo from the last to the first
transaction; reinstall of orphans. Yum is the environment: with the package it was
asked for it may bring in, update or obsolete any other, and it may fail after all, a
part (`Partial`) or none of the work. `Interrupt` is Ctrl-C, at any step, in the
clean-up too: yum stops with a part done, and the clean-up begins (again) with the
lists as they are. A version is 0 (not installed), 1 or 2.

**`Credentials`** has a stack of contexts, each with the place it has reached, the
paths it noted as moved and the values it replaced, so that an exception or Ctrl-C
can leave them at any statement; and the requests for tokens statement by
statement, up to the clean-up.

The modules meet as the code does: `Lifecycle` EXTENDS `Service` and uses
`BackupStore`; `BackupUse` EXTENDS `Files`; the `Crash` and
`Interrupt` of `Files`, `Certs`, `Lifecycle` and `Credentials` are the `Alarm` and `CtrlC` of `TestRunner`;
the `"timeout"` that a test method raises in `TestRunner` is what `CheckSystem`
of `RunCommand` returns.

## 3. The runs

| Run | Checks | Bounds | Shows |
|---|---|---|---|
| `files` | `TypeOK`, `RegistryMatchesDirectory`, `BackupNeverOverwritten`, `StoreSpec` | one path, two owners, two lines, two modes, two uids; crash, I/O errors, Ctrl-C but for the late one, any number of calls and runs | registry and directory agree, no backup is overwritten, the mechanism implements `BackupStore` |
| `backup_use` | `PristineUnlessDisturbed`, `OriginalNeverLost` | one path, two owners, two lines; crash, Ctrl-C, I/O errors, any number of runs | files nobody holds are as found; originals are not lost but on the paths that met the misfortunes that the properties name, or by a last test that says so |
| `use_same_name` (violation) | `PristineWhenReleased` | two paths of one name, one owner | finding 1 |
| `run_command` | `TypeOK`, `StatusTrue`, `WatcherGone`, `CloneOnlyWhen`, `CallEnds`, `CommandIsStopped` | one call; two exit codes, two signals; one alarm or one Ctrl-C | time-outs and exits are told apart but for a caught TERM, the watcher is gone when a call returns, when clones appear, that calls end and commands are stopped |
| `monitor_file` | `NoStaleMatch`, `CallEnds`, `SentinelFound` | two files of three pieces | no old sentinel is taken for a new one, new ones are found, the call ends |
| `certs` | `TypeOK`, `OriginalKept`, `Undone` | a certificate and its key; a failing copy, Ctrl-C | originals survive the run, undisturbed pairs leave nothing |
| `certs_failed` (violation) | `FailedInstallUndone` | the same, no Ctrl-C | finding 2 |
| `test_runner` | `TypeOK`, `ExitCodeTrue`, `CleanupRuns`, `StopOnFailure`, `RunEnds` | two tests and two clean-up tests; every result of every stage, every option, Ctrl-C, alarm, a module that cannot be imported | exit code, clean-up, stopping and ending |
| `lifecycle` | `TypeOK`, `FilesAsFound`, `ServicesAsFound`, `VoRemoved`, `DataKept`, `KeyBackWhenDown` | four pairs, every subset of daemons that run before, with and without databases and the backup option; two faults, Ctrl-C anywhere; two rounds of polling | what one run leaves of files, daemons, databases |
| `packages` | `TypeOK`, `BackToEarliest`, `UndoFits`, `OnlyOurs`, `Reported`, `RunEnds` | two packages, three versions, a virtual and a real name; one fault or one foreign transaction, one retry, one Ctrl-C | what the undos bring back, whose transactions they undo, what is reported, that the run ends |
| `orphan_not_ours` (violation) | `OrphanWasFound` | the same, no fault and nobody else | finding 3 |
| `credentials` | `TypeOK`, `HiddenInBody`, `CredentialsAsFound`, `NoTokenLeft`, `FoundTokenKept` | the four contexts of the tests in pairs, three paths, four variables, two tokens; any number of failing moves and exceptions, one Ctrl-C | contexts nest and come undone, tokens are removed exactly if they are the run's |

Why the bounds are enough. `Files` keeps its pairs apart except through the name
of the backup file and the path: two owners of one path show every sharing of a
path, and two paths with one name (`use_same_name`) every sharing of a name; the
proofs cover all other numbers. A call of `RunCommand` has no parameter that
grows. In `MonitorFile` two files let the name be missing, replaced, and the
monitor be one file behind; three pieces give one before the caller's stat, and
two after it. In `Certs` two keys suffice for "the first made the directory".
In `TestRunner` two tests on each side let a failure be first, last, before,
and in the clean-up. In `Lifecycle` two faults
are enough for one that spoils a set-up and one that spoils its tear-down, or two
pairs; two rounds let a daemon be seen dead and then running. In `Packages` one
package can be wanted and the other be its dependency, be updated with it and be
obsoleted by it; with one fault the history has every place where a command can
fail; the proofs cover all other numbers. In `Credentials` the tests put
`no_bearer_token` or a token context into `no_x509`; the run has every pair of the
four contexts, two of one kind too (which no test has), and the proofs any depth. Where the crashes, calls and runs are not counted they are not bounded.

### Fairness

* `RunCommand`: weak fairness of the runner and of the watcher; both are ready
  processes, and a sleep ends. Nothing is assumed of the command, its helper, or
  the copy of the runner, so `CallEnds` names the cases in which a call may
  last until the alarm.
* `MonitorFile`: weak fairness of the monitor's loop alone. The daemon, the
  rotator and the clock owe nothing; `CallEnds` starts from the event that the
  time is up, and `SentinelFound` from the sentinel's being written.
* `TestRunner`: weak fairness of the steps of the suites and of main, and of the
  alarm, which the kernel delivers. No stage of a test is fair: tests may hang.
* `Packages`: weak fairness of the run, whose commands come back and whose tests
  go on. Other users of yum owe nothing. That yum itself may hang until the alarm is
  the matter of `TestRunner`.
* The safety-only modules (`Files`, `BackupUse`, `Certs`, `Lifecycle`,
  `Credentials`) assume none.

## 4. Findings

1. *One name, one backup* (`files.py:48`, run `use_same_name`). A backup is named
   after the last component of a path and its owner, while the registry uses the
   whole path. In a manual run the xrootd and third-party-copy tests (150, 158)
   preserve three files called `xrootd.log` with one owner; the second call
   deletes the first backup as stale.
2. *A failed copy of a certificate cannot be undone* (`core.py:748`,
   `certs_failed`). `remove_cert` uses the entry that is written only after the
   copy, raises `KeyError`, and the original stays in its backup.
3. *A package of the run is reinstalled as an orphan* (`yum.py:138`,
   `orphan_not_ours`). `install.installed` has the version of the first
   installation; a later transaction of the run that updates the package does not
   change the entry, so when a third transaction erases it, it is taken for one that
   "we didn't install", and the clean-up installs it again after the undos. In the
   trace nothing is installed at first: the run installs b-1, then a, which updates b to
   b-2, and its `yum update` erases both. (For a package that was there before, updated
   and then erased by the run, the comment is right, but the orphan that is
   reinstalled has the newer version: an exception of `Reported`.)

Other behaviours that the models show, most of them also in the hazards of
`PROJECT.json`:

* A restore is not repeatable (`files.py:206`). The pair leaves the registry last
  and the present file is removed first; Ctrl-C between the move and the `del`
  makes the clean-up delete the original that was just put back. It is the
  assumption of `RegistryConsistent`, and its paths (`half`) are exceptions in
  `PristineUnlessDisturbed` and `OriginalNeverLost`.
* Every death by signal counts as a time-out (`core.py:581`): a command with a limit
  that crashes at once is reported, after the whole limit, as timed out.
* Rotation can raise (`core.py:262`): between the moving of a log and the new file
  `os.stat` raises, though the docstring says that rotation by moving is handled.
* A command that catches TERM at its limit and exits by itself is not reported as a
  time-out: the status is its own, though the docstring (`core.py:294-296`) says -1.
  It is the exception `CaughtTerm` of `StatusTrue`.
* Ctrl-C makes the sleeping watcher a second `special_cleanup` beside that of the
  runner, with the same lists and backups (`core.py:568`, `osg-test:246`), and no one
  stops the command any more.
* The last test deletes the backups that are left, whatever they are
  (`special_cleanup.py:228`), also the only copy of an original: it then fails, but the
  file is gone. `OriginalNeverLost` says that a test that passes has lost none.
* `destroy_voms_conf` hides what it could not remove (`voms.py:117`), as `destroy_db`
  hides the status of mysql.
* The copy of the runner goes on testing (`core.py:569`); the handler of the alarm
  raises (`osg-test:206`); a module cannot be imported (`osgunittest.py:508`).
* mysqld is stopped by 950 even if it ran before osg-test: 050 does not ask, and
  `systemctl start` of a running unit sets the flag. The exception for `"mariadb"` in
  `ServicesAsFound` is this one.
* A transaction from before the run is undone if a virtual name was wanted that was
  provided already: there is nothing to do, and the latest id is not the run's
  (`OnlyOurs`). If the query for the id fails after a good install, or if nothing is
  left on the list of installed packages, nothing is undone; after Ctrl-C between the
  end of a command and the note of its id no test has failed either (`Reported`).
* A run that the alarm aborts inside `no_x509` leaves `~/.globus` and the proxy under
  a name with its process id, which no later run looks for. Test 460 06 sets
  `os.environ['XrdSecGSISRVNAMES']` outside of any context and leaves it set.
* If the move of MySQL's data directory fails, the failure is passed over
  (`test_050:31`), and the tests work on the databases that were to be saved.

## 5. What is proved

Every theorem is checked by TLAPS for every value of the constants that meets
the `ASSUME`s of the module (sentinels differ from values, arguments have their
types; TLC evaluates them in the runs).

| Module | Theorem | For all |
|---|---|---|
| `FilesProofs` | `TypeCorrect`, `NeverOverwritten` | paths, owners, names, faults |
| `FilesProofs` | `RegistryConsistent`, `ImplementsStore` | paths, owners; distinct last components, no Ctrl-C between the move of a restore and its end |
| `FilesProofs` | `FilesPristine`, `OriginalsKept` | paths, owners, faults, runs; distinct last components; every interrupt |
| `LifecycleProofs` | `TypeCorrect`, `FilesRestored`, `ServicesRestored`, `VoGone`, `DatabasesKept`, `KeyRestoredWhenDown` | numbers of faults, limits of a call, interleavings of tests, daemons and Ctrl-C; the plan is that of the module |
| `RunCommandProofs` | `CommandTypes`, `StatusIsTrue`, `NoWatcherLeft`, `ClonesRare` | exit codes; alarm and Ctrl-C at any step |
| `MonitorFileProofs` | `MonitorTypes`, `NeverStale` | files, pieces |
| `CertsProofs` | `CertTypes`, `CertKept`, `RunUndone` | lists of certificates, faults |
| `TestRunnerProofs` | `RunnerTypes`, `ExitCodeIsTrue`, `CleanupIsRun`, `FailureStops` | numbers of tests |
| `PackagesProofs` | `TypeCorrect`, `IdsAreOurs`, `UndosFit`, `UndosGoBack`, `ChangesReported` | packages, providers, wanted names, retries, faults, foreign transactions; Ctrl-C at any step |
| `CredentialsProofs` | `TypeCorrect`, `FoundAgain`, `TokensRemoved`, `FoundTokenStays`, `BlocksHide` | paths, variables, contexts, tokens, depths |

The arguments.

* **Files.** `BackupNeverOverwritten` needs what a call knows at its step
  (`CallInv`): a copy is made only after the test that found no backup
  (`PreserveInv`), and nothing else writes to the directory. The refinement maps
  the saved state of a pair to the file in the directory with the owner that the
  registry has, or, in the last step of a restore, to the file already put back.
  One lemma for the steps that save nothing, one each for `Save`, `PutBack`,
  `Change` and `Forget`. Both assumptions of the two conditional theorems are
  needed: finding 1 and the restore that is not repeatable (section 4) are what
  happens without them.
* **BackupUse.** A step of the code is for the store one of five things: it saves a
  pair, puts one back, changes a file, forgets all, or leaves the store alone
  (the lemmas are those of **Files**). Neither property is inductive: while a file is held,
  what its path will hold again is what the first holder saved. So `OuterInv` says
  that there is one first holder, `PristineInv` that it saved the original and
  that a path without holders has it; the others may have saved anything. For
  `OriginalNeverLost` a crash empties the registry while the directory keeps its
  files, so the original is at its path without holders, with the first holder, or in
  a backup that no pair of this run stands for (`KeptInv`); only
  `remove_stale_backup` and the last test take the last one away. A last test that
  passes found registry and directory empty, and then the file is in its place. The theorems hold with the late
  Ctrl-C, under which `RegistryMatchesDirectory` fails: the paths it hits are
  the exceptions, and the pairs of all others still agree with the directory.
* **RunCommand.** The invariant has three parts: what the state of the command
  says about its code (`CommandInv`), when the watcher can be in which state
  (`WatcherInv`), and what the runner knows once it has reaped the command
  (`StatusInv`). `StatusTrue` alone is not inductive: that the watcher's
  signal gave the code, or that the command caught it, has to be carried through the
  race of `Communicate` and `KillGroup`. For `CloneOnlyWhen`, `WatcherInv` has no
  clone while the runner communicates, and `StatusInv` none after a normal exit was
  decided on; Ctrl-C makes one only as the runner leaves the call.
* **MonitorFile.** Where the monitor stands has to be tied to what its caller saw.
  The file at the name is always the newest (`Names`), so a file that was moved away
  never comes back; the caller's stat is dropped only after its file was replaced
  (`OldDropped`); the monitor's own stat is of the caller's file or of a newer one,
  and while the caller's file is the one stated or open the position is behind what
  the caller had seen (`Behind`), also when the file is replaced between the stat
  and the open.
* **Certs.** For a key whose original is recorded as moved aside the backup holds
  it until `MoveBack` (`KeyInv`); what the call in progress still has to record
  is in `CallInv`. For a run whose calls raise nothing, `Quiet` says more: outside of
  the call in progress every key is untouched, wholly installed or wholly put back
  (`KeysInv`), and a directory that the run made was made for the first key of
  `Order` (`DirInv`). That key is removed last, when nothing else is left in it.
* **TestRunner.** The bad lists hold exactly the tests that were bad
  (`ResultTrue`), the tests started are those before `next` (`Progress`), the
  stop flag is up exactly if the option and a bad test ask for it (`FlagTrue`),
  and what main decided stays true (`Decided`).
* **Packages.** The history is a chain: each transaction starts from what the one
  before left, and until the clean-up the last one ends in what is installed
  (`Chain`). `Ours` says why the latest transaction is the run's when its id is asked
  for. In a quiet run (no fault, nobody else, no transaction that Ctrl-C kept from being
  written down) all of its transactions are written down (`Noted`), so the first
  clean-up goes through the history without a gap, and the machine is as the transaction
  in progress left it (`Undoing`): this is `UndoFits`. When Ctrl-C has the clean-up begin
  again, undos meet packages that are back already. What still holds is that a package
  that is not as it was found was changed by some transaction (`Known`, `Touched`), and
  that all packages that the transactions passed so far had changed are as the one in
  progress found them (`Rewinding`). So an undo that is repeated spoils nothing, and
  the last one ends at the earliest `before` (`Undone`): this is `BackToEarliest`. That there is an earliest id is
  a minimum over a finite set, taken with the well-founded subset ordering of the
  library. For `Reported`, a fault that no test has reported yet is in `fail_msg`, in the
  result of the last command or in the history of half-done ones (`Reporting`); so what
  the run did is written down, or a fault is being reported (`Written`), a run that ends
  without a failed test has undone all of it (`AsFound`), and a reinstallation of what
  was there changes nothing.
* **Credentials.** A path that is away is owed by exactly one frame of the stack, or
  its move back has failed (`Owing`, `AllOwed`); for a variable the outermost frame
  that holds it has the value from before the run, and a variable that no frame holds
  has it itself (`OldKept`). An empty stack then means that nothing is away and nothing
  is set. A file that the run made is noted unless the request is between the write
  and the note (`Tokens`).
* **Contexts.** A frame takes only what can be found, so it takes nothing that a
  frame around it hides and gives nothing of it away when it moves back (`FilesInv`).
  The old value that a frame keeps is right for the frames around it, and the
  environment is right for all frames whose block runs (`EnvInv`); after Ctrl-C no
  block goes on (`Leaving`), which is why the theorem needs no exception for it.

* **Lifecycle.** What a tear-down can undo depends on where its set-up stopped, tens of
  statements before, so no property is inductive, not even for its own pair: that the
  key of munge comes back while the daemon is down (`KeyBackWhenDown`) needs that the
  flag was up when 940 looked, and that every later stop ran its command. `IInv` says
  what holds at each statement of the plan, numbered `10 * test + line`: the call in
  progress is of that statement (`CallInv`); where the `started` flags are up
  (`FlagInv`) and a stopped daemon is down (`DownInv`); for each file the stretch in
  which it is as found, the one in which its backup holds it, and the one in which it
  is back (`KeyInv`, `CfgInv`, `SciInv`, `VomsesInv`); where the databases are
  (`DataInv`) and what is left of the VO and through which failed removal (`VoInv`); and for each service how its
  daemon compares with the one that was found (`MungeInv`, `XrootdInv`, ...), each
  with the failures that excuse it. The proof first reduces a step to its effects:
  a step stays at its statement, goes on, goes past some, raises, or is
  Ctrl-C (`Moves`), and each part of the state changes at its own statements only
  (`FileStep`, `StateStep`, `DataStep`, `ServiceStep`). Each part of `IInv` is then kept
  by those facts alone, whatever the action was. TLC finds `IInv` to hold on the instance
  of the run `lifecycle` (`LifecycleProofs` with `INVARIANT IInv` in its configuration).

Only model-checked: liveness (`CallEnds` of `RunCommand` and of `MonitorFile`,
`CommandIsStopped`, `SentinelFound`, `RunEnds` of `TestRunner` and of `Packages`),
which is out of the prover's reach. Not proved of `Lifecycle` is anything about another
plan than its own: `IInv` names the statements of the list that the module has, and
another pair of tests needs its own stretches of it. That the
three violated properties fail is shown by their counterexamples.

## 6. Order of work

The core first, in this order because a mistake in it damages the machine or
falsifies every result: `Files` with `BackupStore` and `BackupUse`, `RunCommand`,
`MonitorFile`, `Certs`, `TestRunner`, with their proofs. Then what the core is for:
`Service` and `Lifecycle`, `Packages`, `Credentials`, with their proofs and those of
`MonitorFile` and `BackupUse`.

What could follow: the pairs condor, pbs, slurm, cvmfs, condor-ce, third-party copy
and stashcache as further lists of statements in `Lifecycle`; `--exit-on-fail`
there; several runs in a row, for the certificates and contexts that a crash leaves;
`PackageVersion` and `parse_command_line` against reference definitions.

## 7. What is not modelled, and why

* Formatting, logging and the log viewer: text only. That the dump file may not
  be written is in `TestRunner`.
* Tests 300-699 and the tests 040, 055, 060, 970: external commands whose
  output is compared.
* `condor.py`, `xrootd.py`, `namespaces_json_server.py`: queries of external
  configuration and constant text.
* In `files.py`: `remove` for globs and directories, `safe_makedirs`,
  `checksum_file`; the temporary file that a failing `preserve` leaves. In
  `core.py`: the re-use of process ids; owners and modes of certificates.
* In `RunCommand`, `Packages` and everywhere else: a second Ctrl-C, which nothing
  catches and which ends osg-test like the alarm does. In `BackupUse`: Ctrl-C inside
  the last test, between its removal of the directory and its verdict. In `Packages`:
  Ctrl-C before test_02 has made its lists, when nothing has been installed, and
  `--no-cleanup`.
* In `Packages`: `--update-release`, whose packages go in and out by rpm; the lists
  `install.updated`, `replace` and `os_updates`, which nothing reads, and with them
  the obsoleting lines of yum's table; the output of dnf, whose words "Upgrading" and
  "Obsoleting" the code does not match; the package that is taken from
  `osg-development` for `xrootd-scitokens`.
* Tags, `PackageVersion`, the skip functions and the command line: comparisons and
  merges without state.
* In `Lifecycle`: the pairs that section 6 names, packages that are missing, and
  runs after one another.
* Several osg-test processes at once on one machine. The README mentions them
  only in the text of `--manual-run`; every module writes the same system files,
  and each process has a registry of its own.
* Vendored code, packaging and continuous integration: not part of the program.
