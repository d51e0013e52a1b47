# wx_kk_up in TLA+

`wx_kk_up` is a Windows program that stands at a traffic checkpoint (卡口, "kk").
A camera delivers pictures of passing vehicles through an FTP server; the
program records each vehicle in a SQLite table, moves the pictures to the
folder of an HTTP server, and reports the vehicle to the traffic server
through a closed ActiveX control. A Windows service restarts it when it dies,
and a second tool installs several instances of that service.

This directory holds a formal model of the parts whose correctness depends on
the order of events, its model-checking runs, and proofs. Line numbers
refer to `src/wx_kk_up/wx_kk_upDlg.cpp` unless another file is named.

## 1. Inventory

| part | source | state | operations | works with |
|---|---|---|---|---|
| watcher | `ThreadWatcher` 549-642 | change buffer of the directory handle `kkConfig.hDir` | read changes, queue a name | FTP server (writes files), `m_images` |
| lister | `ThreadProcessLast` 949-979 | list of names | list the folder every 10 s, queue names while fewer than 500 are queued | `m_images` |
| queue | `m_images`, `wx_kk_upDlg.h:57` | `std::queue<char*>`, no lock | `push`, `front`, `pop`, `size` | watcher, lister, processor |
| processor | `ThreadProcessWatchedFiles` 739-858 | the picture at hand | pop, check and add the row, check again, copy and delete both pictures | queue, table, both folders |
| table | `wxCore/DB.cpp` | table `vehicle_info` in one SQLite file; a handle per `TFDB` object | `CheckImageExist`, `Add`, `Query`, `Uploaded` | processor, uploader |
| uploader | `ThreadUpload` 863-934, `InitTrans`, `UploadInfo` 1169-1267 | rows read, the row at hand, `connected` | query, connect, send, mark | table, upload control, HTTP folder |
| upload control | `htagentobj1`, `tfcommon.h` | closed binary | results `OK`, 0, `FALIED`, `CONNECT_ERROR` | uploader, traffic server |
| thread control | `OnStartWatch` 1127, `ThreadStartAll` 1076 | globals `m_ExitCode`, `threadRuning`, `thread[]`, `kkConfig.hDir`, the menu entry | start, stop, exit | UI thread, five workers |
| process monitor | `ProcessMonitorThread` 987-1073 | none | shows CPU and memory | UI |
| configuration | `ReadConfig`, `SaveConfig`, two dialogs, `minIni` | `systemConfig`, `kkConfig`, an ini file | read at start, rewrite on OK | every worker reads it |
| watchdog service | `wx_kk_up_service/wx_kk_service.cpp` | `bStop`, `bPause`, `status` | `Run` (find process, start it), `ServiceHandle` (STOP, PAUSE, CONTINUE, SHUTDOWN), install, uninstall | service control manager, the uploader process |
| instances | `InstanceConfigDlg.cpp`, `KService.cpp` (`MyService` is called by nothing) | four buttons, SCM handles | install, uninstall, start, stop, show status | SCM, watchdog, setup (`wx_kk_service -install`, `-uninstall`) |
| logging | `zlog/`, `OnLogMessage` | global environment under a reader-writer lock, per-thread buffers, one file per rule with its archives, rotation lock | init, log, rotate, finish (reload is never called) | every thread, the log window |
| not used by the program | `mysqllib`, `LPRDB`, `AutoUpdater`, `HttpClient`, cJSON, unixport | | | |

**What is hard here.** The four workers share the queue, the globals and the
configuration without a lock; a picture is announced when its first bytes are
written; notifications get lost; a vehicle is announced many times; moving a
picture is a copy and a deletion, and recording a vehicle, moving its pictures,
reporting it and closing it are separate steps, between any two of which the
process may die (the watchdog starts it again) or SQLite may fail; the server
may take a vehicle whose answer is lost; stopping needs threads to look at a
flag that some of their waits never look at; the watchdog decides on a snapshot;
the tools that install and stop the service wait by polling, a bounded number of
times, while the service moves on by itself; and every thread writes to log files
that one of them closes, renames and opens again.

**What makes each part correct.**

* Pipeline: no picture is lost or truncated, and one error of the table moves none of
  a vehicle without a row; a vehicle gets one row; a row is
  closed only after the server took the vehicle, and the vehicle is sent twice
  only because something failed or a deleted record was read wrong; every vehicle ends up uploaded and the FTP folder
  empty.
* Thread control: never two workers of a kind; what the menu entry offers is
  what can be done; a stop ends; the folder handle is opened and closed once
  per start.
* Watchdog: one uploader process; what the service told the SCM is what it
  does; a dead uploader is started again.
* Installation: the buttons of the dialog tell what can be done, a running
  service is not deleted, and every job ends.
* Logging: the files keep, in order, the messages they got through
  rotations, failures and crashes, and a rotation makes each thread lose one
  message at most once the file is open again; one rotation at a time, with a mutex that is
  given back; nobody works with tables `zlog_fini` freed; nobody waits for ever.

## 2. Modules

| module | models | state ↔ code |
|---|---|---|
| `TFDB` | `wxCore/DB.cpp` | `db`: the rows in order of id, each with its vehicle and `status` column; `conn[t]`: the handle of the `TFDB` object of thread `t`, "closed" when `CloseDB` cleared only its own copy of the pointer. Every operation takes its outcome: "ok", or the SQLite call that failed |
| `Pipeline` | the loops of watcher, lister, processor, uploader; extends `TFDB` | `ftp`, `http`: what each folder holds under a name; `pending`: the change buffer; `list`: the lister's list; `images`: `m_images`; `ppc`, `imagePath`: place and local of the processor; `upc`, `listIn`, `vehicleInfo`, `connected`, `freed`, `id`: the same of the uploader (`freed`: the record was deleted at line 910; `id`: the id read at line 907); `accepted`, `pictures`: what the server got (history); `misread`: wrong reads of a deleted record (history); `faults` counts faults |
| `Delivery` | what the pipeline promises about a vehicle: unknown, recorded, reported, closed | refined by `Pipeline` through `stage` |
| `MCPipeline` | instances of `Pipeline` | |
| `PipelineProofs`, `PipelineReportProofs`, `PipelineDeliveryProofs` | theorems about `Pipeline`: pictures, reports, and `Delivery` with the order of record and move | |
| `StartStop` | `OnStartWatch`, `ThreadStartAll`, the exit tests of the workers | `threadRuning`, `exitCode` (`m_ExitCode`), `thread`, `hDir`, `menu`: the globals; `open`: handles the OS holds open; `ctl`, `step`, `flip`, `target`: place and locals of each controller thread; `worker`: each worker before its test, in a turn, connecting, at its end; `waitsOn`: the handle a watcher reads |
| `MCStartStop` | instances of `StartStop` | |
| `StartStopProofs` | theorems about `StartStop` | |
| `ImageQueue` | `m_images` as the unlocked `std::queue` it is | `off`, `size`, `slot`: offset, size and map of the container; `fresh`, `taken`: the names to come, and those `front` returned; `pc`, `at`, `n`, `name`: place and registers of watcher, lister and processor. One action per load or store |
| `ScmService` | a service as the SCM shows it: a state, and the state the control under way leads to | implemented by `ServiceWatchdog` (mapping `scmState`: `told`; `scmGoal`: the state the handler's code ends in), the base of `ServiceControl` |
| `ServiceWatchdog` | `Run`, `ServiceHandle`, `ServiceMain` of the service | `status`, `bStop`, `bPause`; `told`: what the SCM was told last; `code[t]`: the assignments and reports thread `t` has before it; `run`: place in `Run`; `apps`: processes named `MonitorExe` |
| `WatchdogProofs` | theorems about `ServiceWatchdog` | |
| `ServiceControl` | `KService` with the buttons of `InstanceConfigDlg` (tool "dialog"), `Install` and `Uninstall` of `wx_kk_service.cpp` (tool "setup"), extends `ScmService` | `installed`: the entry in the SCM; `pc`, `job`, `seen`, `times`, `ok`: of each tool the next call, the job, `status.dwCurrentState` as polled, `times`, and whether the result is 0; `buttons`: those enabled; `trouble`: history, somebody else acted or a call failed |
| `Zlog` | `vdzlog`, one rule with its static file, `zlog_rotater_rotate`, `zlog_fini`, restart | `files`: files by number, 0 the file itself, k + 1 the archive k; `static_fd`: the file the rule's handle is open on, `Closed` between a roll's close and open, `Invalid` (-1) after a failed open; `lock_mutex`; `readers`, `writer`: `zlog_env_lock`; `env`; `recorded`: threads with a `zlog_thread_t`; `pc`, `handle`, `list` of the threads; `refused`, `written`, `missing`, `late`: history, the last three the messages given to `WriteFile`, those that got into no file of the rule, and those each thread lost since the file was opened last |
| `MessageLog` | what a rotated log promises its reader: messages are added or lost, oldest ones are dropped, the last ones up to a limit stay | implemented by `Zlog` (`log`: the messages in any file; `next`: `written`; `keep`: `archive_max_count` times `archive_max_size`) |
| `ServiceControlProofs` | theorems about `ServiceControl` | |
| `ZlogProofs`, `ZlogFileProofs` | theorems about `Zlog`: its two locks, and its files with `MessageLog` | |

`Pipeline` has one action per access to shared state: a call of `TFDB`, a copy, a
deletion, a queue operation, one exchange with the server. A vehicle is a model
value and a picture a pair of vehicle and part ("pic", or "plate" for the
second picture); the parsing of names and the columns of the table that nothing
below tells apart are abstracted. Locals a thread does not carry from one
access to the next are left out. In `listIn` the order is left out: what the
uploader does with a row does not depend on the rows before it.

`ServiceControl` has one action per call of the SCM, and the service, the other
tool and an administrator act between any two. A message of `Zlog` is its
number, and its length 1 against a limit of `MaxSize`; the read of `static_fd`
and the `WriteFile` with it are two steps, for the rotating thread may close the
file between them, and the handle value may be given to the file opened next, or to
any other file of the process (SQLite's, another rule's, a copy): then the call
succeeds elsewhere, and the code goes on as if the message were logged. `written` numbers
the calls, so such a message is `missing`, like one whose call fails. A
roll is a step per file. `rename` fails on a name that is taken, as under Windows.
`LogKept` says that the messages on the disk are the last ones written, without a gap
but the missing, and that they stand in the order of their files and places; that is the same as to
say it of the files put end to end. It would hold of a log that drops or loses too
much; `ImplementsLog` says what is never dropped, and `OneLateMessage` what a roll may lose.

The environment: the camera writes each file once (a name carries the time of
passage), in two steps, and every step puts the name in the change buffer. The FTP
server holds its file open while it writes; with `WriterShares` it lets others
read it. The server may answer anything in `Replies`. After `CONNECT_ERROR` the
uploader reads the record it deleted at line 910: the id is the first field of the
block and the text the rest, so `Reads` lets each be what it was, what another row has, or
nothing's (`NoId`, `NoText`), independently. A garbage id that happens to be that of a row added
later counts as none.

Actions named after "Mutation of X" comments are wrong variants of `X`. They
are part of no specification; replacing `X` by its variant makes a named
property fail, which shows that the property does depend on `X`.

## 3. Runs

`PipelineTwo` and `PipelineLive` take about two minutes, every other run less. `CHECK_DEADLOCK FALSE`
appears for `StartStop`, `ServiceWatchdog` and `ServiceControl`, whose users may
stop clicking, for `Zlog`, whose threads may stop logging, and for `ImageQueue`,
whose names are used up: legal ends all.

| run | instance | shows |
|---|---|---|
| `PipelineFaults` | 1 vehicle, both pictures, every result of the control, two faults or wrong reads of any kind | `TypeOK`, `CopyBeforeDelete`, `MovedIsComplete`, `OneErrorMovesNothing`, `ImplementsDelivery` |
| `PipelineTwo` | 2 vehicles, every result of the control, one crash, late answer, failing `sqlite3_step` or wrong read | `OneRowPerImage`, `ClosedWasReported`, `BoundedResend` |
| `PipelineLive` | 1 vehicle, both pictures, one crash, late answer or failing `sqlite3_step`, fair | `ImplementsFairDelivery`, `EveryVehicleUploaded`, `FtpFolderDrains` |
| `StartStopPatient` | 4 clicks, all five workers, a user who waits, fair threads and environment | `TypeOK`, `OneWorkerPerKind`, `MenuTellsTruth`, `WatcherOwnsHandle`, `StopEnds` |
| `StartStopImpatient` | 2 clicks at any time, watcher and uploader | `ExitCodeEndsAll` |
| `Watchdog` | 2 runs of the service, 1 start by hand | `TypeOK`, `OneApp`, `OneLateLaunch`, `ImplementsService`, `KeepsAppAlive` |
| `ServiceControl` | 4 jobs of dialog and setup, 1 act of an administrator, any call may fail, fair service and tools | `TypeOK`, `ButtonsTellTruth`, `DeletesStopped`, `ToolReturns` |
| `Zlog` | 2 threads, 7 messages, 2 archives or no limit, 2 faults (crash, failing rename, open, file lock), fair | `TypeOK`, `LogKept`, `OneLateMessage`, `AtMostMaxCount`, `RenameFindsRoom`, `MutexIsOwned`, `WritesToItsFile`, `FiniWaits`, `ImplementsLog`, `LogReturns` |

**Bounds and why they suffice.** A vehicle meets others only in the
queue, in the table and as the server's previous customer; two of them reach
every such meeting. `MaxImages` is 1 and the queue bound 1 or 2, so the limit
of 500 is reached all the time. `Watch` waits at the queue bound, where the
code never waits; a name put later is a name announced later. A wrong read of a deleted
record counts against the bound on faults. One fault shows
what each failure does alone, at every place, and two what one leaves for the next:
`FindDbError` and `PipelineFaults` have the two that it takes to move a picture without a
record. A wrong read needs two vehicles to hit another row, hence `PipelineTwo`;
`PipelineLive` leaves `CONNECT_ERROR` out, since a wrong read can close a row for good. Four clicks are two starts and two stops, so the second start
meets all that the first stop left. Two controllers are what interleaves in
`ThreadStartAll`; `HeldUp` keeps the two workers that do not look at
`m_ExitCode` in every turn (the other three only multiply states). Two runs of
the service show what one leaves to the next. Four jobs are an installation, a
start, a stop and a removal, or two tools at each other twice; `PollLimit` 1
lets every poll run out while the service is pending. In `Zlog` `MaxSize` 2 lets
seven messages fill more files than the two archives that are kept, so archives
are removed, and two faults let a roll meet what a broken roll or a crash left.
The limit of 2 MB itself is not counted up to: only that it is reached matters.

**Fairness and why.** Threads are scheduled by the OS and none of the
modelled loops waits on a lock: weak fairness for every thread. The camera
finishes a file it started (weak), but need not start one. The server takes a
vehicle if it is sent again and again (strong fairness of
`UploadInfo("OK")`: it may refuse any number of times). In `StartStop` the
*environment* is fair only in `LiveSpec`: files keep coming, the server answers. This
is an assumption on the site, not on the code, and `FindStopHangs` shows what
happens without the first half. In `ServiceWatchdog` `CreateProcess` succeeds
if tried often enough. In
`ServiceControl` the service finishes what the SCM asked it for (`Service`, which
`ImplementsService` of `Watchdog` shows the watchdog does), and a tool goes on
without need of a failure. In `Zlog` a thread inside `vdzlog` runs (weak), and gets
the reader-writer lock in the end (strong fairness of `Enter` or `Create`: the lock of
pthreads-win32 lets no new reader in before a waiting writer). Users, the SCM and
all faults are free.

### What the code does not keep

Each of these runs checks one statement that the sources make and TLC refutes.

| run | statement (source) | what happens |
|---|---|---|
| `FindDbError` | "after adding, check to be sure it was written to the database" (817) | `CheckImageExist` returns -1, that is true, on errors (`DB.cpp:76, 94, 108`): after two failing statements the pictures are moved and no row was ever written |
| `FindPictures` | "upload the pictures, from the http folder or else the ftp folder" (862) | the format string of lines 1231-1251 has no place for the name: no picture is ever sent |
| `FindQueueRace` | "put the files watched into the list" (550, `Readme.txt:88`) | the pushes of the watcher (615) and of the lister (970) overlap and store in the same slot: a name whose push has returned is gone. The size is then one more than the names, so a later `front()` reads a slot nobody wrote; pops race with pushes in the same way. The mutex that was to be around the push is commented out (614, 616) |
| `FindStopHangs` | the `OVERLAPPED` "tells the thread to leave ReadDirectoryChangesW" (565) | it is not passed to the call: without a new file the stop waits for ever |

The limits of three passing runs are of the same kind. `MovedIsComplete` needs
an FTP server that does not share its files for reading: with `WriterShares =
TRUE`, a picture queued at its first write (613) is copied truncated and its
source, complete by then, deleted. `MenuTellsTruth` and `OneWorkerPerKind` need
`Patient = TRUE`: the controllers of two quick clicks interleave, and a click
made while a stop hangs starts a second set of workers. `OneLateLaunch` says at
most one launch after PAUSED or STOPPED was reported, and one does happen: `Run`
does not look at `bStop` and `bPause` between its snapshot and `CreateProcess`.

Weaknesses the models have as steps, and that the properties state as exceptions:

* After `CONNECT_ERROR` "connect again" (922) goes back with the record deleted at
  line 910, and deletes it again: `freed` in `Pipeline`, and from then on the process may
  crash. If it does not, it may read the id or the text of another vehicle, or neither: a
  row is closed that the server got nothing of, or a vehicle is sent again. `misread` counts
  such reads; `ClosedWasReported` and `BoundedResend` allow one row, or one more report of a
  vehicle, for each, and `ImplementsDelivery` holds until the first.
* "It is safe to reopen the fd of file" (`rotater.c:648`): it is not, for the threads in
  `rule.c:202` do not ask the rotater. A message is lost that is given to the handle between the
  close and the open of a roll, or to one closed since the thread read `static_fd`. How many are lost
  while the file is closed depends on how long that takes; afterwards it is one per thread
  (`OneLateMessage`). If the value was given to another file in between, the message lands
  there.
* A crash between copy and deletion (820, 823) leaves a picture in the FTP folder
  that no later run can move, as `CopyFileEx` fails if the copy exists, although
  "after a restart first process the files left over" (945). The exception of
  `FtpFolderDrains`. With 500 of them the queue is full after each listing.
* `KService::UnInstall` returns 0 when `ControlService` fails (230), and
  `GetLastError()` of calls that succeeded for a service that is paused or was not
  stopped in time (236); `Start` returns 0 when a query fails (264, 276): the buttons
  then tell what is not so. `ButtonsTellTruth` excuses a dialog with `trouble`.
* When `ControlService` fails, `-uninstall` goes on with the STOPPED its record was
  made with (`wx_kk_service.cpp:174`, 350) and deletes a running service, which goes away when
  it stops. `DeletesStopped` excuses it for the same reason.
* When `LockFile` fails once, the mutex of the rotater stays locked
  (`rotater.c:580`) and no file is rotated any more: `refused` in `MutexIsOwned`.
* When the file of a rule cannot be opened again (`rotater.c:681`), every later write
  fails before the place that would open it (`rule.c:202`): the rule is silent until the
  program is restarted. The exception of `WritesToItsFile` (that `faults > 0` only says that
  something failed: a handle is `Invalid` after no other fault).
* A roll broken off leaves one hole in the numbers, which the next one fills
  (`RenameFindsRoom`). It does not get over two holes, which somebody makes who deletes
  archives by hand: then the same rename fails at every roll.
* A thread that logs after `zlog_fini` dies of the NULL default category
  (`zlog.c:763`), and one before its first write lock of `zlog_env_conf` (783): place
  "dead". `ExitInstance` calls it while the workers may still run.

Two more disagreements are plain from reading. `Readme.txt:88-96` and the comment at line 738
say that the picture is copied from the ftp to the http folder and then the row written; the code
writes the row first (813), checks it (817), and then copies and deletes (819-823). The
models have the order of the code, and so has the comment of line 817, which is the
statement `RecordBeforeMove` is taken from. And the comments at 1167 and 1199 and in
`wx_kk_upDlg.h:72-78` give `CONNECT_ERROR` as 3; `tfcommon.h:15` defines it as -2.

## 4. Theorems

TLAPS proves these for every value of the constants the named assumptions of the
modules allow: any vehicles, replies, faults and bounds of `Pipeline`, any workers and
number of clicks of `StartStop`, any number of runs and starts by hand of
`ServiceWatchdog`, any poll limit and number of jobs of `ServiceControl`, any threads,
limits and faults of `Zlog`. Where a theorem needs more, the table says so.

| theorem | module | statement |
|---|---|---|
| `TypeCorrect` | `PipelineProofs` | `Spec => []TypeOK` |
| `NoPictureLost` | `PipelineProofs` | `Spec => []CopyBeforeDelete` |
| `MovedWhole` | `PipelineProofs` | `~WriterShares` implies `Spec => []MovedIsComplete` |
| `RecordedOnce` | `PipelineReportProofs` | `Spec => []OneRowPerImage` |
| `MarkedAfterReport` | `PipelineReportProofs` | `Spec => []ClosedWasReported` |
| `ReportedOnceBarFaults` | `PipelineReportProofs` | `Spec => []BoundedResend` |
| `PipelineDelivers` | `PipelineDeliveryProofs` | `WxMode` implies `Spec => ImplementsDelivery` |
| `PipelineIsDelivery` | `PipelineDeliveryProofs` | `WxMode` and `"CONNECT_ERROR" \notin Replies` imply `Spec => D!Spec` |
| `MovesNothingOnOneError` | `PipelineDeliveryProofs` | `Spec => []OneErrorMovesNothing` |
| `StartStopTypeCorrect` | `StartStopProofs` | `Spec => []TypeOK` |
| `WorkersAreSingle` | `StartStopProofs` | `Patient` and `"watcher" \in Kind` imply `Spec => []OneWorkerPerKind` |
| `MenuIsTruthful` | `StartStopProofs` | the same for `MenuTellsTruth` |
| `HandleIsOwned` | `StartStopProofs` | the same for `WatcherOwnsHandle` |
| `ServiceTypeCorrect` | `WatchdogProofs` | `Spec => []TypeOK` |
| `RunsOneApp` | `WatchdogProofs` | `Spec => []OneApp` |
| `LaunchesOnceMore` | `WatchdogProofs` | `Spec => []OneLateLaunch` |
| `ReportsAsService` | `WatchdogProofs` | `Spec => S!Spec`: the safety of `ImplementsService` |
| `ControlTypeCorrect` | `ServiceControlProofs` | `CSpec => []TypeOK` |
| `ButtonsAreTrue` | `ServiceControlProofs` | `CSpec => []ButtonsTellTruth` |
| `StoppedBeforeDeleted` | `ServiceControlProofs` | `CSpec => DeletesStopped` |
| `FiniWaitsForAll` | `ZlogProofs` | `Spec => []FiniWaits` |
| `MutexOwner` | `ZlogProofs` | `Spec => []MutexIsOwned` |
| `OneRotates` | `ZlogProofs` | `Spec => []RotatesAlone` |
| `ZlogTypeCorrect` | `ZlogFileProofs` | `Spec => []TypeOK` |
| `ArchivesBounded` | `ZlogFileProofs` | `Spec => []AtMostMaxCount` |
| `RenamesFindRoom` | `ZlogFileProofs` | `Spec => []RenameFindsRoom` |
| `WritesGoToTheFile` | `ZlogFileProofs` | `Spec => []WritesToItsFile` |
| `LogIsKept` | `ZlogFileProofs` | `Spec => []LogKept` |
| `OneMessageIsLate` | `ZlogFileProofs` | `Spec => []OneLateMessage` |
| `KeepsTheNewest` | `ZlogFileProofs` | `Spec => ImplementsLog` |

*Type correctness.* `TypeOK` alone is not inductive: popping a name sets
`imagePath`, and the actions after it need it to be a vehicle. `TypeInv` adds
that `imagePath` names a vehicle whenever the processor is not idle.

*No picture lost.* The deletion happens a step after the copy, and the camera,
the other threads and a crash may act between the two. `FileInv` adds to
`CopyBeforeDelete` that the HTTP folder holds the picture at hand while the
processor stands before its deletion, and that the FTP folder holds only what
the camera put there. Nothing ever takes a picture out of the HTTP folder, so
no other action can disturb this. `HttpIsWhole` says that the HTTP folder holds
no partial file; with `~WriterShares` a copy keeps it, and with
`CopyBeforeDelete` it gives `MovedIsComplete`.

*Rows and reports.* `ReportInv` joins what the places of the two threads say
about table and server: while the processor is about to add a vehicle, the
table has no row for it (`NotYetRecorded`: only this thread adds, and an error
of the check skips the addition instead of repeating it); only recorded
vehicles were sent (`OnlyRecordedSent`); the rows closed, or about to be, whose vehicle the
server never took (`Doomed`) are no more than the wrong reads (`DoomedBounded`), for an answer
OK dooms one row at most, the one whose id was read, and none if id and text were right;
the rows in `listIn` exist, and the one at hand
was taken out of it (`TakenOut`). `BoundedResend` needs one more conjunct,
`NoMoreReports`: with `Failures` for the faults and wrong reads so far, a vehicle the server
took `Failures + 1` times has a row that will
not be sent before the next of them, because it is closed, or about to be, or the
uploader's handle is dead and it reads no rows any more (`Settled`).

*Delivery.* While nothing was misread, each action of `Pipeline` is a step of `Delivery` for one
vehicle or changes `stage` of none; and without `CONNECT_ERROR` no record is read after its
deletion (`NothingMisread`), so that is `D!Spec`. What needs `ReportInv` is that a vehicle is never recorded twice
(`AddRecord`), is reported only when recorded, and not reported a first time after it
was closed (`UploadInfo`), and is marked only after its report (`MarkUploaded`). `WxMode` is
needed: the other run mode, for tests, closes records that nobody was sent.

*Record before move.* The comment of line 817 does not hold (`FindDbError`): two errors of the
table move an unrecorded picture. One does not, unless it is a failing `sqlite3_prepare_v2`
of the processor: that is two errors by itself, as the handle it leaves behind makes every
later check fail, and a failed check counts as "it is there". So `OneErrorMovesNothing` speaks
of the states in which that handle (`conn["proc"]`) is not dead; in all others, faults of any
kind included, by `MoveInv` a vehicle that is checked again without being in the table has the one
error behind it, so the check that would let its picture through is the second to fail.

*Start and stop.* `StartStopInv` names the phases a patient user sees: `Off`; `Opening`,
`Creating`, `Created` and `On`; `Closing`, `Joining`, `Joined`. Each says which workers live,
whose click they are of, and what `m_ExitCode`, `thread[]`, `hDir` and the open handles are.
`Alone` says that only the last click has a controller. The three properties follow from
the phases, and a step leads to the same phase or the next. `Patient` is what the code
does not enforce (section 3), and the watcher is the worker that closes the folder; the
other four kinds may be any subset.

*Watchdog.* The two threads of the service interleave their assignments and reports, each of
which is a list in `code[t]`. `ServiceInv` describes the lists that can occur together in
four phases (`Resting`, `Starting`, `Working`, `Ended`). `LateInv` adds when a launch after the
report can still come: it is possible while `run` stands between its test and
`CreateProcess`, and after it `Barred` holds until CONTINUE lifts it, which resets
the count. `AppInv` adds to `OneApp` that what `Run` is about to start is not there, but
for starts by hand. For `ReportsAsService` every list is looked up in a table of goals
(`GoalTable`), so that each report is a step of `ScmService` towards the goal.

*Tools and service.* What the dialog may rely on depends on where it stands, so
`ControlInv` is a table (`Knows`) from the place of the dialog, its job and its
result to the state of the service, its entry and the buttons, guarded by `~trouble`. Everything
others do to the service sets `trouble` (`Stranger`), so only the dialog's own steps and those
of the service towards its goal can disturb the table. `DeleteInv` says that a tool
about to delete saw STOPPED and that nobody has started the service since. A dialog that
was troubled and refreshes its buttons without error knows them again.

*Locks of the log.* `LockInv` says what the two locks mean. Of `zlog_env_lock`: a
writer excludes readers, and who is inside, or about to give the read lock up, holds
it. Of `lock_mutex`: who rotates owns it, and its owner rotates unless `LockFile` was
refused. `FiniWaits` follows because `zlog_fini` gets the write lock only when nobody
is inside, and nobody enters after it; a first message is the case to look at, since it
stands outside between its two locks. `OneRotates` is the remark "just one thread in
one process in the global system run code here" of `rotater.c:648`, for one process.

*Files of the log.* The archives are numbered 1 to n but for one hole at most, left by a
roll that was broken off (`Archived`), and a thread that rolls stands at the hole or
above it (`Rolling`): every rename moves the hole one place down, the last one closes it.
`RenameFindsRoom` is the place at the hole, `AtMostMaxCount` the number n; the
roll removes an archive first when n is the limit. `ListedIs` proves that the sorted listing
is what the numbers say. Nobody else rolls meanwhile, by `LockInv`. `LogKept` needs that
the handle is open on the newest file there is (`NewestInv`), so that what other threads write
during the roll is last in order; that a rename keeps the order, since the name it takes
is the hole; and that the file a roll removes is the oldest. `FdInv` says when the
handle is not on the file of its name.

*What a log keeps.* Each action of `Zlog` is a step of `MessageLog`. All but two leave every
message where it can be read: a write adds the next one (`NextMessage`) or loses it
(`LostMessage`), and a roll at the limit removes a file (`Removal`), whose messages are the oldest by `LogKept`. That enough is left
after it needs to know how much an archive holds, which `KeptInv` does not say. A
file may grow beyond its limit, by messages written during a roll, but is never rolled
below it (`Grown`), so by `AgeInv` the k-th archive begins at least k limits before the file of the
rule; the hole of a broken roll does not count (`Nth`). A file removed is the archive at the
limit, so the newest `archive_max_count` limits of messages begin after its last one. A message is the unit of
length here, so the theorem speaks of messages where the configuration speaks of bytes. For
`OneLateMessage`, `LateInv` adds that a thread whose handle is worth nothing, while the file is
open, has lost none since it was opened: the next message it writes reads `static_fd` anew.

**What the proofs changed in the models.** `TestExitCode` of `StartStop` had a `CASE` with
overlapping guards and is an `IF` now; the refinement mapping of `ServiceWatchdog` got names;
`Listed` of `Zlog` is defined by the number of files before each instead of a library sort,
and `LogKept` without the concatenation of the files, because the library defines these by
recursion or in a way the prover cannot expand. TLC found the old and new forms equal in every state of the runs. Every
inductive invariant was checked by TLC before it was proved.

**Model-checked only.** All liveness (`ImplementsFairDelivery`, `EveryVehicleUploaded`,
`FtpFolderDrains`, `StopEnds`, `ExitCodeEndsAll`, `KeepsAppAlive`, the fairness of
`ImplementsService`, `ToolReturns`, `LogReturns`): the prover does not reason about `ENABLED`.
The refuted statements of section 3 (`PushedIsQueued`, `UploadedWithPictures`) have no theorem
because they are false, and neither has `RecordBeforeMove` after two faults. All other properties
of the passing runs are theorems.

## 5. Not modelled, and why

* Configuration dialogs, ini files, log window, crash handler, process figures:
  no interaction beyond a data race on `kkConfig` noted in the hazards.
* The upload control and the traffic server: closed; only their results.
* `mysqllib`, `LPRDB`, `AutoUpdater`, `HttpClient`, `unixport`, `MyService`: in the
  tree but used by nothing here; SQLite, cJSON, minIni, pthreads: third-party.
* Of zlog: `zlog_reload` (called by nobody, and `reload conf period` is not set), files
  with dynamic names, archives numbered in sequence, the parser of the
  configuration, mdc, formats and buffers. `logcfg.conf` has six rules with a static
  file each; they share the locks and the handle values of the process: one is modelled, and
  what it writes through a value that was given to another rule's file counts as lost. What such a
  message does to the other file, a log or the database, is not. Nor is a full disk. The ring of 16 messages the
  log window reads is listed as a hazard: nothing else depends on it.
* Of the tools: registration of ActiveX controls, the list of installed
  services and the choice of paths, which are single calls without state.
* Other processes in the folder of the log: `LockFile` failing stands for them.
* The `%s` with which a stop logs what each worker returned (1105-1113), a pointer into the
  stack of a thread that is gone: undefined, like the queue's slots, but read only to be logged.
* `OnExit`: for the workers the end of the process at any point, the `Crash`
  of `Pipeline`.

*How much is left.* Almost nine tenths of the 200,000 implementation lines are third-party
source and headers under `src/third` (`sqlite3.c` alone is 140,000, then the
headers of MySQL and pthreads, unzip). The program's own code is about five thousand lines
of `wx_kk_up`, `wxCore`, `wx_kk_up_service` and `InstanceConfig`, much of it
dialogs, logging calls and formatting, so the modelled share of the whole tree
stays small whatever is added.

## 6. Plan

Done, in this order: `TFDB`, `Pipeline` with `Delivery`, their proofs,
`StartStop`, `ServiceWatchdog`; then `ImageQueue`, `ScmService` with the refinement by
`ServiceWatchdog`, `ServiceControl`, `Zlog` with `ZlogProofs`, and `Pipeline` under
faults in its liveness run.

The theorems planned then are proved: the refinements of `Delivery` and `MessageLog` and, for
safety, that of `ScmService`, and every safety property of the passing runs.

Next, in this order:

1. `ImageQueue` with the mutex of lines 614 and 616 put back, as an implementation of the
   queue `Pipeline` uses.
2. An `Impatient` counterpart of `StartStopInv`: what a second click can and cannot break.
