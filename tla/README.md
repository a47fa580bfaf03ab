# Backuper: a TLA+ model of the backup service

Backuper pulls the files of one client machine to a backup server. The client is
a TLS service that lists and sends its files; the server, on a schedule, lists
them, downloads what is new or changed, and moves what is gone into a trash where
it expires. This directory holds TLA+ specifications of the program in `src/`
(Go), their model-checking configurations, and machine-checked proofs about them.

Source references are `file.go:lines` under `src/internal/`. `PROJECT.json` maps
every definition to its lines and lists runs, mutants, findings, hazards and
theorems.

To check one module: `tlc -config MCTrash.cfg Trash.tla`; to check the proofs, `tlapm`
on each of `ServiceProofs`, `TaskQueueProofs`, `DownloadProofs`, `SessionProofs`, `TrashProofs`,
`SyncCycleProofs`, `RestoreProofs` and the `NaturalLemmas` three of them use.

## 1. The system

| component | state | operations | talks to |
|---|---|---|---|
| scheduler (`server/scheduler.go`) | `running`, `pending` under a mutex; the ticker; row `running` of the `meta` table | first trigger, tick, stop signal, chain of cycles | starts cycles; sends the restart and overlap alerts |
| sync cycle (`server/cycle.go`, `control.go`, `store/diff.go`) | the cycle's status and pass; table `client_files` | list, compare, enqueue, trash, download, next pass, settle, report | the control connection, the store, the queue, the trash |
| transfer queue (`transfer/transfer.go`, `store/tasks.go`) | table `tasks`; a pool of workers, each with a connection; connection-lost flag | produce pages, take a task, dial, attempt, retry, skip, reset at boot | store, client |
| transfer of a file (`transfer.go`, `client/fileserver.go`) | `.part`, `.meta`, the stored copy, its row in `files` | GET with an offset, DELTA by block hashes, verify, rename, index | client |
| trash (`trash/trash.go`, `store/trashstore.go`) | `TRASH_DIR`, its `.versions`, table `trash` | move, make room, cleanup | store, file system |
| store (`store/*.go`) | SQLite: `files`, `client_files`, `tasks`, `trash`, `meta`, `cycles`, `events` | one SQL statement at a time, one writer | everyone on the server |
| first run (`server/firstrun.go`) | `meta.initialized` | indexes a storage that was filled by hand | store |
| client scanner (`client/scanner.go`) | none | walks the tree and streams it | control connection |
| client file server (`client/fileserver.go`) | the open file; the `.part` of a restore | GET, DELTA, PUT, DISK | data connection |
| restore (`server/restore.go`, `store/restorequeries.go`) | a queue in memory | list, skip what is newer on the client, PUT with retries | client |
| connections (`tlsconn`, `protocol`, `server/control.go`, `client/client.go`) | a stream of frames, deadlines, slots of the listener | handshake with passwords, request and answer, ping | both sides |
| rate limiters (`transfer/ratelimit.go`, `client/ratelimit.go`) | a token bucket | wait(n) | transfers |
| lock file, dry run (`server/lock.go`, `dryrun.go`) | the lock file; `client_files` | acquire, release; a comparison outside the service | other processes |
| alerts, events, reports (`alert`, `server/report.go`, `store/events.go`, `cycles.go`) | tables `events`, `cycles` | record, mail, mark as sent | SMTP |
| configuration, certificates, logs, status, commands | files | parse, generate, print | — |

What is hard in it:

* **Concurrency.** Ticks, the end of a cycle and the stop signal meet in the
  scheduler's mutex. Producer and workers meet on an unbuffered channel that a
  worker may cancel. The client's users change files while they are listed,
  compared and read.
* **Crashes.** Everything that matters is in SQLite and on disk, written one
  statement or one rename at a time: tasks by several writers, `.part` and `.meta`,
  the stored file and its index row, the trash file and its row.
* **Retries and resumption.** Attempts count over passes and restarts; a
  resumed download may meet another version of the file.
* **Leftovers.** An answer that comes after its deadline, the rest of a stream whose reader
  gave up, a goroutine of the client whose server has gone: each meets the next request.
* **Two keys.** `files` is keyed by path and compared by normalized (lower-case)
  path, so two paths can share what they should not.
* **Silence.** A directory that cannot be read looks like an empty one; errors
  of the trash are logged and do not change the cycle's status; the errors of some writes
  (`.meta`, the time of a restored file) are ignored.
* **Waits without end.** Reads, dials and sleeps have deadlines. A mail has none, and is sent by
  the goroutine that has something to say; and a rate limiter waits for ever if a frame is larger
  than its bucket, which no check of the settings excludes.

What makes the components correct: at most one cycle runs and no request for one
is lost; no two workers write one `.part`; a task has bounded attempts and its row
follows one life cycle; "OK" means that the server mirrors the list; a resumed
file is never a mixture; a file leaves the storage only for the trash, the trash
only when it is due, and each row finds its file; once the client rests, the
server converges to it; one service runs under the lock, works only with whole lists, and
reports every event; a restoration stores what it sent, replaces a file at once or not at
all, and gives its slots back; what a crash leaves behind in the trash does not add up. The hazards in `PROJECT.json` list each of these at the
line where it could go wrong, with the property that would notice.

## 2. Plan

Order of work, most important first. Modules marked * are done.

1. *`CycleQueue`, `Scheduler`: the overlap rule, abstract and
   as coded, with the refinement.
2. *`TaskQueue`, `TaskQueueProofs`: the queue, its workers and restarts, and its
   safety properties for every value of the constants.
3. *`Download`: one file, resumed and delta-transferred against a changing client.
4. *`Trash`: moves, versions and expiry under crashes.
5. *`SyncCycle`: the cycle over all of these, with one move and one download as
   single steps, against a client that changes while it is listed.
6. *`LockFile`: the lock file by system call, with crashes anywhere.
7. *`Control`, composed with 1 and 6 in `Service`, `ServiceProofs`: the process as a whole,
   its control connection with late answers, its row and its events; the proofs about 1 and 6
   are in `ServiceProofs` too.
8. *`Restore` with PUT, and `Config` with the settings it depends on.
9. *`Session`: a data connection as a stream of frames that several tasks share.
10. *`TrashProofs`, `DownloadProofs`, `SyncCycleProofs`, `SessionProofs`, `RestoreProofs`.
11. Open: `TaskQueue` over an index that holds twin rows; a dry run beside a cycle; statements of the store that fail;
    several files and workers in a restoration; the aggregation window of the alerts.

## 3. Modules

### CycleQueue and Scheduler

`CycleQueue` is what the program promises about overlapping cycles: one active,
one queued, more coalesce, closing forgets the queue. `Scheduler` is `Server.Run`:
`pc` is the main goroutine (boot, mark the meta row, first trigger, `select`, wait
for the WaitGroup, unmark), and the chain goroutines are counted by where they
are, before `RunCycle`, in it, or between it and the mutex. The module has no fairness: whether a
cycle ends depends on what it waits for, which `Service` knows. Each section under the
mutex is one action: `Trigger` (scheduler.go:44-65) and `ChainCheck` (32-40).
Counters are used because nothing in the code but `running` prevents a second
goroutine; that there is never one is what the invariant shows. `TimerFires`
drops a tick into the ticker's channel of one. `StopSignal`, `Crash` and
`StartProcess` may happen at any time; `metaRunning` alone survives.
`owed` and `unclean` are history variables: a trigger was accepted and no cycle
has started since; a process died with a cycle.

### LockFile, Control, Service

`LockFile` has any number of processes inside `AcquireLock` and `Release`, a system
call per step: `Create` (O_EXCL), the read with its verdict (`Refused`, `ReadStale`),
`Remove`, `Recreate`, `WritePid`, `Release`, and `Dies` anywhere. The file is known by
its creator, since a process may write its pid into a file another one has removed. A
pid is alive, dead or not written yet; a dead one may belong to another program
(`MayBeAlive`). `overlap` is history: two processes were inside `AcquireLock` together.

`Control` is `RunCycle` seen from its connection. `wire` holds the answers that were
asked for and not read; a reader whose deadline passes (`ReadsNothing`) leaves its
answer there, marked late, for the next reader. `MutexFree` is the mutex of the type
`control`, held from a request to its last answer; the ping goroutine (`PingSend`, `PingRead`)
competes with `ListSend`, `ListBatch`, `ListLast`. `table` is what `client_files` holds of this
pass's answer. `row` and `unsent`/`listed` are the row of the cycle and its events:
recorded, listed in the report, marked. The passes' contents are `Work`.

`Service` composes them: `Scheduler`'s `BeginCycle` happens together with `Control`'s
`Begin`, `EndCycle` with `End`, `Unmark` with the return that leads to `Release`, and `Crash` with the
death of the lock's holder. `OtherProcess` is every other process that tries to start.
`hung` names the waits that nothing may end: `MailHangs` puts the main goroutine (restart and
overlap alert) or the cycle's (disk alert, report) at a mail server that says nothing (smtp.go:68-137
has no deadline), and `LimiterHangs` a cycle at its limiter. `MainStep` and `CycleStep` are disabled by
them, but for the limiter once the stop signal is there, whose wait looks at the context.
`Runs` is followed only if its start did not overlap with another: two services on one database
are in no module.

### TaskQueue

The table `tasks` is a function from ids to rows or `NoRow`. `cpc` is the goroutine of
the cycle, which is also the producer: `pass`, then pages (`ListPage`), then the
hand-over of one task after the other on the unbuffered channel (`HandOver` is a
rendezvous of producer and worker and includes the `MarkTaskInProgress` that
follows), then `drain`, `settle` and three purges. `wpc` is each worker:
`select`, `dial`, `try`, and after a failed try `skip` or `requeue` and `sleep`.
Every UPDATE is a step of its own, so a crash can fall between `IncTaskAttempt`
(status `failed`) and the next write. `Enqueue` is the single SQL statement: it
blocks paths with a runnable row, or a row skipped in this cycle; new rows get
the ids behind the last one. `ResetStale` is what boot does with rows in progress.
An attempt is abstracted to its outcome: done, not found, or a failure that may
or may not close the connection; or it comes to wait in the limiter for more than the bucket holds
(`Throttled`), which only the context ends (`ThrottleCancelled`).

### Download

One path. Versions of the client's file are numbers; `Content` gives their blocks,
`Mtime` their times, and `Same` is the comparison of size and mtime within the
tolerance that both the diff and the resumption use. `Ask` chooses a plain or a
delta request; `BadOffset`, `Changed`, `Answer` are the three ways the client's
answer is taken; `WriteMeta`, `Block`, `FileEnd`, `SizeMismatch`, `Rename`, `Upsert`,
`MarkDone` follow transfer.go:357-523, `AnswerDelta` and `DeltaReadError` 530-632.
`Modify` writes a new version in place (the open file changes) or by replacement
(the client goes on reading the old one, `src`). A `Crash` while `.meta` is written
may leave it unreadable; so may an error of the writing, which the code ignores (`WriteMetaFails`). `Break` is any failed attempt, and every attempt has a clean
connection; what else may be in one is the subject of `Session`.

### Session

The other half of the same code: `processTask` hands its connection on from task to
task. Here the client's files rest, and what moves is `wire`, the frames of the client
that nobody has read. A request (`Ask`) appends the client's whole answer, or a
broken one that ends in an error frame or in the end of the stream. A block is a file
and an index, so that the model sees whose blocks end up where. `Refused`
is what makes the module interesting: `ReadExpect` gives a frame of the wrong type as
a `*ProtoError`, which `downloadOne` takes for an answer of the client and keeps the
connection; `Unexpected`, `Disturbed` and `TooLong` drop it, `WrongSize` and `LocalError` do not.
`StartsOver`, `Answered`, `Block`, `End`, `Complete` are the plain course. The queue is
reduced to one worker that takes the tasks in any order; `NextQueue` is the end of
`RunDownloadQueue`, which closes the connection, and the next comparison.
`behind` and `taken` are history: the request went out behind frames nobody had read, and the kinds
of answers to earlier requests that attempts at a file have taken for their own. `UnchangedIsStored`
is graded by them. A file that is taken for unchanged always has its size. If no earlier delta answer
was taken for it, its blocks are its own, at whatever place: an answer of another file gives that
file's size and mtime to the row, so the diff notices, but an answer to an earlier request for
the same file may start at another offset. If no earlier answer was taken at all, the content is the
client's. What happens when some were is the finding `stale_answer`.
Assumption: no two files agree in size and mtime (`meta`, `resp` and `index` say whose they are);
if two did, the wrong file could be taken for the right one more easily still.

### Trash

One path; `gen` numbers the contents the client's file has had. `moveOne` is
`MoveBegins`, `ToVersion`, `Bump`, then a rename or a copy that is complete only at its
end, `Unindex`, `Insert`; `Cleanup` takes one expired row at a time. `MoveFails` is an
error of any of these steps, after which `DropRow` deletes the index row, as
`MoveDeleted` does. A row of the trash carries, as history, the content it was
made for; `torn` is history too: a crash or error came exactly between the
rename of the canonical file and the update of its row. `LeftBehind` counts the files nobody will find:
in the trash without a row, in the storage without one in the index. Some crashes leave two (`DropRow` after
a copy whose source stayed is one), and `FewLeftBehind` says that none leaves more, then or later.

### SyncCycle

Several paths, numbered in the order of the client's walk; `Norm` says which of
them differ only by case. `Scan` reads one path at a time while `Write`, `Delete`
and `Rename` change the disk. `Enqueue` is `DedupClientFiles` and
`EnqueueDiffDownloads`: the join by norm gives one task per row that differs, so a
path may get two. `SelectBatch`, `MoveOne`, `MoveFails` and `BatchEnds` are the loop
of `MoveDeleted` with its progress test; `DeleteByNorm` deletes every row of the
norm. `NextPass` and `LastPass` are the loop of `RunCycle`, `Settle` the status.
`old` tells which tasks an earlier cycle enqueued: a skipped one of these does
not keep the path from being enqueued again. `missed`, `current`, `unmoved` and
`torn` are history variables.
Simplifications: a move and a download are single steps (`Trash` and `Download`
have their parts, and `CrashUnindexed` is the window between the rename of a
download and its row); two tasks of one path run one after the other; counting
queries do not fail; `client_files` is emptied at the end of the cycle in the
model, at the beginning of the next list in the code, and nobody reads it between.

### Config and Restore

`Config` has what the two `Validate` functions demand of the settings other modules
use, and the capacity of the client's token bucket: `Fits` says whether a frame of the
server can ever be paid from it, which no check of the program compares.

`Restore` is one file through `Restore`, `restoreWorker`, `sendRestoreFile`, the client's
listener and `handlePut`. Each attempt has a connection of its own (`conns`, `up`, `down`,
`closed`), and each connection a goroutine at the client (`h`) that outlives the attempt
when frames are left: it goes on with the same `.part` beside its successor. Files are
inodes, because an open file is written whatever its name is by then. `HandlePut`
decides what can be resumed, `Open` writes `.meta` (its error is ignored: the old one or an
unreadable one stays) and opens `.part`, then `Receives`, `ReceivesEnd`, `SizeWrong` or
`Renames` and `SetsTimes`, whose `Chtimes` may fail without a word and sets the time of whatever has the
name by then. `LocalError` is a failing call of the file system, after which the
goroutine reads the rest of the stream as requests (`Unsupported`); `Sticks` the wait of a
limiter that cannot be satisfied; `Leaves` its end. The control connection has a slot of the listener
until the client's read of it times out, since the command sends no pings; when that is, is left open at each
dial (`FreeSlot`). Beside them users write
(`Edit`), also between the replacement and the setting of the times; the service downloads and lists (`Download`, `ServiceLists`), the command is killed and
run again, the client restarts. `saw`, `seen` and `overlap` are history: what the check saw in the
list for the attempts to come, and for each connection, and that two goroutines have been at the file
together. Requests that a goroutine finds when its server has gone are read like any others, so a
request of an attempt long given up may open a `.part` that by now is of another version; it has
nothing to add to it (`HasNoMore`), which is what `ResumesSameVersion` leaves out.
Simplifications: one file and one worker, a connection for each attempt, versions of
one length (so a `.part` longer than the file exists only in `Download`), and the server's check of the
offset as part of `Resume`.

## 4. Runs

| run | bounds | states | what it shows |
|---|---|---|---|
| `scheduler` | `Service`: 2 processes, 2 attempts to connect, 2 passes, 1 event, 2 late answers, a mail or limiter that hangs anywhere | 498 thousand | one service, one cycle, under its lock; overlap rule as refinement of `CycleQueue`; restart alert; whole lists; no event left behind; no lost trigger and shutdown, but for the waits without end |
| `queue` | 2 workers, 2 paths, 2 rows, 2 attempts, 2 passes, pages of 1, 1 crash | 1.01 million | accounting of the queue and the meaning of OK over crashes and leftovers; every cycle ends, but for one whose limiter can never give, and that one at the stop signal |
| `download` | 4 versions, 2 faults, delta from 2 blocks | 14 thousand | no mixture is ever taken for the client's file; progress is kept; it gets stored |
| `bad_offset` | 2 versions, the second shorter, 1 fault | 511 | finding, below |
| `session` | 3 files of 2, 1 and 2 blocks, the last with an old copy, delta from 1 block, 4 attempts, 4 errors | 308 thousand | what a file that is taken for unchanged has of its own content, by the answers its attempts took; everything is stored in the end |
| `stale_answer` | the same files, 2 with an old copy, 3 attempts, 3 errors | 29 thousand | finding, below |
| `trash` | 3 contents, 3 versions, 2 days, retention 0, 2 faults, with and without a common file system | 2.05 million | rows and files agree, at most two files are left behind for each fault, nothing is lost before it is due |
| `trash_reappear` | 1 content, 1 crash | 210 | finding, below |
| `restore` | 2 versions of 2 blocks, 2 connections, 1 run of 2 attempts, 2 faults, 4 pairs of settings | 457 thousand | what a restoration stores, resumes and keeps; it ends; slots are given back |
| `restore_newer` | 2 versions of 1 block, 1 fault | 10 thousand | finding, below |
| `cycle` | 3 paths, 2 of them twins, 2 changes, 1 fault, 2 passes, batches of 2 | 966 thousand | what OK is worth, what may be trashed, convergence |
| `case_rename` | the twins alone, 2 changes, no fault | 1307 | finding, below |

Every property of a passing run has a mutant: a small change of one action or
operator, kept in the module beside it, under which the run fails.

Why the bounds suffice to meet the interesting cases. Service: a second
process meets the first in every state of both; an answer can be late for the next ping and for
the list of the second pass; one event is enough to be recorded behind the report.
Queue: with pages of one row a page boundary falls between any two tasks, a leftover row
of a crashed cycle is in the table with a new one of another path, a row that is purged makes
room for the next, and the second attempt is the last; the safety properties are
proved for any number of rows, workers and attempts. Ids are
bounded by the table; a diff that would need more ids than there are is not taken.
Session: four errors let a leftover follow a leftover on the same connection and on the next, and
let wrong content be stored and then be kept by a delta transfer, so that each grade of
`UnchangedIsStored` is met; the sizes differ so that another file's answer is longer and shorter
than the own one.
Restore: two connections are an attempt and what an earlier one has left; the settings are
enough slots and a single one, each with frames within and above the client's bucket: in the last the
first attempt's goroutine keeps the only slot, and no later dial can succeed.
Download: the versions of `MCDownload` include one that is a same-size
rewrite, a longer one with a common beginning and a shorter one. Trash: three contents
fill the canonical place and two numbers, and a second fault can follow one that
left files and rows apart. Cycle: two changes make a rename and a rewrite; batches of
two are smaller than the tree, so `MoveDeleted` loops; two passes reach the limit.

`CHECK_DEADLOCK FALSE` is set for `Download`, `Trash`, `Session` and `Restore`: there the client
may run out of versions or days, everything may be stored, or the runs of the command may be
over, and nothing is left to do.

Model checking also fixed how strong some properties can be. `OkMeansMirrored`
leaves out files that collide by case: the task of one may be left over and
overwrite the row of the other. `Mirrored` and `RowsFindTheirFiles` name the
windows (`torn`) in which the code does not hold them: a crash between the rename of a
download and its row, after which the client brings back an older version; and a
crash between the rename of a trash file and the update of its row, after which a
purge of the highest version makes the next move choose another number.

### Findings

Each is a run that expects a violation, with the sentence it contradicts quoted
in `PROJECT.json`.

* `bad_offset`: a file that became shorter than its `.part` is answered with
  BAD_OFFSET; `.part` is kept, and no later attempt can succeed.
* `trash_reappear`: a crash between the move to the trash and the deletion of the
  index row; if the same file comes back it is taken for stored.
* `case_rename`: two rows of one normalized path make the server download an
  unchanged file in every pass, for ever.
* `stale_answer`: an error of the server itself in the middle of a stream keeps the connection
  with the rest of the answer in it. The next requests read those frames, and since no answer names its
  file or offset, one takes the answer to an earlier request for its own. With three such errors
  a file is stored as a mixture of two, with the right size and its own size and mtime in its row: no
  later comparison notices. `session` and `UnchangedIsOwn` show how far it goes otherwise. A `.part` that got
  blocks of a longer file ends as in `bad_offset`.
* `restore_newer`: when the list fails, or is older than the file, `restore` replaces a
  newer file of the client without `-force`.

What the client cannot read it does not list, and the server moves it to the trash; the
specification is silent about it, so `TrashedOnlyIfMissed` counts it as missed rather than as
a finding.

## 5. Fairness

Fairness is only given to the program's own steps, and only where the code bounds the wait before them.
Dials, and reads and writes of connections between client and server, have deadlines (IO_TIMEOUT is taken to be
positive; 0 means none, conn.go:36 and 44), and sleeps a timer. Two
waits have no bound: that for a mail server, since `sendRaw` dials and talks without a deadline (smtp.go:110,
120, 132) on the goroutine that calls it; and that of a limiter for a frame larger than its bucket
(`transfer/ratelimit.go:32`, `client/ratelimit.go:41`), which `Validate` does not exclude. The modules have
both, and the liveness properties say what becomes of them:

* `Service`: `MainStep` and `CycleStep` are weakly fair, and disabled while `hung` says that they wait so.
  `NoTriggerLost` is excused by a cycle that hangs (not by a main goroutine that does: the
  trigger is queued before its mail), `ShutdownCompletes` by a mail only: the stop signal ends a wait in the limiter.
  `SelectDone` is strongly fair, since Go's `select` chooses at random among its ready cases and ticks could
  otherwise shadow the signal; `ListSend` too, since Go's mutex hands itself to a waiter that has
  starved for a millisecond, so that the pings cannot keep a list from being asked for.
* `TaskQueue`: the producer and each worker are weakly fair, but for `Throttled`, which may happen or not
  and ends only by the context. `CycleEnds` is excused by a worker there, and not even by that after the stop signal.
* `Restore`: the command and each goroutine of the client are weakly fair, but for one that `Sticks`. There is
  no mail, and the server's limiter is not used.
* `Download`, `Session`: cycles come again and an attempt goes on. `Trash`: downloads, moves and cleanups come
  again. `SyncCycle`: a cycle that can go on does, and `Begin` is strongly fair: the disk is not found full by
  every cycle. This takes cycles that end: mails that are answered and, for `StoredUnlessBadOffset`,
  `StoredInTheEnd` and `Converges`, frames and blocks that fit into both limiters. Those properties are about
  what attempts do with `.part`, connections and rows, and hold for such settings.

Ticks, signals, crashes, users, failures, hangs and the clock have no fairness, so liveness is never
bought with their help; faults and changes are bounded, so that "once they rest"
is reached in every behaviour.

## 6. Proofs

`ServiceProofs` begins with the parts. Of the scheduler it proves, for every behaviour and with no
bound on ticks, cycles, crashes or restarts:

* `SchedulerTypes`: `TypeOK`; the counters never go below zero;
* `OneCycleAtATime`: `AtMostOneCycle`;
* `ReturnsQuiet`: `NoCycleAfterReturn`;
* `RestartAlerted`: `RestartAlertSent`;
* `Refinement`: `ImplementsCycleQueue`.

None of the middle three is inductive. The strengthening `IInv` says that `running` is
the ownership token of the chain goroutine: the sum of the three counters is one if
`running` and zero otherwise; that there is no chain before the first trigger or
after the wait; that the meta row is set from the mark to the unmark and whenever an
unclean death is remembered; and that a process past its boot has sent the alert
if one is owed. Each action preserves it by arithmetic on three naturals;
the refinement then maps `Trigger` to `Start`, `Enqueue` or a stutter, and `ChainCheck`
to `Promote` or `Finish`. No assumption on constants is needed.

`TaskQueueProofs` proves every safety property of the run `queue`, for any number
of paths, rows, workers, attempts, passes, crashes and any page size:

* `TypeCorrect`: `TypeOK`;
* `PathsNotShared`: `NoSharedPart`;
* `AttemptsBounded`: `AttemptLeft`;
* `NilDrains`: `NilMeansDrained`;
* `OkIsComplete`: `OkMeansComplete`;
* `RowsLiveLegally`: `RowLifecycle`, from the invariant and one step.

Its inductive invariant `IInv` adds to the checked properties what each depends on:

* `RowsFit`: where a worker is determines the status of its row. Without it, a late
  UPDATE could revive a settled row or count an attempt of another worker's task;
* `HandedInOrder`, `PageAhead`: ids are handed out in ascending order, each page lies behind
  the last id handed out, and no two workers have one row;
* `OnePerPath`: of the rows that may run and the rows in a worker's hands (`Live`), no two
  have one path. A row in a worker's hands may be `failed` or `done` for a moment, which
  is why runnable rows alone are not enough; that `Enqueue` preserves it is
  the point of the rows its SQL excludes;
* `NoneForgotten`: a runnable row that the producer has passed is in a worker's
  hands unless the queue is cancelled, which gives `NilMeansDrained` once the workers are gone;
* `Accounted`: every file that is missing has a live row, or the cycle has skipped
  something, which gives `OkMeansComplete` when `Settle` reads both;
* `Quiet`: no worker runs outside the queue.

A step of a worker is first reduced to what it can touch (`OwnStep`: its own place and
row; `RowMoves`: what that row becomes); `WorkerKeeps` then proves the invariant once
for all twelve steps. The steps of the cycle are grouped the same way: those
that leave the table alone (`PlainSteps`), those taken while no worker runs (`NoWorkers`,
`FewerRows`), and `Enqueue`, `ListPage` and `HandOver`. `PageIsFirst` is about the query
`ORDER BY id LIMIT n`: a page comes before all it leaves out, and is empty only if nothing
is behind. Its minimum comes from the library's well-foundedness of strict inclusion
between finite sets.

Assumptions on the constants, each checked by every run: ids are positive naturals
(`IdsArePositive`: rowids, and 0 stands for "none" in the code's `afterID`); RETRY_COUNT,
SYNC_MAX_PASSES and the page size are at least one (`RetryPositive`, `MaxPassesPositive`,
`PageSizePositive`: config.go:351 and 367 refuse smaller ones, the page size is 2000); `NoRow` is not a row; `MaxCrashes` is a natural,
of any size. `Ids` may be infinite.

Of the lock file `ServiceProofs` proves `Exclusive` (`LockExclusive`) for any number of processes. The invariant says whose file is
there: a live pid belongs to a holder; and as long as no two starts have overlapped, at most
one process is acquiring, a holder's file is there under its pid, nobody who removes or replaces a
file meets a holder, and who is about to write its pid writes into the file that has the
name. `overlap` is reset when no process is left, so a clean restart is covered again.

Of the service it first shows that every step is a step of the scheduler and of
the lock file or leaves them alone (`ServiceSchedules`, `ServiceLocks`): what was proved
of the parts holds of the whole, `OneInstance` with it. Then:

* `CyclesLocked`: `CyclesUnderLock`, from `RunLocked`: while `Run` is under way the lock file is this
  process's, and no other process gets past reading it;
* `RowsTell`: `RowSaysRunning`, from where the cycle is and the scheduler's ownership token;
* `EventsReported`: `NoEventLeftBehind`: who may record an event between the report's query and the
  marking. Only the cycle itself does, not the ping goroutine;
* `ListsCurrent`: `ListIsCurrent`: what is on the wire while a list is read. The answers of
  earlier requests come before the list's own frames, so the list is read whole or an error ends the cycle.

`TrashProofs` proves every safety property of the run `trash`, for any number of contents,
versions, days and faults. Beside the properties the invariant needs what the place of `moveOne` says
of the three kinds of places (`PlacesFit`), that only expired rows are due, and that without a
fault rows and files are the same thing (`ExactUnlessFault`). The next version's number lies above
all rows' (`NextSeqIs`), which is why `ToVersion` never overwrites. `LostOnlyWhenDue` is a
property of steps: `StepLoses` goes through the steps that can take a file away. `FewAreLeft` (`FewLeftBehind`) has an invariant of
its own, `LeftBounded`: the files nobody will find, and one that is about to lose its row (`LosesRow`), are
within two for each fault, and one more while a file is on its way to its row (`UnderWay`). A move in good order
never leaves more behind than it found, a failing step spends its two; it takes that a file whose
row is being deleted from the index is no longer in the storage (`MovedAway`), and that the number of a new version is free.

`DownloadProofs` proves the safety properties of `download`, for any contents, number of versions,
sizes, tolerance and faults. The core is `IsNewest`: whatever is *said* to be the newest
version, by `.meta`, by the attempt or by the index, *is* a beginning of it, or all of it; it is
inductive because no note is ever newer than the client's file (`NothingNewer`) and a note of an
older version says nothing that the diff would trust. `NoBlockLost` is `ProgressKept`.

`SyncCycleProofs` proves the safety properties of `cycle`, for any number of paths, any spellings
of them, any changes of the client and any faults. The invariant follows the data through the
pass: what the walk has passed is listed as it is or was missed (`Walked`); after the comparison a
norm nobody listed was missed in all its spellings, and a listed file that collides with no
other has a task, was skipped, or is stored (`Compared`); a batch holds only rows of such norms
(`Batched`); after the moves nothing unlisted is indexed, or an error is on record (`Cleaned`). The step that
is easily got wrong is `DedupKeepsOne`: the removal of colliding spellings never empties a norm, because
the least listed path of it stays; without it a file would be moved to the trash for having a twin.
`OkIsMirrored` and `OnlyMissedTrashed` are then read off. They rest on `PathsAssumption` (the paths are
numbered as the client walks them), `NormAssumption` and `BoundsAssumption`.

`SessionProofs` proves the invariants of `session`, for any files, sizes, old copies, attempts and errors:

* `SessionTypes`: `TypeOK`; no answer outlives its attempt and no frame its connection;
* `UnchangedIsOwn`: `UnchangedIsStored`.

The second has three grades, and the invariant has a part for each. Frames of one answer stay together,
whatever is read, dropped or appended (`Coherent`), and an attempt that has taken a header reads on in
the answer of that file (`ReadsOn`): so the blocks of a plain transfer are of the file whose size and mtime
it notes (`MetaTells`, `MetaOfAttempt`), and if the row then agrees with the list it is the right
file. For the content itself, an attempt that is not `behind` has the rest of its own answer before it,
each frame at its place (`Aligned`), and a `.part` that was only ever filled so is a beginning of its
file (`OwnParts`, `OwnDelta`), which is why a resumption continues it. `BehindTakes` ties the attempt to
the history `taken` in which the property is stated. `AnswerFits` says of the client's answers, whole
or broken, what these parts need.

`RestoreProofs` proves the invariants and the action property of `restore`, for any number of connections,
runs, versions, blocks, faults and any settings that `Validate` accepts:

* `RestoreTypes`: `TypeOK`, the bounds on the frames of a connection included;
* `RestoredAsSent`: `RestoredIsSent`: the content sent, with its time unless a fault (an unnoticed failure of `Chtimes`
  is one) kept it from being set, or what a user has written since, which `Chtimes` may give the time of the version sent;
* `AlwaysComplete`: `ReplacedAtOnce`;
* `ResumesOwnVersion`: `ResumesSameVersion`;
* `NewerIsKept`: `NewerKept`.

The invariant follows one stream from both ends. Of the connections only the last is open, and only while
the worker has an attempt (`Links`). A request is the first and only frame of its connection and
names the version the attempt sends (`RequestFirst`, `ConnectionIsFresh`); a busy goroutine has before it the
stream from its own offset on, up to END (`StreamGoesOn`); as long as the connection is open the worker
and the goroutine agree on version and offset (`InStep`); each frame has at most one answer (`Lengths`).
What the files hold follows: a goroutine finds `.part` as long as it takes it to be and with
the blocks of its own version (`PartOfBusy`, `PartIsOwn`), under its name it is that version whole (`RenamedIsOwn`),
and what `.meta` says of a `.part` is true or about a version nobody asks for any more (`MetaTells`): versions
only grow (`VersionsOfWorker`, `VersionsOfClient`), so a note that got not written is an older one. This part
needs that no two goroutines have been at the file together (`OneBusy` under `~overlap`): the code has no
lock for a path, and with two of them each property fails. What the file may be once the answer OK is on its way is
`AsTold`: `TimesAreTold` is about what `SetsTimes` leaves, `AsToldStays` about the steps after it. `SuccessIsTrue` is `RestoredIsSent` from the
moment the answer OK is sent: whoever is busy by then has nothing more to read. `NewerKept` is a property of
steps, from `SeenByWorker` and `SeenByClient`: what the check saw is not newer than any version on its way.
A step of the client is first reduced to what it can touch (`OnlyItsOwn`, `GoroutineSteps`), as with the workers
of the queue; `AloneIs` says that without overlap the files are touched by one goroutine alone.

`NaturalLemmas` has the facts about least members of sets of naturals that `TaskQueueProofs`,
`TrashProofs` and `SyncCycleProofs` use for ids, versions and paths.

Further assumptions on constants: `NoFileAssumption` (no lock file is not a process),
`SvcAssumption` (the service is a process), `Bounds` and `RenameIsBoolean` (`Trash`), `VersionsArePositive`,
`DeltaMinNat`, `MaxFaultsNat` (also in `Session`), `ContentNotEmpty` (an empty file has no `.part`), and `VersionsDiffer`: two versions
of a file differ in size or in mtime by more than the tolerance. Without the last the program cannot
tell them apart, and means not to. In `Session` `PathsArePositive`, `SizesAreNat` and `RetryPositive` (0 is "no
file"; RETRY_COUNT as above). In `Restore` `VersionsAssumption` (versions are numbered as they are made, and the
mtime of a version is its number), `BoundsAssumption` (a file has at least a block; the bounds are naturals of any
size) and `ConfigsAssumption` (the settings pass both `Validate` functions).

Only model-checked: what needs fairness or `ENABLED`, which are out of the prover's reach: `NoTriggerLost`,
`ShutdownCompletes`, `CycleEnds`, `StoredUnlessBadOffset`, `StoredInTheEnd`, `CommandEnds`, `SlotsFreed` and `Converges`.
Every other property of a passing run is a theorem. No module declares a recursive operator.

## 7. Not modelled

* The dry run. It writes a report; that it also writes `client_files` without the lock is a hazard
  of its own in `PROJECT.json`. Bringing it into `SyncCycle` would break the two properties that
  take the table for the cycle's own, in a way one reads off the code.
* The queue over an index with two rows of one norm, where two workers could have the same `.part`:
  `SyncCycle` has the two tasks, one after the other, and `TaskQueue` the workers, on an index without twins.
* Several files and workers in a restoration, and a connection that a restore worker reuses. A file
  whose time could not be set is not followed into the storage by a later cycle.
* Two goroutines of the client at one file. `Restore` has them, but `RestoredIsSent`, `ReplacedAtOnce` and
  `ResumesSameVersion` are about the time before they meet: with no lock for a path the outcome is open then.
* A restoration that is killed and run again is beyond the bounds of the run `restore`; what `NewerKept` says of it
  rests on the theorem, which has any number of runs.
* Statements of the store that fail, other than those named in `TaskQueue`; SQLite is otherwise taken at
  its word: a statement is atomic and durable. The limit on the parameters of one statement
  (`MarkEventsSent`) is a hazard without a property.
* A full disk as a quantity; the aggregation window of the alerts, and time in the rate limiters.
* Encoding and decoding of frames, path cleaning, TLS and certificates, parsing of the
  configuration, logs, status files, the composition of mails, and installation: conversions and
  I/O that unit tests reach, with no interleaving of their own.

One disagreement of code and specification is not a run: src/тз.md:442 has a break on the level of the
network retried RETRY_COUNT times. The code retries the connection so, but not the list: a break there
ends the cycle (`ListError`), and the next planned one tries again.
