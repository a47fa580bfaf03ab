------------------------------ MODULE SyncCycle ------------------------------
(***************************************************************************)
(* The cycle of the server, RunCycle of internal/server/cycle.go, as the   *)
(* files see it: the client's list, read path by path while the client     *)
(* goes on writing (handleList of internal/client/scanner.go and loadList  *)
(* of internal/server/control.go); the comparison with the index by        *)
(* normalized path (internal/store/diff.go, internal/store/store.go); the  *)
(* move of what is not listed to the trash; the downloads; the passes.     *)
(*                                                                         *)
(* A path is a number, its place in the order of the client's walk, and    *)
(* paths that differ only by case have the same Norm.  A version is a size *)
(* and mtime that differ from every other; version 0 is no file.  One move *)
(* and one download are steps here (modules Trash and Download have        *)
(* them), the tasks of a path are a count (module TaskQueue has the        *)
(* table), and two downloads of one path never overlap.                    *)
(***************************************************************************)
EXTENDS Naturals, FiniteSets

CONSTANTS
  Paths,       \* 1 .. N
  Norm,        \* NormKey of each path
  MaxChanges,  \* bound on what the client does
  MaxFaults,   \* bound on crashes, errors and lost connections
  MaxPasses,   \* SYNC_MAX_PASSES
  BatchLimit   \* rows MoveDeleted reads at a time (1000 in the code)

ASSUME PathsAssumption == IsFiniteSet(Paths) /\ Paths = 1 .. Cardinality(Paths)
ASSUME NormAssumption == DOMAIN Norm = Paths
ASSUME BoundsAssumption ==
  /\ MaxChanges \in Nat /\ MaxFaults \in Nat
  /\ MaxPasses \in Nat \ {0} /\ BatchLimit \in Nat \ {0}

VARIABLES
  disk,         \* the client's files
  changes,      \* what the client has done so far
  storage,      \* STORAGE_DIR
  files,        \* the index: the version of each row
  initialized,  \* meta.initialized
  list,         \* client_files
  tasks,        \* the runnable tasks of each path
  old,          \* paths whose tasks an earlier cycle enqueued
  skipped,      \* paths with a task of this cycle that was skipped
  batch,        \* what MoveDeleted has read and not moved yet
  moved,        \* MoveDeleted moved something in this pass
  progress,     \* ... and from this batch
  enqueued,     \* this pass enqueued something
  anySkipped,   \* res.SkippedFiles > 0
  status,       \* the status the cycle will report
  pass,
  pc,           \* where the cycle is
  cursor,       \* the last path the client's walk has passed
  missed,       \* history: not there when the walk was, or not readable, or
                \* gone since
  current,      \* history: nothing changed since the list was begun
  unmoved,      \* history: an error left files of this cycle unmoved
  torn,         \* history: a crash left a stored file without its new row
  faults

world == <<disk, changes, missed, current>>
server == <<storage, files, initialized, torn>>
queue == <<tasks, old, skipped, anySkipped>>
move == <<batch, moved, progress, unmoved>>
cycle == <<enqueued, status, pass, cursor>>
vars == <<world, server, list, queue, move, cycle, pc, faults>>

None == 0
Last == Cardinality(Paths)
Versions == 1 .. Last + MaxChanges
Tree == [Paths -> Versions \cup {None}]
Empty == [p \in Paths |-> None]

PC == {"idle", "scan", "diff", "trash", "batch", "queue", "settle", "finish"}

Twins(p) == {q \in Paths : Norm[q] = Norm[p]}

\* The rows a path joins with.
RowsOf(p) == {q \in Twins(p) : files[q] # None}

TypeOK ==
  /\ disk \in Tree /\ storage \in Tree /\ files \in Tree /\ list \in Tree
  /\ changes \in 0 .. MaxChanges /\ faults \in 0 .. MaxFaults
  /\ initialized \in BOOLEAN /\ moved \in BOOLEAN /\ progress \in BOOLEAN
  /\ enqueued \in BOOLEAN /\ anySkipped \in BOOLEAN /\ current \in BOOLEAN
  /\ unmoved \in BOOLEAN /\ torn \in BOOLEAN
  /\ tasks \in [Paths -> 0 .. Last]
  /\ old \subseteq {p \in Paths : tasks[p] > 0}
  /\ skipped \subseteq Paths /\ batch \subseteq Paths /\ missed \subseteq Paths
  /\ status \in {"OK", "PARTIAL", "FAILED"}
  /\ pass \in 0 .. MaxPasses /\ cursor \in 0 .. Last
  /\ pc \in PC

CycleReset ==
  /\ skipped' = {} /\ anySkipped' = FALSE
  /\ batch' = {} /\ moved' = FALSE /\ progress' = FALSE /\ unmoved' = FALSE
  /\ enqueued' = FALSE /\ status' = "OK" /\ pass' = 0 /\ cursor' = 0
  /\ missed' = {} /\ current' = FALSE
  /\ list' = Empty  \* kept in the code, and emptied before it is read again

\* Before the first run the files may have been carried over by hand, and
\* the client may have deleted some since.
Init ==
  /\ disk \in {f \in Tree : \A p \in Paths : f[p] \in {None, p}}
  /\ storage \in {Empty, disk, [p \in Paths |-> p]}
  /\ files = Empty /\ initialized = FALSE /\ list = Empty
  /\ changes = 0 /\ faults = 0 /\ torn = FALSE
  /\ tasks = [p \in Paths |-> 0] /\ old = {} /\ skipped = {}
  /\ batch = {} /\ moved = FALSE /\ progress = FALSE /\ unmoved = FALSE
  /\ enqueued = FALSE /\ anySkipped = FALSE
  /\ status = "OK" /\ pass = 0 /\ pc = "idle" /\ cursor = 0
  /\ missed = {} /\ current = FALSE

Fault == faults < MaxFaults /\ faults' = faults + 1

-----------------------------------------------------------------------------
(* The client's users.                                                     *)

Change(f, gone) ==
  /\ changes < MaxChanges
  /\ changes' = changes + 1
  /\ disk' = f
  /\ missed' = IF pc = "idle" THEN missed ELSE missed \cup gone
  /\ current' = FALSE
  /\ UNCHANGED <<server, list, queue, move, cycle, pc, faults>>

Write == \E p \in Paths : Change([disk EXCEPT ![p] = Last + changes + 1], {})

Delete == \E p \in Paths :
  disk[p] # None /\ Change([disk EXCEPT ![p] = None], {p})

\* A rename keeps size and mtime.
Rename == \E p, q \in Paths :
  /\ disk[p] # None /\ disk[q] = None
  /\ Change([disk EXCEPT ![q] = disk[p], ![p] = None], {p})

-----------------------------------------------------------------------------
(* The beginning of a cycle.                                               *)

\* The first run indexes the storage, or, if that fails, a part of it, and
\* is over in both cases.
FirstRun ==
  IF initialized
  THEN UNCHANGED <<files, initialized, faults>>
  ELSE /\ initialized' = TRUE
       /\ \/ files' = storage /\ UNCHANGED faults
          \/ /\ Fault
             /\ \E S \in SUBSET Paths :
                  files' = [p \in Paths |-> IF p \in S THEN storage[p] ELSE None]

\* loadList: the request, and the emptied table.
BeginList ==
  /\ pc' = "scan" /\ cursor' = 0
  /\ list' = Empty
  /\ missed' = {} /\ current' = TRUE

Begin ==
  /\ pc = "idle"
  /\ FirstRun
  /\ pass' = 1 /\ old' = {p \in Paths : tasks[p] > 0}
  /\ BeginList
  /\ UNCHANGED <<disk, changes, storage, torn, tasks, skipped, anySkipped, move,
                 enqueued, status>>

\* DISK_FULL: the cycle is over after the first run.
BeginDiskFull ==
  /\ pc = "idle"
  /\ FirstRun
  /\ status' = "PARTIAL" /\ pc' = "finish"
  /\ UNCHANGED <<world, storage, torn, list, queue, move, enqueued, pass, cursor>>

ConnectFails ==
  /\ pc = "idle" /\ Fault
  /\ status' = "FAILED" /\ pc' = "finish"
  /\ UNCHANGED <<world, server, list, queue, move, enqueued, pass, cursor>>

-----------------------------------------------------------------------------
(* The list.                                                               *)

\* The walk comes to the next path, and lists it if there is a file.
Scan ==
  /\ pc = "scan" /\ cursor < Last
  /\ cursor' = cursor + 1
  /\ list' = [list EXCEPT ![cursor'] = disk[cursor']]
  /\ missed' = IF disk[cursor'] = None THEN missed \cup {cursor'} ELSE missed
  /\ UNCHANGED <<disk, changes, current, server, queue, move, enqueued, status,
                 pass, pc, faults>>

\* A file or directory that cannot be read is passed over.
ScanUnreadable ==
  /\ pc = "scan" /\ cursor < Last /\ Fault
  /\ disk[cursor + 1] # None
  /\ cursor' = cursor + 1
  /\ missed' = missed \cup {cursor'} /\ current' = FALSE
  /\ UNCHANGED <<disk, changes, server, list, queue, move, enqueued, status,
                 pass, pc>>

ScanEnds ==
  /\ pc = "scan" /\ cursor = Last
  /\ pc' = "diff"
  /\ UNCHANGED <<world, server, list, queue, move, cycle, faults>>

ListFails ==
  /\ pc = "scan" /\ Fault
  /\ status' = "FAILED" /\ pc' = "settle"
  /\ UNCHANGED <<world, server, list, queue, move, enqueued, pass, cursor>>

-----------------------------------------------------------------------------
(* The comparison.                                                         *)

\* DedupClientFiles: of twins the one listed first stays.
Dedup(l) ==
  [p \in Paths |-> IF \E q \in Twins(p) : q < p /\ l[q] # None THEN None ELSE l[p]]

\* Mutant: only new files are found.
NewTasksNewOnly(l, p) ==
  IF l[p] = None \/ tasks[p] > 0 \/ p \in skipped \/ RowsOf(p) # {} THEN 0 ELSE 1

(* EnqueueDiffDownloads: a task for each listed path without a row, or one *)
(* for each row of its norm with another size or mtime; none for a path    *)
(* with a runnable task or one of this cycle that was skipped.             *)
NewTasks(l, p) ==
  IF l[p] = None \/ tasks[p] > 0 \/ p \in skipped THEN 0
  ELSE IF RowsOf(p) = {} THEN 1
  ELSE Cardinality({q \in RowsOf(p) : files[q] # l[p]})

\* handleCollisions and EnqueueDiffDownloads.
Enqueue ==
  /\ pc = "diff"
  /\ LET l == Dedup(list)
         new == [p \in Paths |-> NewTasks(l, p)]
     IN /\ list' = l
        /\ tasks' = [p \in Paths |-> tasks[p] + new[p]]
        /\ enqueued' = (\E p \in Paths : new[p] > 0)
  /\ moved' = FALSE
  /\ pc' = "trash"
  /\ UNCHANGED <<world, server, old, skipped, anySkipped, batch, progress,
                 unmoved, status, pass, cursor, faults>>

EnqueueFails ==
  /\ pc = "diff" /\ Fault
  /\ list' = Dedup(list)
  /\ status' = "FAILED" /\ pc' = "settle"
  /\ UNCHANGED <<world, server, queue, move, enqueued, pass, cursor>>

-----------------------------------------------------------------------------
(* MoveDeleted.                                                            *)

\* Mutant: a row is compared by its path.
UnlistedPath == {p \in Paths : files[p] # None /\ list[p] = None}

\* Rows no listed path has the norm of.
Unlisted == {p \in Paths : files[p] # None /\ \A q \in Twins(p) : list[q] = None}

\* SelectTrashBatch
SelectBatch ==
  /\ pc = "trash"
  /\ IF Unlisted = {}
     THEN pc' = "queue" /\ UNCHANGED batch
     ELSE /\ pc' = "batch"
          /\ \E S \in SUBSET Unlisted :
               /\ \/ S = Unlisted /\ Cardinality(S) <= BatchLimit
                  \/ Cardinality(S) = BatchLimit
               /\ batch' = S
  /\ progress' = FALSE
  /\ UNCHANGED <<world, server, list, queue, moved, unmoved, cycle, faults>>

SelectFails ==
  /\ pc = "trash" /\ Fault
  /\ pc' = "queue"
  /\ unmoved' = TRUE
  /\ UNCHANGED <<world, server, list, queue, batch, moved, progress, cycle>>

\* DeleteFileByNorm
DeleteByNorm(p) == [q \in Paths |-> IF q \in Twins(p) THEN None ELSE files[q]]

\* moveOne; a file that is not there counts as moved.
MoveOne ==
  /\ pc = "batch"
  /\ \E p \in batch :
       /\ batch' = batch \ {p}
       /\ storage' = [storage EXCEPT ![p] = None]
       /\ files' = DeleteByNorm(p)
  /\ moved' = TRUE /\ progress' = TRUE
  /\ UNCHANGED <<world, initialized, torn, list, queue, unmoved, cycle, pc, faults>>

\* An error: the file stays, its row is dropped.
MoveFails ==
  /\ pc = "batch" /\ Fault
  /\ \E p \in batch :
       /\ storage[p] # None
       /\ batch' = batch \ {p}
       /\ files' = DeleteByNorm(p)
  /\ unmoved' = TRUE
  /\ UNCHANGED <<world, storage, initialized, torn, list, queue, moved, progress,
                 cycle, pc>>

BatchEnds ==
  /\ pc = "batch" /\ batch = {}
  /\ pc' = IF progress THEN "trash" ELSE "queue"
  /\ UNCHANGED <<world, server, list, queue, move, cycle, faults>>

-----------------------------------------------------------------------------
(* RunDownloadQueue.                                                       *)

\* Mutant: a path counts as left over for good.
TaskEndsStayingOld(p) ==
  /\ tasks' = [tasks EXCEPT ![p] = @ - 1]
  /\ UNCHANGED old

\* A task of p is done, or skipped.
TaskEnds(p) ==
  /\ tasks' = [tasks EXCEPT ![p] = @ - 1]
  /\ old' = IF tasks[p] = 1 THEN old \ {p} ELSE old

\* The file is stored as it is now, and indexed.
Download ==
  /\ pc = "queue"
  /\ \E p \in Paths :
       /\ tasks[p] > 0 /\ disk[p] # None
       /\ storage' = [storage EXCEPT ![p] = disk[p]]
       /\ files' = [files EXCEPT ![p] = disk[p]]
       /\ TaskEnds(p)
  /\ UNCHANGED <<world, initialized, torn, list, skipped, anySkipped, move, cycle,
                 pc, faults>>

Skips(p) ==
  /\ tasks[p] > 0
  /\ TaskEnds(p)
  /\ skipped' = IF p \in old THEN skipped ELSE skipped \cup {p}
  /\ anySkipped' = TRUE

\* NOT_FOUND
SkipGone ==
  /\ pc = "queue"
  /\ \E p \in Paths : disk[p] = None /\ Skips(p)
  /\ UNCHANGED <<world, server, list, move, cycle, pc, faults>>

\* RETRY_COUNT attempts failed.
SkipFailed ==
  /\ pc = "queue" /\ Fault
  /\ \E p \in Paths : disk[p] # None /\ Skips(p)
  /\ UNCHANGED <<world, server, list, move, cycle, pc>>

\* The connection is lost, or the service told to stop.
QueueBreaks ==
  /\ pc = "queue" /\ Fault
  /\ status' = "PARTIAL" /\ pc' = "settle"
  /\ UNCHANGED <<world, server, list, queue, move, enqueued, pass, cursor>>

QueueDrained == pc = "queue" /\ \A p \in Paths : tasks[p] = 0

\* The next pass takes a new list.
NextPass ==
  /\ QueueDrained
  /\ (enqueued \/ moved) /\ pass < MaxPasses
  /\ pass' = pass + 1
  /\ BeginList
  /\ UNCHANGED <<disk, changes, server, queue, move, enqueued, status, faults>>

LastPass ==
  /\ QueueDrained
  /\ (~enqueued /\ ~moved) \/ pass = MaxPasses
  /\ pc' = "settle"
  /\ UNCHANGED <<world, server, list, queue, move, cycle, faults>>

-----------------------------------------------------------------------------
(* The end of a cycle.                                                     *)

\* Mutant: what was skipped is forgotten.
SettleForgetting ==
  /\ pc = "settle"
  /\ status' = IF status = "OK" /\ (\E p \in Paths : tasks[p] > 0)
               THEN "PARTIAL" ELSE status
  /\ skipped' = {}
  /\ pc' = "finish"
  /\ UNCHANGED <<world, server, list, tasks, old, anySkipped, move, enqueued,
                 pass, cursor, faults>>

\* What is left over makes the cycle partial; settled tasks are deleted.
Settle ==
  /\ pc = "settle"
  /\ status' = IF status = "OK" /\ ((\E p \in Paths : tasks[p] > 0) \/ anySkipped)
               THEN "PARTIAL" ELSE status
  /\ skipped' = {}
  /\ pc' = "finish"
  /\ UNCHANGED <<world, server, list, tasks, old, anySkipped, move, enqueued,
                 pass, cursor, faults>>

Finish ==
  /\ pc = "finish"
  /\ pc' = "idle"
  /\ CycleReset
  /\ old' = {}
  /\ UNCHANGED <<disk, changes, server, tasks, faults>>

Crash ==
  /\ pc # "idle" /\ Fault
  /\ pc' = "idle"
  /\ CycleReset
  /\ old' = {}
  /\ UNCHANGED <<disk, changes, server, tasks>>

\* A crash between the rename of a download and its row in the index.
CrashUnindexed ==
  /\ pc = "queue" /\ Fault
  /\ \E p \in Paths :
       /\ tasks[p] > 0 /\ disk[p] # None
       /\ storage' = [storage EXCEPT ![p] = disk[p]]
  /\ pc' = "idle"
  /\ CycleReset
  /\ old' = {}
  /\ torn' = TRUE
  /\ UNCHANGED <<disk, changes, files, initialized, tasks>>

Client == Write \/ Delete \/ Rename

Server ==
  \/ Begin \/ Scan \/ ScanEnds
  \/ Enqueue
  \/ SelectBatch \/ MoveOne \/ BatchEnds
  \/ Download \/ SkipGone \/ NextPass \/ LastPass
  \/ Settle \/ Finish

Trouble ==
  \/ BeginDiskFull \/ ConnectFails
  \/ ScanUnreadable \/ ListFails \/ EnqueueFails
  \/ SelectFails \/ MoveFails
  \/ SkipFailed \/ QueueBreaks
  \/ Crash \/ CrashUnindexed

Next == Client \/ Server \/ Trouble

Spec == Init /\ [][Next]_vars

(* The schedule starts cycles again and again, and a cycle that can go on  *)
(* does, which takes limiters that let every frame through and a mail      *)
(* server that answers (TaskQueue and Service have the cycle that hangs);  *)
(* Begin is taken whenever the disk is not full.                           *)
FairSpec == Spec /\ WF_vars(Server) /\ SF_vars(Begin)

-----------------------------------------------------------------------------
(* Properties.                                                             *)

(* The file a list keeps of each norm: the first of the client's walk.     *)
First(p) == disk[p] # None /\ \A q \in Twins(p) : q < p => disk[q] = None

(* A file that no other collides with.                                     *)
Alone(p) == disk[p] # None /\ \A q \in Twins(p) \ {p} : disk[q] = None

(* The server has p's file: its content is stored, and indexed, under its  *)
(* path or under one that differs by case.  After a torn download a row    *)
(* may speak of a version that an older file, come back, has again.        *)
Mirrored(p) ==
  \E q \in Twins(p) : files[q] = disk[p] /\ (torn \/ storage[q] = disk[p])

(* The index has nothing the client does not.                              *)
NothingElse == \A p \in Paths : files[p] # None => \E q \in Twins(p) : disk[q] # None

(* What a cycle that reports OK is worth: if the client has changed        *)
(* nothing since the last list was begun, every file it has is stored and  *)
(* indexed, and, unless an error kept a file from being moved, nothing     *)
(* else is indexed.  Colliding files are left out: the task of the one may *)
(* be left over from before and overwrite the row of the other.            *)
OkMeansMirrored ==
  pc = "finish" /\ status = "OK" /\ current =>
    /\ \A p \in Paths : Alone(p) => Mirrored(p)
    /\ unmoved \/ NothingElse

(* A file leaves the storage for the trash only if neither it nor a twin   *)
(* has been on the client, readable, all the time since its walk began.    *)
TrashedOnlyIfMissed ==
  [][\A p \in Paths : storage[p] # None /\ storage'[p] = None => Twins(p) \subseteq missed]_vars

(* Once the client is quiet and the faults are over the server mirrors the *)
(* client, and stays so.                                                   *)
Converges == <>[](NothingElse /\ \A p \in Paths : First(p) => Mirrored(p))

(* A file whose size and mtime are those of its row is not downloaded.     *)
UnchangedIsSkipped ==
  [][\A p \in Paths : tasks'[p] > tasks[p] => files[p] # list[p]]_vars

=============================================================================
