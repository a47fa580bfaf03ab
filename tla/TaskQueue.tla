------------------------------ MODULE TaskQueue ------------------------------
(***************************************************************************)
(* The transfer queue: the tasks table (internal/store/tasks.go, the       *)
(* enqueueing of diff.go), the download manager that works it off with a   *)
(* pool of connections (RunDownloadQueue, worker, processTask, dial,       *)
(* failAttempt and skip of internal/transfer/transfer.go), and the pass    *)
(* loop of RunCycle that fills and empties it.  The writes of a row are    *)
(* steps of their own, since the process may die between two of them.      *)
(*                                                                         *)
(* One attempt at a file is abstracted to its outcome (module Download has *)
(* the attempt), and the comparison with the client's list to the set of   *)
(* paths it finds new or changed (module SyncCycle has the comparison);    *)
(* the index is assumed to hold one row per normalized path.               *)
(***************************************************************************)
EXTENDS Naturals, FiniteSets

CONSTANTS
  Paths,       \* relative paths
  Ids,         \* row ids
  Workers,     \* the pool, PARALLEL_CONNECTIONS of them
  RetryCount,  \* RETRY_COUNT
  MaxPasses,   \* SYNC_MAX_PASSES
  PageSize,    \* rows the producer reads at a time (2000 in the code)
  MaxCrashes,  \* bound on the crashes a behaviour may have
  NoRow        \* an id that is not in the table

RowStatus == {"pending", "in_progress", "done", "failed", "skipped"}

Row == [path : Paths, status : RowStatus, attempts : 0 .. RetryCount, mine : BOOLEAN]

ASSUME IdsArePositive == Ids \subseteq Nat \ {0}
ASSUME RetryPositive == RetryCount \in Nat \ {0}
ASSUME PageSizePositive == PageSize \in Nat \ {0}
ASSUME MaxPassesPositive == MaxPasses \in Nat \ {0}
ASSUME MaxCrashesNat == MaxCrashes \in Nat
ASSUME NoRowIsNoRow == NoRow \notin Row

VARIABLES
  tasks,       \* the table, persistent; mine: cycle_id is the running cycle's
  cpc,         \* where the goroutine of the cycle (and producer) is
  pass,        \* the pass of the cycle
  more,        \* this pass enqueued or trashed something
  status,      \* the status the cycle will report
  page,        \* ids read and not handed out yet
  afterId,     \* last id handed out
  wpc,         \* where each worker is
  wtask,       \* the task each worker works on
  conn,        \* whether each worker has a connection
  parentDone,  \* the stop signal has cancelled the service's context
  connLost,    \* the client could not be dialled
  skippedAny,  \* res.SkippedFiles > 0, over the passes of the cycle
  missing,     \* history: found new or changed by the last diff, not stored since
  crashes      \* crashes so far

volatile == <<pass, more, status, page, afterId, wpc, wtask, conn, parentDone,
              connLost, skippedAny, missing>>
workerVars == <<wpc, wtask, conn>>
cycleVars == <<cpc, pass, more, status, page, afterId, parentDone>>
vars == <<tasks, cpc, volatile, crashes>>

CyclePC == {"down", "boot", "idle", "pass", "page", "hand", "drain", "drainErr",
            "settle", "delDone", "delSkipped", "delFailed"}

WorkerPC == {"off", "select", "dial", "try", "limit", "stored", "skip", "requeue", "sleep"}

Present == {i \in Ids : tasks[i] # NoRow}
WithStatus(S) == {i \in Present : tasks[i].status \in S}
Runnable == WithStatus({"pending", "in_progress"})

\* The queue's context: cancelled by the service's, or by the first worker
\* that gives the connection up.
ctxDone == parentDone \/ connLost

TypeOK ==
  /\ tasks \in [Ids -> Row \cup {NoRow}]
  /\ cpc \in CyclePC
  /\ pass \in 0 .. MaxPasses
  /\ more \in BOOLEAN
  /\ status \in {"OK", "PARTIAL", "FAILED"}
  /\ page \subseteq Ids
  /\ afterId \in Nat
  /\ wpc \in [Workers -> WorkerPC]
  /\ wtask \in [Workers -> Ids \cup {0}]
  /\ conn \in [Workers -> BOOLEAN]
  /\ parentDone \in BOOLEAN /\ connLost \in BOOLEAN /\ skippedAny \in BOOLEAN
  /\ missing \subseteq Paths
  /\ crashes \in 0 .. MaxCrashes

VolatileInit ==
  /\ pass = 0 /\ more = FALSE /\ status = "OK"
  /\ page = {} /\ afterId = 0
  /\ wpc = [w \in Workers |-> "off"]
  /\ wtask = [w \in Workers |-> 0]
  /\ conn = [w \in Workers |-> FALSE]
  /\ parentDone = FALSE /\ connLost = FALSE /\ skippedAny = FALSE
  /\ missing = {}

Init ==
  /\ tasks = [i \in Ids |-> NoRow]
  /\ cpc = "idle"
  /\ crashes = 0
  /\ VolatileInit

\* UPDATE tasks SET status=? WHERE id=?
SetStatus(i, s) == tasks' = [tasks EXCEPT ![i].status = s]

Goto(w, l) == wpc' = [wpc EXCEPT ![w] = l]

\* The next attempt, dialling first if there is no connection.
GotoTry(w) == Goto(w, IF conn[w] THEN "try" ELSE "dial")

-----------------------------------------------------------------------------
(* The cycle and the producer of its queue.                                *)

\* A new cycle: rows of earlier ones keep their old cycle_id.
BeginCycle ==
  /\ cpc = "idle"
  /\ cpc' = "pass"
  /\ pass' = 1
  /\ status' = "OK"
  /\ tasks' = [i \in Ids |-> IF tasks[i] = NoRow THEN NoRow
                             ELSE [tasks[i] EXCEPT !.mine = FALSE]]
  /\ UNCHANGED <<more, page, afterId, workerVars, parentDone, connLost,
                 skippedAny, missing, crashes>>

PassCancelled ==
  /\ cpc = "pass" /\ parentDone
  /\ cpc' = "settle"
  /\ status' = "PARTIAL"
  /\ UNCHANGED <<tasks, pass, more, page, afterId, workerVars, parentDone,
                 connLost, skippedAny, missing, crashes>>

\* The list, or the enqueueing, failed.
PassFails ==
  /\ cpc = "pass"
  /\ cpc' = "settle"
  /\ status' = "FAILED"
  /\ UNCHANGED <<tasks, pass, more, page, afterId, workerVars, parentDone,
                 connLost, skippedAny, missing, crashes>>

\* Mutant: only waiting tasks are looked at.
BlocksIfPending(r) == r.status = "pending" \/ (r.status = "skipped" /\ r.mine)

\* Rows that keep a path from being enqueued again.
Blocks(r) ==
  r.status \in {"pending", "in_progress"} \/ (r.status = "skipped" /\ r.mine)

\* The highest id in the table, or 0, as the only member of a set.
LastIds == {i \in Present \cup {0} : \A j \in Present : j <= i}

(* EnqueueDiffDownloads: the paths S that differ and are not blocked get   *)
(* the next free ids (the table has no AUTOINCREMENT), in any order; then  *)
(* the queue starts: workers, and the producer at its first page.  Moved   *)
(* tells whether MoveDeleted trashed anything.                             *)
Enqueue ==
  /\ cpc = "pass" /\ ~parentDone
  /\ \E S \in SUBSET Paths, moved \in BOOLEAN, last \in LastIds :
       LET New == {p \in S : \A i \in Present : tasks[i].path = p => ~Blocks(tasks[i])}
           Fresh == {i \in Ids : i > last /\ i <= last + Cardinality(New)}
       IN /\ \E f \in [Fresh -> New] :
               /\ \A p \in New : \E i \in Fresh : f[i] = p
               /\ \A i, j \in Fresh : f[i] = f[j] => i = j
               /\ tasks' = [i \in Ids |->
                    IF i \in Fresh
                    THEN [path |-> f[i], status |-> "pending", attempts |-> 0, mine |-> TRUE]
                    ELSE tasks[i]]
          /\ more' = (moved \/ New # {})
          /\ missing' = S
  /\ cpc' = "page"
  /\ afterId' = 0 /\ page' = {}
  /\ wpc' = [w \in Workers |-> "select"]
  /\ wtask' = [w \in Workers |-> 0]
  /\ conn' = [w \in Workers |-> FALSE]
  /\ UNCHANGED <<pass, status, parentDone, connLost, skippedAny, crashes>>

\* ListRunnableTasksPage: the first PageSize runnable rows behind afterId;
\* an empty page closes the channel.
ListPage ==
  /\ cpc = "page"
  /\ LET Behind == {i \in Runnable : i > afterId}
         First == {i \in Behind : Cardinality({j \in Behind : j < i}) < PageSize}
     IN /\ page' = First
        /\ cpc' = IF First = {} THEN "drain" ELSE "hand"
  /\ UNCHANGED <<tasks, pass, more, status, afterId, workerVars, parentDone,
                 connLost, skippedAny, missing, crashes>>

PageFails ==
  /\ cpc = "page"
  /\ cpc' = "drainErr"
  /\ UNCHANGED <<tasks, volatile, crashes>>

(* The unbuffered channel: producer and worker w meet, and the worker      *)
(* begins processTask with MarkTaskInProgress (a crash in between leaves   *)
(* what a crash before does).                                              *)
HandOver(w) ==
  /\ cpc = "hand" /\ wpc[w] = "select"
  /\ \E i \in page :
       /\ \A j \in page : i <= j
       /\ page' = page \ {i}
       /\ afterId' = i
       /\ wtask' = [wtask EXCEPT ![w] = i]
       /\ SetStatus(i, "in_progress")
  /\ cpc' = IF page' = {} THEN "page" ELSE "hand"
  /\ GotoTry(w)
  /\ UNCHANGED <<pass, more, status, conn, parentDone, connLost, skippedAny, missing, crashes>>

HandCancelled ==
  /\ cpc = "hand" /\ ctxDone
  /\ cpc' = "drain"
  /\ page' = {}
  /\ UNCHANGED <<tasks, pass, more, status, afterId, workerVars, parentDone,
                 connLost, skippedAny, missing, crashes>>

WorkersGone == \A w \in Workers : wpc[w] = "off"

(* wg.Wait, the queue's error, and what RunCycle makes of it: an error     *)
(* ends the passes, and so does a pass that had nothing to do.             *)
QueueEnds ==
  /\ cpc \in {"drain", "drainErr"} /\ WorkersGone
  /\ \/ /\ connLost \/ cpc = "drainErr" \/ parentDone
        /\ status' = "PARTIAL"
        /\ cpc' = "settle"
        /\ UNCHANGED pass
     \/ /\ ~(connLost \/ cpc = "drainErr" \/ parentDone)
        /\ more /\ pass < MaxPasses
        /\ cpc' = "pass"
        /\ pass' = pass + 1
        /\ UNCHANGED status
     \/ /\ ~(connLost \/ cpc = "drainErr" \/ parentDone)
        /\ ~more \/ pass = MaxPasses
        /\ cpc' = "settle"
        /\ UNCHANGED <<pass, status>>
  /\ UNCHANGED <<tasks, more, page, afterId, workerVars, parentDone,
                 connLost, skippedAny, missing, crashes>>

\* Mutant: skipped files do not make the cycle partial.
SettleForgettingSkips ==
  /\ cpc = "settle"
  /\ cpc' = "delDone"
  /\ status' = IF status = "OK" /\ Runnable # {} THEN "PARTIAL" ELSE status
  /\ UNCHANGED <<tasks, pass, more, page, afterId, workerVars, parentDone,
                 connLost, skippedAny, missing, crashes>>

\* What is left over makes the cycle partial.
Settle ==
  /\ cpc = "settle"
  /\ cpc' = "delDone"
  /\ status' = IF status = "OK" /\ (Runnable # {} \/ skippedAny)
               THEN "PARTIAL" ELSE status
  /\ UNCHANGED <<tasks, pass, more, page, afterId, workerVars, parentDone,
                 connLost, skippedAny, missing, crashes>>

\* DELETE FROM tasks WHERE status=?
Purge(s) == tasks' = [i \in Ids |-> IF i \in WithStatus({s}) THEN NoRow ELSE tasks[i]]

PurgeDone ==
  /\ cpc = "delDone" /\ cpc' = "delSkipped"
  /\ Purge("done")
  /\ UNCHANGED <<volatile, crashes>>

PurgeSkipped ==
  /\ cpc = "delSkipped" /\ cpc' = "delFailed"
  /\ Purge("skipped")
  /\ UNCHANGED <<volatile, crashes>>

\* The last deletion; the manager and its result go with the cycle.
PurgeFailed ==
  /\ cpc = "delFailed" /\ cpc' = "idle"
  /\ Purge("failed")
  /\ pass' = 0 /\ more' = FALSE /\ status' = "OK"
  /\ page' = {} /\ afterId' = 0
  /\ connLost' = FALSE /\ skippedAny' = FALSE /\ missing' = {}
  /\ UNCHANGED <<workerVars, parentDone, crashes>>

-----------------------------------------------------------------------------
(* A worker.                                                               *)

\* Mutant: the closed channel is not noticed.
WorkerExitIfCancelled(w) ==
  /\ wpc[w] = "select" /\ ctxDone
  /\ Goto(w, "off")
  /\ wtask' = [wtask EXCEPT ![w] = 0]
  /\ conn' = [conn EXCEPT ![w] = FALSE]
  /\ UNCHANGED <<tasks, cycleVars, connLost, skippedAny, missing, crashes>>

\* The cancelled context, or the closed channel, ends the worker.
WorkerExit(w) ==
  /\ wpc[w] = "select" /\ (ctxDone \/ cpc \in {"drain", "drainErr"})
  /\ Goto(w, "off")
  /\ wtask' = [wtask EXCEPT ![w] = 0]
  /\ conn' = [conn EXCEPT ![w] = FALSE]
  /\ UNCHANGED <<tasks, cycleVars, connLost, skippedAny, missing, crashes>>

\* The task is given back as it is: the worker takes the next one.
Leave(w) == Goto(w, "select") /\ wtask' = [wtask EXCEPT ![w] = 0]

DialOk(w) ==
  /\ wpc[w] = "dial"
  /\ conn' = [conn EXCEPT ![w] = TRUE]
  /\ Goto(w, "try")
  /\ UNCHANGED <<tasks, cycleVars, wtask, connLost, skippedAny, missing, crashes>>

DialCancelled(w) ==
  /\ wpc[w] = "dial" /\ ctxDone
  /\ Leave(w)
  /\ UNCHANGED <<tasks, cycleVars, conn, connLost, skippedAny, missing, crashes>>

\* Mutant: the worker gives up alone.
DialGivesUpSilently(w) ==
  /\ wpc[w] = "dial"
  /\ Leave(w)
  /\ UNCHANGED <<tasks, cycleVars, conn, connLost, skippedAny, missing, crashes>>

\* RETRY_COUNT dials failed: the first worker to see it cancels the queue.
DialGivesUp(w) ==
  /\ wpc[w] = "dial"
  /\ connLost' = TRUE
  /\ Leave(w)
  /\ UNCHANGED <<tasks, cycleVars, conn, skippedAny, missing, crashes>>

\* downloadOne succeeded: renamed and indexed, the row not yet marked.
TryOk(w) ==
  /\ wpc[w] = "try"
  /\ Goto(w, "stored")
  /\ missing' = missing \ {tasks[wtask[w]].path}
  /\ UNCHANGED <<tasks, cycleVars, wtask, conn, connLost, skippedAny, crashes>>

MarkDone(w) ==
  /\ wpc[w] = "stored"
  /\ SetStatus(wtask[w], "done")
  /\ Leave(w)
  /\ UNCHANGED <<cycleVars, conn, connLost, skippedAny, missing, crashes>>

\* NOT_FOUND, or a path that cannot be joined: no retry.
TryNotFound(w) ==
  /\ wpc[w] = "try"
  /\ Goto(w, "skip")
  /\ UNCHANGED <<tasks, cycleVars, wtask, conn, connLost, skippedAny, missing, crashes>>

\* Mutant: one attempt too many.
TryFailsOnceMore(w) ==
  /\ wpc[w] = "try"
  /\ \E drop \in BOOLEAN : conn' = [conn EXCEPT ![w] = conn[w] /\ ~drop]
  /\ LET i == wtask[w]
         n == tasks[i].attempts + 1
     IN /\ tasks' = [tasks EXCEPT ![i].status = "failed", ![i].attempts = n]
        /\ Goto(w, IF n > RetryCount THEN "skip" ELSE "requeue")
  /\ UNCHANGED <<cycleVars, wtask, connLost, skippedAny, missing, crashes>>

\* failAttempt counts the failure with IncTaskAttempt and decides.
Fails(w) ==
  /\ LET i == wtask[w]
         n == tasks[i].attempts + 1
     IN /\ tasks' = [tasks EXCEPT ![i].status = "failed", ![i].attempts = n]
        /\ Goto(w, IF n >= RetryCount THEN "skip" ELSE "requeue")
  /\ UNCHANGED <<cycleVars, wtask, connLost, skippedAny, missing, crashes>>

\* Any other failure: some of them close the connection.
TryFails(w) ==
  /\ wpc[w] = "try"
  /\ \E drop \in BOOLEAN : conn' = [conn EXCEPT ![w] = conn[w] /\ ~drop]
  /\ Fails(w)

(* A frame larger than the limiter's bucket, the greater of BANDWIDTH_LIMIT *)
(* and CHUNK_SIZE, waits for tokens that will never be there.  Validate     *)
(* accepts a DELTA_BLOCK_SIZE of that size, and the client's CHUNK_SIZE is  *)
(* not the server's.                                                        *)
Throttled(w) ==
  /\ wpc[w] = "try"
  /\ Goto(w, "limit")
  /\ UNCHANGED <<tasks, cycleVars, wtask, conn, connLost, skippedAny, missing, crashes>>

\* Only the context ends the wait; the attempt fails.
ThrottleCancelled(w) ==
  /\ wpc[w] = "limit" /\ ctxDone
  /\ conn' = [conn EXCEPT ![w] = FALSE]
  /\ Fails(w)

Skip(w) ==
  /\ wpc[w] = "skip"
  /\ SetStatus(wtask[w], "skipped")
  /\ skippedAny' = TRUE
  /\ Leave(w)
  /\ UNCHANGED <<cycleVars, conn, connLost, missing, crashes>>

Requeue(w) ==
  /\ wpc[w] = "requeue"
  /\ SetStatus(wtask[w], "pending")
  /\ Goto(w, "sleep")
  /\ UNCHANGED <<cycleVars, wtask, conn, connLost, skippedAny, missing, crashes>>

\* RETRY_DELAY, cut short by the context: the task stays pending.
SleepCancelled(w) ==
  /\ wpc[w] = "sleep" /\ ctxDone
  /\ Leave(w)
  /\ UNCHANGED <<tasks, cycleVars, conn, connLost, skippedAny, missing, crashes>>

\* The delay is over: MarkTaskInProgress, then one more look at the context.
SleepOver(w) ==
  /\ wpc[w] = "sleep"
  /\ SetStatus(wtask[w], "in_progress")
  /\ IF ctxDone THEN Leave(w)
     ELSE GotoTry(w) /\ UNCHANGED wtask
  /\ UNCHANGED <<cycleVars, conn, connLost, skippedAny, missing, crashes>>

Worker(w) ==
  \/ WorkerExit(w)
  \/ DialOk(w) \/ DialCancelled(w) \/ DialGivesUp(w)
  \/ TryOk(w) \/ MarkDone(w) \/ TryNotFound(w) \/ TryFails(w) \/ ThrottleCancelled(w)
  \/ Skip(w) \/ Requeue(w)
  \/ SleepCancelled(w) \/ SleepOver(w)

-----------------------------------------------------------------------------
(* The service around it.                                                  *)

StopSignal ==
  /\ cpc \notin {"down", "boot"} /\ ~parentDone
  /\ parentDone' = TRUE
  /\ UNCHANGED <<tasks, cpc, pass, more, status, page, afterId, workerVars,
                 connLost, skippedAny, missing, crashes>>

VolatileReset ==
  /\ pass' = 0 /\ more' = FALSE /\ status' = "OK"
  /\ page' = {} /\ afterId' = 0
  /\ wpc' = [w \in Workers |-> "off"]
  /\ wtask' = [w \in Workers |-> 0]
  /\ conn' = [w \in Workers |-> FALSE]
  /\ parentDone' = FALSE /\ connLost' = FALSE /\ skippedAny' = FALSE
  /\ missing' = {}

Exit ==
  /\ cpc = "idle" /\ parentDone
  /\ cpc' = "down"
  /\ VolatileReset
  /\ UNCHANGED <<tasks, crashes>>

Crash ==
  /\ cpc \notin {"down", "boot"} /\ crashes < MaxCrashes
  /\ cpc' = "down"
  /\ crashes' = crashes + 1
  /\ VolatileReset
  /\ UNCHANGED tasks

StartProcess ==
  /\ cpc = "down"
  /\ cpc' = "boot"
  /\ UNCHANGED <<tasks, volatile, crashes>>

\* Mutant: the attempts start over.
ResetStaleAfresh ==
  /\ cpc = "boot"
  /\ cpc' = "idle"
  /\ tasks' = [i \in Ids |-> IF i \in WithStatus({"in_progress"})
                             THEN [tasks[i] EXCEPT !.status = "pending", !.attempts = 0]
                             ELSE tasks[i]]
  /\ UNCHANGED <<volatile, crashes>>

\* ResetStaleInProgress
ResetStale ==
  /\ cpc = "boot"
  /\ cpc' = "idle"
  /\ tasks' = [i \in Ids |-> IF i \in WithStatus({"in_progress"})
                             THEN [tasks[i] EXCEPT !.status = "pending"] ELSE tasks[i]]
  /\ UNCHANGED <<volatile, crashes>>

Producer ==
  \/ PassCancelled \/ PassFails \/ Enqueue
  \/ ListPage \/ PageFails \/ HandCancelled \/ (\E w \in Workers : HandOver(w))
  \/ QueueEnds \/ Settle \/ PurgeDone \/ PurgeSkipped \/ PurgeFailed

Next ==
  \/ BeginCycle \/ Producer
  \/ \E w \in Workers : Worker(w) \/ Throttled(w)
  \/ StopSignal \/ Exit \/ Crash \/ StartProcess \/ ResetStale

Spec == Init /\ [][Next]_vars

(* Goroutines that can run do run: a dial and a read have timeouts, a      *)
(* sleep has a timer, and a wait in the limiter ends if the bucket can     *)
(* ever hold the frame (such a wait is part of the attempt).  The one that *)
(* cannot end is Throttled, which may happen or not; it has no fairness.   *)
FairSpec == Spec /\ WF_vars(Producer) /\ \A w \in Workers : WF_vars(Worker(w))

-----------------------------------------------------------------------------
(* Properties.                                                             *)

(* Two workers never work on the same path: they would write one .part     *)
(* file.  It rests on the diff, the pages of the producer and the deletion *)
(* of settled rows together, over crashes and leftovers.                   *)
NoSharedPart ==
  \A v, w \in Workers :
    v # w /\ wtask[v] # 0 /\ wtask[w] # 0
      => tasks[wtask[v]].path # tasks[wtask[w]].path

(* Attempts survive restarts, and no task that may run has used up its     *)
(* RETRY_COUNT.                                                            *)
AttemptLeft == \A i \in Runnable : tasks[i].attempts < RetryCount

(* When RunDownloadQueue returns nil, nothing runnable is left: every task *)
(* was done, or skipped; a worker gives a task back only under an error.   *)
NilMeansDrained ==
  cpc = "drain" /\ WorkersGone /\ ~ctxDone => Runnable = {}

(* A cycle that reports OK has stored every file its last comparison found *)
(* new or changed, those with a task left over by an earlier cycle or a    *)
(* crash included.                                                         *)
OkMeansComplete == cpc = "delDone" /\ status = "OK" => missing = {}

(* The life of a row, whoever writes it: the transitions of the queue's    *)
(* state machine, attempts that never go back, and no deletion of a task   *)
(* that may still run.                                                     *)
Legal(old, new) ==
  \/ new = NoRow /\ old.status \in {"done", "skipped", "failed"}
  \/ /\ new # NoRow
     /\ new.path = old.path
     /\ new.attempts >= old.attempts
     /\ <<old.status, new.status>> \in
          {<<"pending", "in_progress">>, <<"in_progress", "done">>,
           <<"in_progress", "failed">>, <<"failed", "pending">>,
           <<"failed", "skipped">>, <<"in_progress", "skipped">>,
           <<"in_progress", "pending">>}
        \cup {<<s, s>> : s \in RowStatus}
     /\ new.status = "pending" => new.attempts < RetryCount

RowLifecycle ==
  [][\A i \in Ids : tasks[i] # NoRow => Legal(tasks[i], tasks'[i])]_tasks

Cycling == cpc \notin {"down", "boot", "idle"}

(* A cycle ends, whatever the connections do, unless a worker waits in the *)
(* limiter for more than its bucket holds; that wait keeps the cycle going *)
(* for ever.  The stop signal, or a lost connection, ends it all the same: *)
(* no worker is left behind that does not see the context.                 *)
CycleEnds ==
  /\ Cycling ~> ~Cycling \/ \E w \in Workers : wpc[w] = "limit"
  /\ Cycling /\ ctxDone ~> ~Cycling

=============================================================================
