--------------------------- MODULE TaskQueueProofs ---------------------------
(***************************************************************************)
(* Proofs about module TaskQueue, for every number of workers, paths, rows,*)
(* attempts, passes and crashes.  The inductive invariant says which row a *)
(* worker's place allows, that tasks are handed out once and in the order  *)
(* of their ids, and that every file still missing has a task or was       *)
(* skipped.                                                                *)
(***************************************************************************)
EXTENDS TaskQueue, NaturalLemmas

\* The rows in the workers' hands, and the rows that may yet be worked on.
Held == {wtask[w] : w \in Workers} \ {0}
Live == Runnable \cup Held

\* What a worker's place says of its row.
RowFits(w) ==
  /\ wpc[w] \in {"off", "select"} <=> wtask[w] = 0
  /\ wtask[w] # 0 => wtask[w] \in Present
  /\ wpc[w] \in {"dial", "try", "limit", "stored"} => tasks[wtask[w]].status = "in_progress"
  /\ wpc[w] = "skip" => tasks[wtask[w]].status \in {"in_progress", "failed"}
  /\ wpc[w] = "requeue" => tasks[wtask[w]].status = "failed"
  /\ wpc[w] = "sleep" => tasks[wtask[w]].status = "pending"
  /\ wpc[w] \in {"dial", "try", "limit", "stored", "requeue", "sleep"}
       => tasks[wtask[w]].attempts < RetryCount

RowsFit == \A w \in Workers : RowFits(w)

\* Tasks are handed out in the order of their ids, each to one worker.
HandedInOrder ==
  /\ \A w \in Workers : wtask[w] <= afterId
  /\ \A v, w \in Workers : v # w /\ wtask[v] = wtask[w] => wtask[v] = 0

PageAhead ==
  /\ page \subseteq Runnable
  /\ \A i \in page : i > afterId
  /\ page # {} <=> cpc = "hand"

\* Outside the queue no worker runs.
Quiet == cpc \notin {"page", "hand", "drain", "drainErr"} => WorkersGone

OnePerPath == \A i, j \in Live : tasks[i].path = tasks[j].path => i = j

\* What the producer has passed over is in a worker's hands, unless the
\* queue is cancelled.
NoneForgotten ==
  /\ cpc \in {"page", "hand", "drain"} /\ ~ctxDone
       => \A i \in Runnable : i <= afterId => i \in Held
  /\ cpc = "hand" => \A i \in Runnable : i > afterId => i \in page \/ \A j \in page : j < i
  /\ cpc = "drain" /\ ~ctxDone => \A i \in Runnable : i <= afterId

\* A file that is still missing has a task, or was skipped.
Accounted ==
  /\ \A p \in missing : skippedAny \/ \E i \in Live : tasks[i].path = p
  /\ \A w \in Workers : wpc[w] = "stored" => tasks[wtask[w]].path \notin missing
  /\ cpc \notin {"down", "boot", "idle"} =>
       \A i \in Present : tasks[i].status = "skipped" /\ tasks[i].mine => skippedAny

IInv ==
  /\ TypeOK /\ RowsFit /\ HandedInOrder /\ PageAhead /\ Quiet
  /\ OnePerPath /\ AttemptLeft /\ NoneForgotten /\ Accounted /\ OkMeansComplete

-----------------------------------------------------------------------------
(* The beginning.                                                          *)

LEMMA InitIInv == Init => IInv
<1> SUFFICES ASSUME Init PROVE IInv
  OBVIOUS
<1> USE DEF Init, VolatileInit
<1>0. more \in BOOLEAN /\ parentDone \in BOOLEAN /\ connLost \in BOOLEAN /\ skippedAny \in BOOLEAN
  BY Zenon
<1>1. TypeOK
  BY <1>0, RetryPositive, MaxPassesPositive, MaxCrashesNat DEF TypeOK, CyclePC, WorkerPC
<1>2. Present = {} /\ Runnable = {} /\ Held = {} /\ Live = {}
  BY DEF Present, Runnable, WithStatus, Held, Live
<1>3. RowsFit /\ HandedInOrder /\ PageAhead /\ Quiet
  BY <1>2 DEF RowsFit, RowFits, HandedInOrder, PageAhead, Quiet, WorkersGone
<1>4. OnePerPath /\ AttemptLeft /\ NoneForgotten /\ Accounted /\ OkMeansComplete
  BY <1>2 DEF OnePerPath, AttemptLeft, NoneForgotten, Accounted, OkMeansComplete
<1> QED
  BY <1>1, <1>3, <1>4 DEF IInv

-----------------------------------------------------------------------------
(* A worker's step.                                                        *)

\* A step that changes only the place of worker w, its row, and whether it
\* still has it.
OwnStep(w) ==
  /\ UNCHANGED cycleVars
  /\ wpc' \in [Workers -> WorkerPC] /\ wtask' \in [Workers -> Ids \cup {0}]
  /\ conn' \in [Workers -> BOOLEAN]
  /\ \A v \in Workers : v # w => wpc'[v] = wpc[v] /\ wtask'[v] = wtask[v]
  /\ wtask'[w] \in {wtask[w], 0}
  /\ tasks' \in [Ids -> Row \cup {NoRow}]
  /\ \A j \in Ids : j # wtask[w] => tasks'[j] = tasks[j]
  /\ connLost' \in BOOLEAN /\ skippedAny' \in BOOLEAN
  /\ (connLost => connLost') /\ (skippedAny => skippedAny')
  /\ missing' \subseteq missing
  /\ crashes' = crashes

\* What becomes of the row i of worker w.
RowMoves(w, i) ==
  /\ tasks'[i] # NoRow
  /\ Legal(tasks[i], tasks'[i])
  /\ tasks'[i].mine = tasks[i].mine
  /\ tasks'[i].status \in {"pending", "in_progress"} => tasks'[i].attempts < RetryCount
  /\ tasks'[i].status \in {"pending", "in_progress"} /\ wtask'[w] = 0 => ctxDone'
  /\ tasks'[i].status = "skipped" => skippedAny'
  /\ tasks'[i].status \notin {"pending", "in_progress"} /\ wtask'[w] = 0
       => skippedAny' \/ tasks[i].path \notin missing'
  /\ \A p \in missing \ missing' : p = tasks[i].path
  /\ wpc'[w] = "stored" => tasks[i].path \notin missing'

\* A row that stays as it is does so legally.
LEMMA StaysLegal ==
  ASSUME NEW r \in Row, r.status = "pending" => r.attempts < RetryCount
  PROVE  Legal(r, r)
<1>1. r # NoRow /\ r.status \in RowStatus /\ r.attempts >= r.attempts
  BY NoRowIsNoRow DEF Row
<1>2. <<r.status, r.status>> \in {<<s, s>> : s \in RowStatus}
  BY <1>1
<1> QED
  BY <1>1, <1>2 DEF Legal

LEMMA WorkerStep ==
  ASSUME IInv, NEW w \in Workers, Worker(w) \/ Throttled(w)
  PROVE  /\ OwnStep(w)
         /\ RowFits(w)'
         /\ wtask[w] # 0 => RowMoves(w, wtask[w])
         /\ wtask[w] = 0 => tasks' = tasks /\ missing' = missing /\ wpc'[w] = "off"
<1> USE DEF IInv, TypeOK, RowsFit, RowFits, OwnStep, RowMoves, Legal, Present, WithStatus,
            Row, RowStatus, WorkerPC, cycleVars, Goto, GotoTry, Leave, SetStatus, ctxDone
<1> USE NoRowIsNoRow, IdsArePositive, RetryPositive
<1>0. wpc[w] \in {"dial", "try", "sleep"} => Legal(tasks[wtask[w]], tasks[wtask[w]])
  BY StaysLegal
<1>1. CASE WorkerExit(w)
  BY <1>1 DEF WorkerExit
<1>2. CASE DialOk(w)
  BY <1>0, <1>2 DEF DialOk
<1>3. CASE DialCancelled(w)
  BY <1>0, <1>3 DEF DialCancelled
<1>4. CASE DialGivesUp(w)
  BY <1>0, <1>4 DEF DialGivesUp
<1>5. CASE TryOk(w)
  BY <1>0, <1>5 DEF TryOk
<1>6. CASE MarkDone(w)
  BY <1>6 DEF MarkDone, Accounted
<1>7. CASE TryNotFound(w)
  BY <1>0, <1>7 DEF TryNotFound
<1>8. CASE TryFails(w)
  BY <1>8 DEF TryFails, Fails
<1>9. CASE Skip(w)
  BY <1>9 DEF Skip
<1>10. CASE Requeue(w)
  BY <1>10 DEF Requeue
<1>11. CASE SleepCancelled(w)
  BY <1>0, <1>11 DEF SleepCancelled
<1>12. CASE SleepOver(w)
  BY <1>12 DEF SleepOver
<1>13. CASE Throttled(w)
  BY <1>0, <1>13 DEF Throttled
<1>14. CASE ThrottleCancelled(w)
  BY <1>14 DEF ThrottleCancelled, Fails
<1> QED
  BY <1>1, <1>2, <1>3, <1>4, <1>5, <1>6, <1>7, <1>8, <1>9, <1>10, <1>11, <1>12,
     <1>13, <1>14 DEF Worker

LEMMA IdsAreNumbers == \A i \in Ids \cup {0} : i \in Nat
  BY IdsArePositive

\* The sets of rows over such a step.
LEMMA WorkerSets ==
  ASSUME IInv, NEW w \in Workers, Worker(w) \/ Throttled(w)
  PROVE  /\ Present' = Present
         /\ \A j \in Ids : j # wtask[w] => (j \in Runnable' <=> j \in Runnable)
         /\ \A j \in Ids : j # wtask[w] => (j \in Held' <=> j \in Held)
         /\ \A v \in Workers : wtask[v] # 0 /\ wtask[v] = wtask[w] => v = w
         /\ Held' \subseteq Held
         /\ wtask[w] # 0 => wtask[w] \in Held
         /\ wtask'[w] # 0 => wtask[w] \in Held'
         /\ Held \subseteq Ids /\ Runnable \subseteq Ids /\ Runnable' \subseteq Ids
         /\ ctxDone => ctxDone'
<1>1. OwnStep(w) /\ (wtask[w] # 0 => RowMoves(w, wtask[w]))
      /\ (wtask[w] = 0 => tasks' = tasks)
  BY WorkerStep
<1>2. TypeOK /\ HandedInOrder /\ (wtask[w] # 0 => wtask[w] \in Present)
  BY DEF IInv, RowsFit, RowFits
<1>3. /\ \A v \in Workers : wtask[v] # 0 /\ wtask[v] = wtask[w] => v = w
      /\ Held \subseteq Ids
  BY <1>2 DEF TypeOK, HandedInOrder, Held
<1>4. Held' \subseteq Held /\ (wtask'[w] # 0 => wtask[w] \in Held')
  BY <1>1, <1>2 DEF OwnStep, Held, TypeOK
<1>5. \A j \in Ids : j # wtask[w] => (j \in Held' <=> j \in Held)
  BY <1>1, <1>2, <1>3 DEF OwnStep, Held, TypeOK
<1>6. /\ Present' = Present
      /\ \A j \in Ids : j # wtask[w] => (j \in Runnable' <=> j \in Runnable)
  BY <1>1, <1>2 DEF OwnStep, RowMoves, Present, Runnable, WithStatus
<1>7. ctxDone => ctxDone'
  BY <1>1 DEF OwnStep, ctxDone, cycleVars
<1> QED
  BY <1>2, <1>3, <1>4, <1>5, <1>6, <1>7, IdsArePositive
     DEF Runnable, WithStatus, Present, Held

LEMMA WorkerKeeps ==
  ASSUME IInv, NEW w \in Workers, Worker(w) \/ Throttled(w)
  PROVE  IInv'
<1> DEFINE i == wtask[w]
<1>1. /\ OwnStep(w) /\ RowFits(w)' /\ (i # 0 => RowMoves(w, i))
      /\ (i = 0 => tasks' = tasks /\ missing' = missing /\ wpc'[w] = "off")
  BY WorkerStep
<1>2. /\ Present' = Present
      /\ \A j \in Ids : j # i => (j \in Runnable' <=> j \in Runnable)
      /\ \A j \in Ids : j # i => (j \in Held' <=> j \in Held)
      /\ \A v \in Workers : wtask[v] # 0 /\ wtask[v] = i => v = w
      /\ Held' \subseteq Held
      /\ (i # 0 => i \in Held) /\ (wtask'[w] # 0 => i \in Held')
      /\ Held \subseteq Ids /\ Runnable \subseteq Ids /\ Runnable' \subseteq Ids
      /\ (ctxDone => ctxDone')
  BY WorkerSets
<1>3. TypeOK'
  BY <1>1 DEF OwnStep, IInv, TypeOK, cycleVars
<1>4. RowsFit'
  <2> SUFFICES ASSUME NEW v \in Workers, v # w PROVE RowFits(v)'
    BY <1>1 DEF RowsFit
  <2>1. RowFits(v) /\ wpc'[v] = wpc[v] /\ wtask'[v] = wtask[v]
    BY <1>1 DEF IInv, RowsFit, OwnStep
  <2>2. wtask[v] # 0 => tasks'[wtask[v]] = tasks[wtask[v]]
    BY <1>1, <1>2 DEF IInv, TypeOK, OwnStep
  <2> QED
    BY <1>2, <2>1, <2>2 DEF RowFits, IInv, TypeOK, WorkerPC
<1>5. HandedInOrder'
  BY <1>1 DEF IInv, TypeOK, HandedInOrder, OwnStep, cycleVars
<1>6. PageAhead'
  <2>1. page' = page /\ afterId' = afterId /\ cpc' = cpc
    BY <1>1 DEF OwnStep, cycleVars
  <2>2. i <= afterId /\ \A j \in page : j > afterId /\ j \in Nat /\ j # i
    BY IdsArePositive DEF IInv, TypeOK, HandedInOrder, PageAhead
  <2> QED
    BY <1>2, <2>1, <2>2 DEF IInv, TypeOK, PageAhead
<1>7. Quiet'
  BY <1>1 DEF IInv, TypeOK, Quiet, WorkersGone, OwnStep, cycleVars, RowsFit, RowFits
<1>8. Live' \subseteq Live /\ \A j \in Live' : tasks'[j].path = tasks[j].path
  <2> SUFFICES ASSUME NEW j \in Live' PROVE j \in Live /\ tasks'[j].path = tasks[j].path
    OBVIOUS
  <2>1. j \in Ids /\ j # 0
    BY <1>2, IdsArePositive DEF Live
  <2>2. CASE j = i
    BY <1>1, <1>2, <2>1, <2>2 DEF Live, RowMoves, Legal
  <2>3. CASE j # i
    BY <1>1, <1>2, <2>1, <2>3 DEF Live, OwnStep
  <2> QED BY <2>2, <2>3
<1>9. OnePerPath'
  BY <1>8 DEF IInv, OnePerPath
<1>10. AttemptLeft'
  BY <1>1, <1>2 DEF IInv, AttemptLeft, OwnStep, RowMoves, Runnable, WithStatus
<1>11. NoneForgotten'
  <2>1. page' = page /\ afterId' = afterId /\ cpc' = cpc
    BY <1>1 DEF OwnStep, cycleVars
  <2>2. ~(i > afterId)
    <3>0. i \in Ids \cup {0} /\ afterId \in Nat
      BY DEF IInv, TypeOK
    <3>1. i \in Nat /\ afterId \in Nat
      BY <3>0, IdsAreNumbers
    <3>2. i <= afterId
      BY DEF IInv, HandedInOrder
    <3> QED BY <3>1, <3>2
  <2>3. i # 0 /\ i \in Runnable' /\ ~ctxDone' => i \in Held'
    BY <1>1, <1>2 DEF RowMoves, Runnable, WithStatus
  <2>4. \A j \in Runnable' : j \in Ids /\ j # 0 /\ (j = i \/ (j \in Runnable /\ (j \in Held => j \in Held')))
    BY <1>2, IdsArePositive
  <2>5. ~ctxDone' => ~ctxDone
    BY <1>2
  <2>6. NoneForgotten
    BY DEF IInv
  <2>7. cpc \in {"page", "hand", "drain"} /\ ~ctxDone' =>
          \A j \in Runnable' : j <= afterId => j \in Held'
    BY <2>3, <2>4, <2>5, <2>6 DEF NoneForgotten
  <2>8. cpc = "hand" => \A j \in Runnable' : j > afterId => j \in page \/ \A k \in page : k < j
    BY <2>2, <2>4, <2>6 DEF NoneForgotten
  <2>9. cpc = "drain" /\ ~ctxDone' => \A j \in Runnable' : j <= afterId
    <3>1. i <= afterId
      BY DEF IInv, HandedInOrder
    <3> QED BY <2>4, <2>5, <2>6, <3>1 DEF NoneForgotten
  <2> QED
    BY <2>1, <2>7, <2>8, <2>9 DEF NoneForgotten
<1>12. Accounted'
  <2>1. cpc' = cpc /\ missing' \subseteq missing /\ (skippedAny => skippedAny')
    BY <1>1 DEF OwnStep, cycleVars
  <2>2. ASSUME NEW p \in missing', ~skippedAny' PROVE \E j \in Live' : tasks'[j].path = p
    <3>1. PICK j \in Live : tasks[j].path = p
      BY <2>1, <2>2 DEF IInv, Accounted
    <3>2. CASE j # i
      BY <1>1, <1>2, <3>1, <3>2 DEF Live, OwnStep
    <3>3. CASE j = i
      <4>1. i # 0 /\ RowMoves(w, i)
        BY <1>1, <1>2, <3>1, <3>3, IdsArePositive DEF Live
      <4>2. tasks'[i].path = p
        BY <3>1, <3>3, <4>1 DEF RowMoves, Legal
      <4>3. i \in Live'
        BY <1>2, <2>2, <3>1, <3>3, <4>1, <4>2
           DEF RowMoves, Live, Runnable, WithStatus, IInv, RowsFit, RowFits
      <4> QED BY <4>2, <4>3
    <3> QED BY <3>2, <3>3
  <2>3. \A v \in Workers : wpc'[v] = "stored" => tasks'[wtask'[v]].path \notin missing'
    <3> TAKE v \in Workers
    <3>1. CASE v = w
      BY <1>1, <3>1 DEF RowMoves, Legal, RowFits, OwnStep
    <3>2. CASE v # w
      BY <1>1, <1>2, <2>1, <3>2 DEF OwnStep, IInv, TypeOK, Accounted, RowsFit, RowFits
    <3> QED BY <3>1, <3>2
  <2>4. cpc \notin {"down", "boot", "idle"} =>
          \A j \in Present' : tasks'[j].status = "skipped" /\ tasks'[j].mine => skippedAny'
    BY <1>1, <1>2, <2>1 DEF OwnStep, RowMoves, Present, IInv, Accounted
  <2> QED
    BY <2>1, <2>2, <2>3, <2>4 DEF Accounted
<1>13. OkMeansComplete'
  BY <1>1 DEF IInv, OkMeansComplete, OwnStep, cycleVars
<1> QED
  BY <1>3, <1>4, <1>5, <1>6, <1>7, <1>9, <1>10, <1>11, <1>12, <1>13 DEF IInv

-----------------------------------------------------------------------------
(* The steps of the cycle that leave the table and the workers alone.      *)

\* No worker runs: none has a row.
LEMMA NoneHeld ==
  ASSUME IInv, WorkersGone
  PROVE  Held = {} /\ Live = Runnable
  BY DEF IInv, TypeOK, RowsFit, RowFits, WorkersGone, Held, Live

LEMMA SameRows ==
  ASSUME IInv, UNCHANGED <<tasks, wpc, wtask, afterId, missing, skippedAny>>
  PROVE  /\ RowsFit' /\ HandedInOrder' /\ OnePerPath' /\ AttemptLeft'
         /\ UNCHANGED <<Present, Runnable, Held, Live, WorkersGone>>
<1>1. UNCHANGED <<Present, Runnable, Held, Live, WorkersGone>>
  BY DEF Present, Runnable, WithStatus, Held, Live, WorkersGone
<1>2. RowsFit' /\ HandedInOrder'
  BY <1>1 DEF IInv, RowsFit, RowFits, HandedInOrder
<1>3. OnePerPath' /\ AttemptLeft'
  BY <1>1 DEF IInv, OnePerPath, AttemptLeft
<1> QED
  BY <1>1, <1>2, <1>3

\* What is missing stays accounted for.
LEMMA SameAccounts ==
  ASSUME IInv, UNCHANGED <<tasks, wpc, wtask, afterId, missing, skippedAny>>,
         cpc' \in {"down", "boot", "idle"} \/ cpc \notin {"down", "boot", "idle"}
  PROVE  Accounted'
<1>1. UNCHANGED <<Present, Live>>
  BY SameRows
<1> QED
  BY <1>1 DEF IInv, Accounted

LEMMA PlainSteps ==
  ASSUME IInv,
         \/ PassCancelled \/ PassFails \/ PageFails \/ HandCancelled
         \/ QueueEnds \/ Settle \/ StopSignal \/ StartProcess
  PROVE  IInv'
<1>0. /\ UNCHANGED <<tasks, wpc, wtask, conn, afterId, missing, skippedAny, crashes, connLost, more>>
      /\ cpc' \in {"down", "boot", "idle"} \/ cpc \notin {"down", "boot", "idle"}
  BY DEF PassCancelled, PassFails, PageFails, HandCancelled, QueueEnds, Settle, StopSignal,
         StartProcess, volatile, workerVars
<1>1. /\ RowsFit' /\ HandedInOrder' /\ OnePerPath' /\ AttemptLeft' /\ Accounted'
      /\ UNCHANGED <<Present, Runnable, Held, Live, WorkersGone>>
  BY <1>0, SameRows, SameAccounts
<1>2. parentDone' \in BOOLEAN
  BY Zenon DEF IInv, TypeOK, PassCancelled, PassFails, PageFails, HandCancelled, QueueEnds,
               Settle, StopSignal, StartProcess, volatile
<1>3. TypeOK'
  BY <1>0, <1>2, MaxPassesPositive
     DEF IInv, TypeOK, CyclePC, PassCancelled, PassFails, PageFails, HandCancelled, QueueEnds,
         Settle, StopSignal, StartProcess, volatile
<1>4. PageAhead' /\ Quiet'
  BY <1>0, <1>1 DEF IInv, PageAhead, Quiet, PassCancelled, PassFails, PageFails, HandCancelled,
         QueueEnds, Settle, StopSignal, StartProcess, volatile
<1>5. NoneForgotten'
  BY <1>0, <1>1 DEF IInv, NoneForgotten, PassCancelled, PassFails, PageFails, HandCancelled,
         QueueEnds, Settle, StopSignal, StartProcess, volatile, ctxDone
<1>6. OkMeansComplete'
  <2>1. CASE Settle
    <3>1. Live = Runnable
      BY <2>1, NoneHeld DEF IInv, Quiet, Settle
    <3> QED
      BY <2>1, <3>1 DEF IInv, Accounted, OkMeansComplete, Settle
  <2>2. CASE ~Settle
    BY <1>0, <2>2 DEF IInv, OkMeansComplete, PassCancelled, PassFails, PageFails, HandCancelled,
         QueueEnds, StopSignal, StartProcess, volatile
  <2> QED BY <2>1, <2>2
<1> QED
  BY <1>1, <1>3, <1>4, <1>5, <1>6 DEF IInv

-----------------------------------------------------------------------------
(* The steps taken while no worker runs.                                   *)

\* With no worker running, and none started with a row, most of the invariant
\* is about the table alone.
LEMMA NoWorkers ==
  ASSUME \A w \in Workers : wpc'[w] \in {"off", "select"} /\ wtask'[w] = 0,
         afterId' \in Nat, page' = {}, cpc' # "hand"
  PROVE  Held' = {} /\ Live' = Runnable' /\ RowsFit' /\ HandedInOrder' /\ PageAhead'
  BY DEF Held, Live, RowsFit, RowFits, HandedInOrder, PageAhead

\* The rows that may run are the same, in the same state but for mine, or
\* fewer of them; or rows in progress become pending.
LEMMA FewerRows ==
  ASSUME IInv, Live = Runnable, Live' = Runnable',
         \A i \in Runnable' : /\ i \in Runnable
                              /\ tasks'[i].path = tasks[i].path
                              /\ tasks'[i].attempts = tasks[i].attempts
  PROVE  OnePerPath' /\ AttemptLeft'
  BY DEF IInv, OnePerPath, AttemptLeft

LEMMA Reset ==
  ASSUME IInv, Exit \/ Crash
  PROVE  IInv'
<1>1. /\ tasks' = tasks /\ cpc' = "down" /\ page' = {} /\ afterId' = 0
      /\ pass' = 0 /\ status' = "OK" /\ missing' = {}
      /\ wpc' = [w \in Workers |-> "off"] /\ wtask' = [w \in Workers |-> 0]
  BY DEF Exit, Crash, VolatileReset
<1>2. /\ more' \in BOOLEAN /\ parentDone' \in BOOLEAN /\ connLost' \in BOOLEAN
      /\ skippedAny' \in BOOLEAN /\ conn' \in [Workers -> BOOLEAN]
  BY Zenon DEF Exit, Crash, VolatileReset
<1>3. crashes' \in 0 .. MaxCrashes
  BY MaxCrashesNat DEF IInv, TypeOK, Exit, Crash
<1>4. TypeOK'
  BY <1>1, <1>2, <1>3, MaxPassesPositive DEF IInv, TypeOK, CyclePC, WorkerPC
<1>5. Present' = Present /\ Runnable' = Runnable
  BY <1>1 DEF Present, Runnable, WithStatus
<1>6. Held' = {} /\ Live' = Runnable' /\ RowsFit' /\ HandedInOrder' /\ PageAhead'
  BY <1>1, NoWorkers
<1>7. Quiet' /\ NoneForgotten' /\ OkMeansComplete' /\ Accounted'
  BY <1>1, <1>6 DEF Quiet, WorkersGone, NoneForgotten, OkMeansComplete, Accounted
<1>8. OnePerPath' /\ AttemptLeft'
  BY <1>1, <1>5, <1>6 DEF IInv, OnePerPath, AttemptLeft, Live
<1> QED
  BY <1>4, <1>6, <1>7, <1>8 DEF IInv

\* What the two updates of whole groups of rows make of a row.
LEMMA PendingRow ==
  ASSUME NEW r \in Row, NEW n, n = [r EXCEPT !.status = "pending"]
  PROVE  /\ n \in Row /\ n # NoRow
         /\ n.status = "pending" /\ n.path = r.path /\ n.attempts = r.attempts /\ n.mine = r.mine
  BY NoRowIsNoRow DEF Row, RowStatus

LEMMA ForeignRow ==
  ASSUME NEW r \in Row, NEW n, n = [r EXCEPT !.mine = FALSE]
  PROVE  /\ n \in Row /\ n # NoRow
         /\ n.status = r.status /\ n.path = r.path /\ n.attempts = r.attempts /\ n.mine = FALSE
<1>1. n.status = r.status /\ n.path = r.path /\ n.attempts = r.attempts /\ n.mine = FALSE
  BY DEF Row
<1>2. FALSE \in BOOLEAN
  BY Zenon
<1>3. n \in Row
  BY <1>2 DEF Row
<1> QED
  BY <1>1, <1>3, NoRowIsNoRow

\* Boot: rows in progress were runnable, and still are.
LEMMA Boots ==
  ASSUME IInv, ResetStale
  PROVE  IInv'
<1>1. /\ cpc = "boot" /\ cpc' = "idle" /\ UNCHANGED <<volatile, crashes>>
      /\ WorkersGone /\ Held = {} /\ Live = Runnable
  BY NoneHeld DEF IInv, Quiet, ResetStale
<1>2. \A i \in Ids :
        \/ tasks'[i] = tasks[i] /\ ~(i \in Present /\ tasks[i].status = "in_progress")
        \/ /\ i \in Present /\ tasks[i].status = "in_progress"
           /\ tasks'[i] \in Row /\ tasks'[i] # NoRow
           /\ tasks'[i].status = "pending" /\ tasks'[i].path = tasks[i].path
           /\ tasks'[i].attempts = tasks[i].attempts /\ tasks'[i].mine = tasks[i].mine
  <2> TAKE i \in Ids
  <2>1. CASE i \in WithStatus({"in_progress"})
    <3>1. tasks[i] \in Row /\ tasks'[i] = [tasks[i] EXCEPT !.status = "pending"]
      BY <2>1 DEF IInv, TypeOK, ResetStale, WithStatus, Present
    <3> QED BY <2>1, <3>1, PendingRow DEF WithStatus
  <2>2. CASE i \notin WithStatus({"in_progress"})
    BY <2>2 DEF ResetStale, WithStatus
  <2> QED BY <2>1, <2>2
<1>3. TypeOK'
  <2>1. tasks' \in [Ids -> Row \cup {NoRow}]
    BY <1>2 DEF IInv, TypeOK, ResetStale
  <2> QED
    BY <1>1, <2>1 DEF IInv, TypeOK, volatile, CyclePC
<1>4. Present' = Present /\ Runnable' = Runnable
  BY <1>2 DEF Present, Runnable, WithStatus
<1>5. /\ Held' = {} /\ Live' = Runnable' /\ WorkersGone'
      /\ RowsFit' /\ HandedInOrder' /\ PageAhead'
  BY <1>1, NoWorkers DEF IInv, TypeOK, RowsFit, RowFits, PageAhead, WorkersGone, volatile
<1>6. \A i \in Runnable' : /\ tasks'[i].path = tasks[i].path
                           /\ tasks'[i].attempts = tasks[i].attempts
  BY <1>2, <1>4 DEF Runnable, WithStatus, Present
<1>7. OnePerPath' /\ AttemptLeft'
  BY <1>1, <1>4, <1>5, <1>6, FewerRows
<1>8. Accounted'
  BY <1>1, <1>4, <1>5, <1>6 DEF IInv, Accounted, volatile, WorkersGone
<1>9. Quiet' /\ NoneForgotten' /\ OkMeansComplete'
  BY <1>1, <1>5 DEF Quiet, NoneForgotten, OkMeansComplete
<1> QED
  BY <1>3, <1>5, <1>7, <1>8, <1>9 DEF IInv

\* A new cycle only forgets whose the rows are.
LEMMA Begins ==
  ASSUME IInv, BeginCycle
  PROVE  IInv'
<1>1. /\ cpc = "idle" /\ cpc' = "pass" /\ pass' = 1 /\ status' = "OK"
      /\ UNCHANGED <<more, page, afterId, wpc, wtask, conn, parentDone, connLost, skippedAny,
                     missing, crashes>>
      /\ WorkersGone /\ Held = {} /\ Live = Runnable
  BY NoneHeld DEF IInv, Quiet, BeginCycle, workerVars
<1>2. \A i \in Ids :
        \/ tasks[i] = NoRow /\ tasks'[i] = NoRow
        \/ /\ tasks[i] # NoRow /\ tasks'[i] # NoRow /\ tasks'[i] \in Row
           /\ tasks'[i].status = tasks[i].status /\ tasks'[i].path = tasks[i].path
           /\ tasks'[i].attempts = tasks[i].attempts /\ tasks'[i].mine = FALSE
  <2> TAKE i \in Ids
  <2>1. CASE tasks[i] = NoRow
    BY <2>1 DEF BeginCycle
  <2>2. CASE tasks[i] # NoRow
    <3>1. tasks[i] \in Row /\ tasks'[i] = [tasks[i] EXCEPT !.mine = FALSE]
      BY <2>2 DEF IInv, TypeOK, BeginCycle
    <3> QED BY <2>2, <3>1, ForeignRow
  <2> QED BY <2>1, <2>2
<1>3. TypeOK'
  <2>1. tasks' \in [Ids -> Row \cup {NoRow}]
    BY <1>2 DEF IInv, TypeOK, BeginCycle
  <2> QED
    BY <1>1, <2>1, MaxPassesPositive DEF IInv, TypeOK, CyclePC
<1>4. Present' = Present /\ Runnable' = Runnable
  BY <1>2 DEF Present, Runnable, WithStatus
<1>5. /\ Held' = {} /\ Live' = Runnable' /\ WorkersGone'
      /\ RowsFit' /\ HandedInOrder' /\ PageAhead'
  BY <1>1, NoWorkers DEF IInv, TypeOK, RowsFit, RowFits, PageAhead, WorkersGone
<1>6. \A i \in Present : /\ tasks'[i].path = tasks[i].path
                         /\ tasks'[i].attempts = tasks[i].attempts
                         /\ tasks'[i].mine = FALSE
  BY <1>2 DEF Present
<1>7. OnePerPath' /\ AttemptLeft'
  BY <1>1, <1>4, <1>5, <1>6, FewerRows DEF Runnable, WithStatus
<1>8. Accounted'
  BY <1>1, <1>4, <1>5, <1>6 DEF IInv, Accounted, WorkersGone, Runnable, WithStatus
<1>9. Quiet' /\ NoneForgotten' /\ OkMeansComplete'
  BY <1>1, <1>5 DEF Quiet, NoneForgotten, OkMeansComplete
<1> QED
  BY <1>3, <1>5, <1>7, <1>8, <1>9 DEF IInv

\* The deletions at the end of a cycle take rows that cannot run.
LEMMA Purges ==
  ASSUME IInv, PurgeDone \/ PurgeSkipped \/ PurgeFailed
  PROVE  IInv'
<1>1. /\ cpc \in {"delDone", "delSkipped", "delFailed"}
      /\ cpc' \in {"delSkipped", "delFailed", "idle"}
      /\ UNCHANGED <<wpc, wtask, conn, parentDone, crashes>>
      /\ page' = {} /\ afterId' \in Nat /\ pass' \in 0 .. MaxPasses
      /\ status' \in {"OK", "PARTIAL", "FAILED"}
      /\ (missing' = {} /\ cpc' = "idle") \/ (missing' = missing /\ skippedAny' = skippedAny /\ cpc' # "idle")
      /\ missing' \subseteq missing
  <2>0. page = {} \/ cpc = "hand"
    BY DEF IInv, PageAhead
  <2>1. CASE PurgeDone
    BY <2>0, <2>1 DEF IInv, TypeOK, PurgeDone, volatile
  <2>2. CASE PurgeSkipped
    BY <2>0, <2>2 DEF IInv, TypeOK, PurgeSkipped, volatile
  <2>3. CASE PurgeFailed
    <3>1. /\ cpc = "delFailed" /\ cpc' = "idle" /\ page' = {} /\ afterId' = 0 /\ pass' = 0
          /\ status' = "OK" /\ missing' = {} /\ UNCHANGED <<wpc, wtask, conn, parentDone, crashes>>
      BY <2>3, Zenon DEF PurgeFailed, workerVars
    <3> QED BY ONLY <3>1, MaxPassesPositive
  <2> QED BY <2>1, <2>2, <2>3
<1>2. more' \in BOOLEAN /\ connLost' \in BOOLEAN /\ skippedAny' \in BOOLEAN
  BY Zenon DEF IInv, TypeOK, PurgeDone, PurgeSkipped, PurgeFailed, volatile
<1>3. WorkersGone /\ Held = {} /\ Live = Runnable
  BY <1>1, NoneHeld DEF IInv, Quiet
<1>4. /\ tasks' \in [Ids -> Row \cup {NoRow}]
      /\ \A i \in Ids : tasks'[i] = tasks[i]
                        \/ /\ tasks'[i] = NoRow
                           /\ tasks[i].status \in {"done", "skipped", "failed"}
  BY DEF IInv, TypeOK, PurgeDone, PurgeSkipped, PurgeFailed, Purge, WithStatus, Present
<1>5. TypeOK'
  BY <1>1, <1>2, <1>4 DEF IInv, TypeOK, CyclePC
<1>6. /\ Runnable' = Runnable
      /\ \A i \in Present' : i \in Present /\ tasks'[i] = tasks[i]
      /\ \A i \in Runnable' : tasks'[i] = tasks[i]
  BY <1>4 DEF Present, Runnable, WithStatus
<1>7. /\ Held' = {} /\ Live' = Runnable' /\ WorkersGone'
      /\ RowsFit' /\ HandedInOrder' /\ PageAhead'
  BY <1>1, <1>3, NoWorkers DEF IInv, RowsFit, RowFits, WorkersGone
<1>8. OnePerPath' /\ AttemptLeft'
  BY <1>3, <1>6, <1>7, FewerRows
<1>9. Accounted'
  BY <1>1, <1>3, <1>6, <1>7 DEF IInv, Accounted, WorkersGone
<1>10. Quiet' /\ NoneForgotten' /\ OkMeansComplete'
  BY <1>1, <1>7 DEF Quiet, NoneForgotten, OkMeansComplete
<1> QED
  BY <1>5, <1>7, <1>8, <1>9, <1>10 DEF IInv

-----------------------------------------------------------------------------
(* The steps of the producer.                                              *)

\* New rows are for paths that no runnable row has.
LEMMA Enqueues ==
  ASSUME IInv, Enqueue
  PROVE  IInv'
<1>1. PICK S \in SUBSET Paths, moved \in BOOLEAN, last \in LastIds :
        LET New == {p \in S : \A i \in Present : tasks[i].path = p => ~Blocks(tasks[i])}
            Fresh == {i \in Ids : i > last /\ i <= last + Cardinality(New)}
        IN /\ \E f \in [Fresh -> New] :
                /\ \A p \in New : \E i \in Fresh : f[i] = p
                /\ \A i, j \in Fresh : f[i] = f[j] => i = j
                /\ tasks' = [i \in Ids |->
                     IF i \in Fresh
                     THEN [path |-> f[i], status |-> "pending", attempts |-> 0, mine |-> TRUE]
                     ELSE tasks[i]]
           /\ more' = (moved \/ New # {})
           /\ missing' = S
  BY Zenon DEF Enqueue
<1> DEFINE New == {p \in S : \A i \in Present : tasks[i].path = p => ~Blocks(tasks[i])}
           Fresh == {i \in Ids : i > last /\ i <= last + Cardinality(New)}
<1>2. PICK f \in [Fresh -> New] :
        /\ \A p \in New : \E i \in Fresh : f[i] = p
        /\ \A i, j \in Fresh : f[i] = f[j] => i = j
        /\ tasks' = [i \in Ids |->
             IF i \in Fresh
             THEN [path |-> f[i], status |-> "pending", attempts |-> 0, mine |-> TRUE]
             ELSE tasks[i]]
  BY <1>1, Zenon
<1>3. /\ cpc = "pass" /\ cpc' = "page" /\ page' = {} /\ afterId' = 0 /\ missing' = S
      /\ wpc' = [w \in Workers |-> "select"] /\ wtask' = [w \in Workers |-> 0]
      /\ UNCHANGED <<pass, status, parentDone, connLost, skippedAny, crashes>>
  BY <1>1 DEF Enqueue
<1>4. more' \in BOOLEAN /\ conn' \in [Workers -> BOOLEAN]
  BY <1>1, Zenon DEF Enqueue
<1>5. Held = {} /\ Live = Runnable
  BY <1>3, NoneHeld DEF IInv, Quiet
<1>6. Fresh \subseteq Ids /\ \A i \in Fresh : i \notin Present
  BY IdsAreNumbers DEF LastIds, Present
<1>7. \A i \in Fresh : /\ tasks'[i] \in Row /\ tasks'[i] # NoRow
                       /\ tasks'[i].status = "pending" /\ tasks'[i].path = f[i]
                       /\ tasks'[i].attempts = 0 /\ f[i] \in New
  <2> TAKE i \in Fresh
  <2>1. f[i] \in New /\ f[i] \in Paths
    BY <1>2
  <2>2. TRUE \in BOOLEAN /\ 0 \in 0 .. RetryCount
    BY RetryPositive, Zenon, SMT
  <2>3. tasks'[i] = [path |-> f[i], status |-> "pending", attempts |-> 0, mine |-> TRUE]
    BY <1>2, <1>6, Zenon
  <2>4. tasks'[i] \in Row
    BY <2>1, <2>2, <2>3 DEF Row, RowStatus
  <2>5. /\ tasks'[i].status = "pending" /\ tasks'[i].path = f[i]
        /\ tasks'[i].attempts = 0
    BY ONLY <2>3
  <2>6. tasks'[i] # NoRow
    BY ONLY <2>4, NoRowIsNoRow
  <2> QED
    BY <2>1, <2>4, <2>5, <2>6, Zenon
<1>8. \A i \in Ids : i \notin Fresh => tasks'[i] = tasks[i]
  BY <1>2
<1>9. TypeOK'
  <2>1. tasks' \in [Ids -> Row \cup {NoRow}]
    BY <1>2, <1>7, <1>8 DEF IInv, TypeOK
  <2> QED
    BY <1>3, <1>4, <2>1 DEF IInv, TypeOK, CyclePC, WorkerPC
<1>10. Present' = Present \cup Fresh /\ Runnable' = Runnable \cup Fresh
  BY <1>6, <1>7, <1>8 DEF Present, Runnable, WithStatus
<1>11. /\ Held' = {} /\ Live' = Runnable'
       /\ RowsFit' /\ HandedInOrder' /\ PageAhead'
  BY <1>3, NoWorkers
<1>12. \A i \in Runnable : i \notin Fresh /\ tasks'[i] = tasks[i] /\ tasks[i].path \notin New
  BY <1>6, <1>8 DEF Runnable, WithStatus, Present, Blocks
<1>13. OnePerPath'
  <2> SUFFICES ASSUME NEW i \in Runnable', NEW j \in Runnable', tasks'[i].path = tasks'[j].path
               PROVE  i = j
    BY <1>11 DEF OnePerPath
  <2>1. CASE i \in Runnable /\ j \in Runnable
    BY <1>5, <1>12, <2>1 DEF IInv, OnePerPath
  <2>2. CASE i \in Fresh /\ j \in Fresh
    BY <1>2, <1>7, <2>2
  <2>3. CASE (i \in Fresh /\ j \in Runnable) \/ (i \in Runnable /\ j \in Fresh)
    BY <1>7, <1>12, <2>3
  <2> QED BY <1>10, <2>1, <2>2, <2>3
<1>14. AttemptLeft'
  <2>1. \A i \in Fresh : tasks'[i].attempts < RetryCount
    BY <1>7, RetryPositive
  <2>2. \A i \in Runnable : tasks'[i].attempts < RetryCount
    BY <1>12 DEF IInv, AttemptLeft
  <2> QED BY <1>10, <2>1, <2>2, Zenon DEF AttemptLeft
<1>15. Accounted'
  <2>1. ASSUME NEW p \in S, ~skippedAny PROVE \E i \in Runnable' : tasks'[i].path = p
    <3>1. CASE p \in New
      BY <1>2, <1>7, <1>10, <3>1
    <3>2. CASE p \notin New
      <4>1. PICK i \in Present : tasks[i].path = p /\ Blocks(tasks[i])
        BY <3>2
      <4>2. i \in Runnable
        BY <1>3, <2>1, <4>1 DEF IInv, Accounted, Blocks, Runnable, WithStatus
      <4> QED BY <1>10, <1>12, <4>1, <4>2
    <3> QED BY <3>1, <3>2
  <2>2. \A i \in Present' : tasks'[i].status = "skipped" /\ tasks'[i].mine => skippedAny'
    BY <1>3, <1>7, <1>8, <1>10 DEF IInv, Accounted, Present
  <2>3. \A w \in Workers : wpc'[w] # "stored"
    BY <1>3
  <2> QED
    BY <1>3, <1>11, <2>1, <2>2, <2>3 DEF Accounted
<1>16. Quiet' /\ OkMeansComplete'
  BY <1>3 DEF Quiet, OkMeansComplete
<1>17. NoneForgotten'
  <2>1. \A i \in Runnable' : ~(i <= 0)
    BY IdsArePositive DEF Runnable, WithStatus, Present
  <2> QED BY <1>3, <2>1 DEF NoneForgotten
<1> QED
  BY <1>9, <1>11, <1>13, <1>14, <1>15, <1>16, <1>17 DEF IInv

\* A page is the beginning of what is behind afterId, and an empty page means
\* that nothing is.
LEMMA PageIsFirst ==
  ASSUME NEW B \in SUBSET Nat, NEW F,
         F = {i \in B : Cardinality({j \in B : j < i}) < PageSize}
  PROVE  /\ \A i \in B \ F : \A j \in F : j < i
         /\ F = {} => B = {}
<1>1. ASSUME NEW i \in B \ F, NEW j \in F, ~(j < i) PROVE FALSE
  <2>1. i \in Nat /\ j \in Nat /\ j \in B /\ i < j
    BY <1>1
  <2>2. {k \in B : k < i} \in SUBSET {k \in B : k < j}
    BY <2>1, BelowLess
  <2>3. Cardinality({k \in B : k < i}) <= Cardinality({k \in B : k < j})
    BY <2>1, <2>2, FiniteBelow, FS_Subset
  <2>4. Cardinality({k \in B : k < i}) \in Nat /\ Cardinality({k \in B : k < j}) \in Nat
    BY <2>1, FiniteBelow
  <2> QED BY <1>1, <2>3, <2>4, PageSizePositive
<1>2. ASSUME B # {} PROVE F # {}
  <2>1. PICK m \in B : \A n \in B : ~(n < m)
    BY <1>2, LeastMember
  <2>2. {j \in B : j < m} = {}
    BY <2>1
  <2>3. Cardinality({j \in B : j < m}) = 0
    BY <2>2, FS_EmptySet
  <2> QED BY <2>1, <2>3, PageSizePositive
<1> QED
  BY <1>1, <1>2

LEMMA Lists ==
  ASSUME IInv, ListPage
  PROVE  IInv'
<1> DEFINE B == {i \in Runnable : i > afterId}
           F == {i \in B : Cardinality({j \in B : j < i}) < PageSize}
<1>1. /\ cpc = "page" /\ page' = F /\ cpc' = IF F = {} THEN "drain" ELSE "hand"
      /\ UNCHANGED <<tasks, pass, more, status, afterId, wpc, wtask, conn, parentDone, connLost,
                     skippedAny, missing, crashes>>
  BY DEF ListPage, workerVars
<1>2. Runnable \subseteq Ids /\ B \in SUBSET Nat
  BY IdsAreNumbers DEF Runnable, WithStatus, Present
<1>3. /\ \A i \in B \ F : \A j \in F : j < i
      /\ F = {} => B = {}
  BY <1>2, PageIsFirst
<1>4. /\ F \subseteq Runnable /\ \A i \in F : i > afterId
      /\ cpc' = "hand" <=> F # {}
      /\ cpc' \in {"hand", "drain"}
  BY <1>1
<1> HIDE DEF F
<1>5. /\ RowsFit' /\ HandedInOrder' /\ OnePerPath' /\ AttemptLeft' /\ Accounted'
      /\ UNCHANGED <<Runnable, Held, WorkersGone>>
  BY <1>1, SameRows, SameAccounts
<1>6. TypeOK'
  BY <1>1, <1>2, <1>4 DEF IInv, TypeOK, CyclePC
<1>7. PageAhead'
  BY <1>1, <1>4, <1>5 DEF PageAhead
<1>8. NoneForgotten'
  <2>1. ctxDone' = ctxDone
    BY <1>1 DEF ctxDone
  <2>2. cpc' = "hand" => \A i \in Runnable : i > afterId => i \in F \/ \A j \in F : j < i
    BY <1>3
  <2>3. cpc' = "drain" => \A i \in Runnable : i <= afterId
    <3>1. afterId \in Nat /\ \A i \in Runnable : i \in Nat
      BY <1>2, IdsAreNumbers DEF IInv, TypeOK
    <3> QED BY <1>3, <1>4, <3>1
  <2> QED
    BY <1>1, <1>4, <1>5, <2>1, <2>2, <2>3 DEF IInv, NoneForgotten
<1>9. Quiet' /\ OkMeansComplete'
  BY <1>4 DEF Quiet, OkMeansComplete
<1> QED
  BY <1>5, <1>6, <1>7, <1>8, <1>9 DEF IInv

\* The least id of the page goes to a worker that has none.
LEMMA HandedRow ==
  ASSUME NEW r \in Row, NEW n, n = [r EXCEPT !.status = "in_progress"]
  PROVE  /\ n \in Row /\ n # NoRow
         /\ n.status = "in_progress" /\ n.path = r.path
         /\ n.attempts = r.attempts /\ n.mine = r.mine
  BY NoRowIsNoRow DEF Row, RowStatus

LEMMA Hands ==
  ASSUME IInv, NEW w \in Workers, HandOver(w)
  PROVE  IInv'
<1>1. PICK i \in page : /\ \A j \in page : i <= j
                        /\ page' = page \ {i}
                        /\ afterId' = i
                        /\ wtask' = [wtask EXCEPT ![w] = i]
                        /\ SetStatus(i, "in_progress")
  BY DEF HandOver
<1>2. /\ cpc = "hand" /\ wpc[w] = "select" /\ wtask[w] = 0
      /\ cpc' = IF page' = {} THEN "page" ELSE "hand"
      /\ UNCHANGED <<pass, more, status, conn, parentDone, connLost, skippedAny, missing, crashes>>
  BY DEF HandOver, IInv, RowsFit, RowFits
<1>3. wpc' \in [Workers -> WorkerPC] /\ wpc'[w] \in {"try", "dial"}
      /\ \A v \in Workers : v # w => wpc'[v] = wpc[v]
  BY DEF HandOver, GotoTry, Goto, IInv, TypeOK, WorkerPC
<1>4. /\ i \in Runnable /\ i \in Ids /\ i \in Present /\ i > afterId /\ i \in Nat /\ i # 0
      /\ afterId \in Nat /\ \A j \in Runnable : j \in Nat
      /\ page \subseteq Runnable /\ \A j \in page : j > afterId
  BY IdsArePositive DEF IInv, TypeOK, PageAhead, Runnable, WithStatus, Present
<1>5. /\ tasks' \in [Ids -> Row \cup {NoRow}]
      /\ \A j \in Ids : j # i => tasks'[j] = tasks[j]
      /\ tasks'[i] \in Row /\ tasks'[i] # NoRow
      /\ tasks'[i].status = "in_progress" /\ tasks'[i].path = tasks[i].path
      /\ tasks'[i].attempts = tasks[i].attempts /\ tasks'[i].mine = tasks[i].mine
  <2>1. tasks[i] \in Row /\ tasks' = [tasks EXCEPT ![i] = [tasks[i] EXCEPT !.status = "in_progress"]]
    BY <1>1, <1>4 DEF SetStatus, IInv, TypeOK, Present
  <2>2. tasks'[i] = [tasks[i] EXCEPT !.status = "in_progress"]
        /\ \A j \in Ids : j # i => tasks'[j] = tasks[j]
    BY <1>4, <2>1 DEF IInv, TypeOK
  <2>3. /\ tasks'[i] \in Row /\ tasks'[i] # NoRow
        /\ tasks'[i].status = "in_progress" /\ tasks'[i].path = tasks[i].path
        /\ tasks'[i].attempts = tasks[i].attempts /\ tasks'[i].mine = tasks[i].mine
    BY ONLY <2>1, <2>2, HandedRow
  <2>4. tasks' \in [Ids -> Row \cup {NoRow}]
    BY <1>4, <2>1, <2>2, <2>3 DEF IInv, TypeOK
  <2> QED BY ONLY <2>2, <2>3, <2>4
<1>6. Present' = Present /\ Runnable' = Runnable
  BY <1>4, <1>5 DEF Present, Runnable, WithStatus
<1>7. /\ wtask' \in [Workers -> Ids \cup {0}] /\ wtask'[w] = i
      /\ \A v \in Workers : v # w => wtask'[v] = wtask[v]
  BY <1>1, <1>4 DEF IInv, TypeOK
<1>8. \A v \in Workers : wtask[v] \in Nat /\ wtask[v] < i
  <2> TAKE v \in Workers
  <2>1. wtask[v] \in Ids \cup {0} /\ wtask[v] <= afterId
    BY DEF IInv, TypeOK, HandedInOrder
  <2>2. wtask[v] \in Nat
    BY <2>1, IdsAreNumbers
  <2> QED BY <1>4, <2>1, <2>2
<1>9. Held' = Held \cup {i} /\ Live' = Live
  <2>1. Held' \subseteq Held \cup {i}
    BY <1>7 DEF Held
  <2>2. i \in Held'
    BY <1>4, <1>7 DEF Held
  <2>3. ASSUME NEW v \in Workers, wtask[v] # 0 PROVE wtask[v] \in Held'
    BY <1>2, <1>7, <2>3 DEF Held
  <2>4. Held' = Held \cup {i}
    BY <2>1, <2>2, <2>3 DEF Held
  <2> QED BY <1>4, <1>6, <2>4 DEF Live
<1>10. TypeOK'
  <2>1. page' \subseteq Ids /\ afterId' \in Nat
    BY <1>1, <1>4 DEF IInv, TypeOK
  <2> QED BY <1>2, <1>3, <1>5, <1>7, <2>1 DEF IInv, TypeOK, CyclePC
<1>11. RowsFit'
  <2> SUFFICES ASSUME NEW v \in Workers PROVE RowFits(v)'
    BY DEF RowsFit
  <2>1. CASE v = w
    <3>1. tasks'[i].attempts < RetryCount
      BY <1>4, <1>5 DEF IInv, AttemptLeft
    <3> QED BY <1>3, <1>4, <1>5, <1>6, <1>7, <2>1, <3>1 DEF RowFits
  <2>2. CASE v # w
    <3>1. RowFits(v) /\ wpc'[v] = wpc[v] /\ wtask'[v] = wtask[v] /\ wtask[v] # i
      BY <1>3, <1>4, <1>7, <1>8, <2>2 DEF IInv, RowsFit
    <3>2. wtask[v] # 0 => tasks'[wtask[v]] = tasks[wtask[v]]
      BY <1>5, <3>1 DEF IInv, TypeOK
    <3> QED BY <1>6, <3>1, <3>2 DEF RowFits, IInv, TypeOK, WorkerPC
  <2> QED BY <2>1, <2>2
<1>12. HandedInOrder'
  BY <1>1, <1>4, <1>7, <1>8 DEF IInv, HandedInOrder
<1>13. PageAhead'
  <2>1. \A j \in page' : j > i
    BY <1>1, <1>4
  <2> QED BY <1>1, <1>2, <1>4, <1>6, <2>1 DEF PageAhead
<1>14. Quiet' /\ OkMeansComplete'
  BY <1>2 DEF Quiet, OkMeansComplete
<1>15. \A j \in Live' : tasks'[j].path = tasks[j].path
  <2>1. Live \subseteq Ids
    BY DEF Live, Held, Runnable, WithStatus, Present, IInv, TypeOK
  <2> QED BY <1>5, <1>9, <2>1
<1>16. OnePerPath'
  BY <1>9, <1>15 DEF IInv, OnePerPath
<1>17. AttemptLeft'
  BY <1>4, <1>5, <1>6 DEF IInv, AttemptLeft, Runnable, WithStatus, Present
<1>18. NoneForgotten'
  <2>1. ctxDone' = ctxDone
    BY <1>2 DEF ctxDone
  <2>2. ~ctxDone => \A j \in Runnable : j <= i => j \in Held \cup {i}
    <3> SUFFICES ASSUME ~ctxDone, NEW j \in Runnable, j <= i, j # i PROVE j \in Held
      OBVIOUS
    <3>1. j \in Nat /\ j < i
      BY <1>4
    <3>2. j \notin page /\ ~(\A k \in page : k < j)
      BY <1>1, <1>4, <3>1
    <3>3. ~(j > afterId)
      BY <1>2, <3>2 DEF IInv, NoneForgotten
    <3>4. j <= afterId
      BY <1>4, <3>1, <3>3
    <3> QED BY <1>2, <3>4 DEF IInv, NoneForgotten
  <2>3. \A j \in Runnable : j > i => j \in page' \/ \A k \in page' : k < j
    <3> SUFFICES ASSUME NEW j \in Runnable, j > i PROVE j \in page' \/ \A k \in page' : k < j
      OBVIOUS
    <3>1. j > afterId /\ j # i
      BY <1>4
    <3> QED BY <1>1, <1>2, <3>1 DEF IInv, NoneForgotten
  <2>4. cpc' \in {"page", "hand"}
    BY <1>2
  <2> QED BY <1>1, <1>6, <1>9, <2>1, <2>2, <2>3, <2>4 DEF NoneForgotten
<1>19. Accounted'
  <2>1. \A p \in missing' : skippedAny' \/ \E j \in Live' : tasks'[j].path = p
    BY <1>2, <1>9, <1>15 DEF IInv, Accounted
  <2>2. \A v \in Workers : wpc'[v] = "stored" => tasks'[wtask'[v]].path \notin missing'
    <3> SUFFICES ASSUME NEW v \in Workers, wpc'[v] = "stored"
                 PROVE  tasks'[wtask'[v]].path \notin missing'
      OBVIOUS
    <3>1. v # w /\ wpc[v] = "stored" /\ wtask'[v] = wtask[v]
      BY <1>3, <1>7
    <3>2. wtask[v] \in Ids /\ wtask[v] # i
      BY <1>4, <1>8, <3>1 DEF IInv, TypeOK, RowsFit, RowFits
    <3> QED BY <1>2, <1>5, <3>1, <3>2 DEF IInv, Accounted
  <2>3. \A j \in Present' : tasks'[j].status = "skipped" /\ tasks'[j].mine => skippedAny'
    BY <1>2, <1>5, <1>6 DEF IInv, Accounted, Present
  <2> QED BY <2>1, <2>2, <2>3 DEF Accounted
<1> QED
  BY <1>10, <1>11, <1>12, <1>13, <1>14, <1>16, <1>17, <1>18, <1>19 DEF IInv

-----------------------------------------------------------------------------
(* All the steps together.                                                 *)

LEMMA NextIInv == IInv /\ [Next]_vars => IInv'
<1> SUFFICES ASSUME IInv, [Next]_vars PROVE IInv'
  OBVIOUS
<1>1. CASE BeginCycle
  BY <1>1, Begins
<1>2. CASE PassCancelled \/ PassFails \/ PageFails \/ HandCancelled \/ QueueEnds \/ Settle
           \/ StopSignal \/ StartProcess
  BY <1>2, PlainSteps
<1>3. CASE Enqueue
  BY <1>3, Enqueues
<1>4. CASE ListPage
  BY <1>4, Lists
<1>5. CASE \E w \in Workers : HandOver(w)
  BY <1>5, Hands
<1>6. CASE PurgeDone \/ PurgeSkipped \/ PurgeFailed
  BY <1>6, Purges
<1>7. CASE \E w \in Workers : Worker(w) \/ Throttled(w)
  BY <1>7, WorkerKeeps
<1>8. CASE Exit \/ Crash
  BY <1>8, Reset
<1>9. CASE ResetStale
  BY <1>9, Boots
<1>10. CASE UNCHANGED vars
  <2>1. UNCHANGED <<tasks, cpc, volatile, crashes>>
    BY <1>10 DEF vars
  <2>2. /\ RowsFit' /\ HandedInOrder' /\ OnePerPath' /\ AttemptLeft' /\ Accounted'
        /\ UNCHANGED <<Runnable, Held, WorkersGone>>
    BY <2>1, SameRows, SameAccounts DEF volatile
  <2>3. TypeOK'
    BY <2>1 DEF IInv, TypeOK, volatile
  <2>4. PageAhead' /\ Quiet' /\ NoneForgotten' /\ OkMeansComplete'
    BY <2>1, <2>2 DEF IInv, PageAhead, Quiet, NoneForgotten, OkMeansComplete, volatile, ctxDone
  <2> QED BY <2>2, <2>3, <2>4 DEF IInv
<1> QED
  BY <1>1, <1>2, <1>3, <1>4, <1>5, <1>6, <1>7, <1>8, <1>9, <1>10 DEF Next, Producer

LEMMA Invariance == Spec => []IInv
<1> QED
  BY InitIInv, NextIInv, PTL DEF Spec

(* The variables of the model keep their types: attempts never exceed     *)
(* RETRY_COUNT, ids and pages stay inside the table.                       *)
THEOREM TypeCorrect == Spec => []TypeOK
<1>1. IInv => TypeOK
  BY DEF IInv
<1> QED
  BY <1>1, Invariance, PTL

(* No two workers of the pool ever hold tasks of the same path: their two *)
(* attempts would write one .part file.                                    *)
THEOREM PathsNotShared == Spec => []NoSharedPart
<1>1. IInv => NoSharedPart
  <2> SUFFICES ASSUME IInv, NEW v \in Workers, NEW w \in Workers, v # w,
                      wtask[v] # 0, wtask[w] # 0, tasks[wtask[v]].path = tasks[wtask[w]].path
               PROVE  FALSE
    BY DEF NoSharedPart
  <2>1. wtask[v] \in Live /\ wtask[w] \in Live
    BY DEF Live, Held
  <2>2. wtask[v] = wtask[w]
    BY <2>1 DEF IInv, OnePerPath
  <2> QED BY <2>2 DEF IInv, HandedInOrder
<1> QED
  BY <1>1, Invariance, PTL

(* A task that may run has an attempt left, after any number of crashes   *)
(* and restarts.                                                           *)
THEOREM AttemptsBounded == Spec => []AttemptLeft
<1>1. IInv => AttemptLeft
  BY DEF IInv
<1> QED
  BY <1>1, Invariance, PTL

(* When RunDownloadQueue returns nil, no task is pending or in progress.  *)
THEOREM NilDrains == Spec => []NilMeansDrained
<1>1. IInv => NilMeansDrained
  <2> SUFFICES ASSUME IInv, cpc = "drain", WorkersGone, ~ctxDone, NEW i \in Runnable PROVE FALSE
    BY DEF NilMeansDrained
  <2>1. i <= afterId
    BY DEF IInv, NoneForgotten
  <2>2. i \in Held
    BY <2>1 DEF IInv, NoneForgotten
  <2> QED BY <2>2, NoneHeld
<1> QED
  BY <1>1, Invariance, PTL

(* A cycle whose status is OK has stored every file its last comparison   *)
(* found new or changed.                                                   *)
THEOREM OkIsComplete == Spec => []OkMeansComplete
<1>1. IInv => OkMeansComplete
  BY DEF IInv
<1> QED
  BY <1>1, Invariance, PTL

-----------------------------------------------------------------------------
(* The life of a row.                                                      *)

\* New rows take free ids.
LEMMA EnqueueKeepsRows ==
  ASSUME Enqueue, NEW i \in Present
  PROVE  tasks'[i] = tasks[i]
<1>1. PICK S \in SUBSET Paths, moved \in BOOLEAN, last \in LastIds :
        LET New == {p \in S : \A j \in Present : tasks[j].path = p => ~Blocks(tasks[j])}
            Fresh == {j \in Ids : j > last /\ j <= last + Cardinality(New)}
        IN /\ \E f \in [Fresh -> New] :
                /\ \A p \in New : \E j \in Fresh : f[j] = p
                /\ \A j, k \in Fresh : f[j] = f[k] => j = k
                /\ tasks' = [j \in Ids |->
                     IF j \in Fresh
                     THEN [path |-> f[j], status |-> "pending", attempts |-> 0, mine |-> TRUE]
                     ELSE tasks[j]]
           /\ more' = (moved \/ New # {})
           /\ missing' = S
  BY Zenon DEF Enqueue
<1> DEFINE New == {p \in S : \A j \in Present : tasks[j].path = p => ~Blocks(tasks[j])}
           Fresh == {j \in Ids : j > last /\ j <= last + Cardinality(New)}
<1>2. PICK f \in [Fresh -> New] :
        tasks' = [j \in Ids |->
          IF j \in Fresh
          THEN [path |-> f[j], status |-> "pending", attempts |-> 0, mine |-> TRUE]
          ELSE tasks[j]]
  BY <1>1, Zenon
<1>3. i \in Ids /\ i \notin Fresh
  BY IdsAreNumbers DEF LastIds, Present
<1> HIDE DEF Fresh
<1> QED
  BY <1>2, <1>3

\* What each kind of step makes of a row that is there.
LEMMA RowSteps ==
  ASSUME IInv, Next, NEW i \in Ids, tasks[i] # NoRow
  PROVE  Legal(tasks[i], tasks'[i])
<1>1. /\ tasks[i] \in Row /\ i \in Present /\ tasks \in [Ids -> Row \cup {NoRow}]
      /\ tasks[i].status = "pending" => tasks[i].attempts < RetryCount
      /\ i \in Runnable => tasks[i].attempts < RetryCount
      /\ tasks[i].attempts \in Nat
  BY RetryPositive DEF IInv, TypeOK, AttemptLeft, Runnable, WithStatus, Present, Row
<1>2. Legal(tasks[i], tasks[i])
  BY <1>1, StaysLegal
<1>3. CASE BeginCycle
  <2>1. tasks'[i] = [tasks[i] EXCEPT !.mine = FALSE]
    BY <1>3 DEF BeginCycle
  <2> QED BY <1>1, <1>2, <2>1, ForeignRow DEF Legal
<1>4. CASE Enqueue
  BY <1>1, <1>2, <1>4, EnqueueKeepsRows
<1>5. CASE \E w \in Workers : HandOver(w)
  <2>1. PICK j \in page : SetStatus(j, "in_progress")
    BY <1>5 DEF HandOver
  <2>2. CASE i = j
    <3>1. tasks'[i] = [tasks[i] EXCEPT !.status = "in_progress"]
      BY <1>1, <2>1, <2>2 DEF SetStatus
    <3>2. tasks[i].status \in {"pending", "in_progress"}
      BY <2>2 DEF IInv, PageAhead, Runnable, WithStatus
    <3> QED BY <1>1, <1>2, <3>1, <3>2, HandedRow DEF Legal
  <2>3. CASE i # j
    BY <1>1, <1>2, <2>1, <2>3 DEF SetStatus
  <2> QED BY <2>2, <2>3
<1>6. CASE PurgeDone \/ PurgeSkipped \/ PurgeFailed
  BY <1>1, <1>2, <1>6 DEF PurgeDone, PurgeSkipped, PurgeFailed, Purge, WithStatus, Legal
<1>7. CASE ResetStale
  <2>1. CASE i \in WithStatus({"in_progress"})
    <3>1. tasks'[i] = [tasks[i] EXCEPT !.status = "pending"] /\ tasks[i].status = "in_progress"
      BY <1>7, <2>1 DEF ResetStale, WithStatus
    <3>2. i \in Runnable
      BY <2>1 DEF Runnable, WithStatus
    <3> QED BY <1>1, <3>1, <3>2, PendingRow DEF Legal
  <2>2. CASE i \notin WithStatus({"in_progress"})
    BY <1>2, <1>7, <2>2 DEF ResetStale
  <2> QED BY <2>1, <2>2
<1>8. CASE \E w \in Workers : Worker(w) \/ Throttled(w)
  <2>1. PICK w \in Workers : Worker(w) \/ Throttled(w)
    BY <1>8
  <2>2. OwnStep(w) /\ (wtask[w] # 0 => RowMoves(w, wtask[w]))
    BY <2>1, WorkerStep
  <2>3. i # 0
    BY IdsArePositive
  <2> QED BY <1>2, <2>2, <2>3 DEF OwnStep, RowMoves
<1>9. CASE tasks' = tasks
  BY <1>2, <1>9
<1> QED
  BY <1>3, <1>4, <1>5, <1>6, <1>7, <1>8, <1>9
     DEF Next, Producer, PassCancelled, PassFails, ListPage, PageFails, HandCancelled, QueueEnds,
         Settle, StopSignal, Exit, Crash, StartProcess

(* Whoever writes a row, its status follows the queue's state machine, its *)
(* attempts never go back, and only settled rows are deleted.              *)
THEOREM RowsLiveLegally == Spec => RowLifecycle
<1>1. IInv /\ [Next]_vars =>
        [\A i \in Ids : tasks[i] # NoRow => Legal(tasks[i], tasks'[i])]_tasks
  BY RowSteps DEF vars
<1> QED
  BY <1>1, Invariance, PTL DEF Spec, RowLifecycle

=============================================================================
