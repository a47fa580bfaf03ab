-------------------------- MODULE SyncCycleProofs --------------------------
(***************************************************************************)
(* Proofs about the cycle: what an OK is worth, and what may be moved to   *)
(* the trash, for any number of paths and twins, any changes of the client *)
(* while it is listed, and any faults.                                     *)
(***************************************************************************)
EXTENDS SyncCycle, NaturalLemmas

\* A row has its content in the storage.
RowsHaveFiles ==
  ~torn => \A p \in Paths : files[p] # None => storage[p] = files[p]

SkipsCounted == skipped # {} => anySkipped

\* What the walk has passed is listed as it is, or was missed.
Walked ==
  pc \in {"scan", "diff"} =>
    /\ \A p \in Paths : p <= cursor =>
         /\ current => list[p] = disk[p]
         /\ list[p] = None => p \in missed
    /\ pc = "diff" => cursor = Last

\* The list has been compared, and what came of it is not known to be wrong.
AfterDiff ==
  pc \in {"trash", "batch", "queue"} \/ (pc \in {"settle", "finish"} /\ status = "OK")

\* No spelling of p is listed.
NormUnlisted(p) == \A q \in Twins(p) : list[q] = None

Compared ==
  AfterDiff =>
    /\ \A p \in Paths : NormUnlisted(p) => Twins(p) \subseteq missed
    /\ current => \A p \in Paths :
         /\ list[p] # None => disk[p] # None
         /\ Alone(p) => list[p] = disk[p]
         /\ Alone(p) => tasks[p] > 0 \/ anySkipped \/ Mirrored(p)

Batched ==
  pc = "batch" =>
    /\ \A p \in batch : NormUnlisted(p)
    /\ batch = {} => progress \/ unmoved

\* What is indexed and not listed has been moved.
Cleaned ==
  AfterDiff /\ pc \notin {"trash", "batch"} /\ current => unmoved \/ NothingElse

Settled ==
  pc = "finish" /\ status = "OK" => ~anySkipped /\ \A p \in Paths : tasks[p] = 0

IInv ==
  /\ TypeOK
  /\ RowsHaveFiles
  /\ SkipsCounted
  /\ Walked
  /\ Compared
  /\ Batched
  /\ Cleaned
  /\ Settled

-----------------------------------------------------------------------------
(* Paths and their twins.                                                  *)

LEMMA PathFacts ==
  /\ Last \in Nat /\ MaxChanges \in Nat /\ MaxFaults \in Nat
  /\ MaxPasses \in Nat \ {0} /\ BatchLimit \in Nat \ {0}
  /\ \A p \in Paths : p \in Nat /\ 1 <= p /\ p <= Last
  /\ \A n \in Nat : 1 <= n /\ n <= Last => n \in Paths
<1>1. Last \in Nat
  BY PathsAssumption, FS_CardinalityType DEF Last
<1> QED
  BY <1>1, PathsAssumption, BoundsAssumption DEF Last

LEMMA SomePaths ==
  ASSUME NEW S \in SUBSET Paths
  PROVE  /\ Cardinality(S) \in 0 .. Last
         /\ S # {} => Cardinality(S) > 0
         /\ S = {} => Cardinality(S) = 0
<1>1. IsFiniteSet(S) /\ Cardinality(S) <= Cardinality(Paths)
  BY PathsAssumption, FS_Subset
<1>2. Cardinality(S) \in Nat /\ (Cardinality(S) = 0 <=> S = {})
  BY <1>1, FS_CardinalityType, FS_EmptySet
<1> QED
  BY <1>1, <1>2, PathFacts DEF Last

\* Of the spellings that are listed one stays.
LEMMA DedupKeepsOne ==
  ASSUME NEW l, NEW p \in Paths, \A q \in Twins(p) : Dedup(l)[q] = None,
         NEW r \in Twins(p)
  PROVE  l[r] = None
<1> DEFINE T == {q \in Twins(p) : l[q] # None}
<1>1. SUFFICES ASSUME T # {} PROVE FALSE
  OBVIOUS
<1>2. T \subseteq Nat
  BY PathFacts DEF Twins
<1>3. PICK m \in T : \A n \in T : ~(n < m)
  BY <1>1, <1>2, LeastMember
<1>4. \A q \in Twins(m) : q < m => l[q] = None
  BY <1>3 DEF Twins
<1> QED
  BY <1>3, <1>4 DEF Dedup, Twins

-----------------------------------------------------------------------------
(* The invariant.                                                          *)

\* The type invariant in parts.
Trees == disk \in Tree /\ storage \in Tree /\ files \in Tree /\ list \in Tree

Flags ==
  /\ initialized \in BOOLEAN /\ moved \in BOOLEAN /\ progress \in BOOLEAN
  /\ enqueued \in BOOLEAN /\ anySkipped \in BOOLEAN /\ current \in BOOLEAN
  /\ unmoved \in BOOLEAN /\ torn \in BOOLEAN
  /\ status \in {"OK", "PARTIAL", "FAILED"} /\ pc \in PC

Counts ==
  /\ changes \in 0 .. MaxChanges /\ faults \in 0 .. MaxFaults
  /\ pass \in 0 .. MaxPasses /\ cursor \in 0 .. Last

Sets ==
  /\ tasks \in [Paths -> 0 .. Last]
  /\ old \subseteq {p \in Paths : tasks[p] > 0}
  /\ skipped \subseteq Paths /\ batch \subseteq Paths /\ missed \subseteq Paths

LEMMA TypeParts == TypeOK <=> Trees /\ Flags /\ Counts /\ Sets
  BY DEF TypeOK, Trees, Flags, Counts, Sets

LEMMA InitInv == Init => IInv
<1> SUFFICES ASSUME Init PROVE IInv
  OBVIOUS
<1> USE PathFacts DEF Init, None
<1>1. TypeOK
  <2>1. [p \in Paths |-> p] \in Tree /\ Empty \in Tree
    BY DEF Tree, Versions, Empty
  <2>2. Trees
    BY <2>1 DEF Trees
  <2>3. Flags
    BY DEF Flags, PC
  <2>4. Counts
    BY DEF Counts
  <2>5. Sets
    BY DEF Sets
  <2> QED
    BY <2>2, <2>3, <2>4, <2>5, TypeParts
<1>2. RowsHaveFiles /\ SkipsCounted
  BY DEF RowsHaveFiles, SkipsCounted, Empty
<1>3. Walked /\ Compared /\ Batched /\ Cleaned /\ Settled
  BY DEF Walked, Compared, AfterDiff, Batched, Cleaned, Settled
<1> QED
  BY <1>1, <1>2, <1>3 DEF IInv

\* A change of the client ends what is current, and only adds to what was
\* missed.
LEMMA ClientKeeps ==
  ASSUME IInv, Client
  PROVE  IInv'
<1>1. /\ UNCHANGED <<server, list, queue, move, cycle, pc, faults>>
      /\ current' = FALSE /\ missed \subseteq missed'
  BY DEF Client, Write, Delete, Rename, Change
<1>2. TypeOK'
  <2>1. disk' \in Tree /\ changes' \in 0 .. MaxChanges /\ missed' \subseteq Paths
    <3>1. CASE Write
      <4>1. PICK p \in Paths : Change([disk EXCEPT ![p] = Last + changes + 1], {})
        BY <3>1 DEF Write
      <4>2. Last + changes + 1 \in Versions /\ changes + 1 \in 0 .. MaxChanges
        BY <4>1, PathFacts DEF IInv, TypeOK, Change, Versions
      <4> QED BY <4>1, <4>2 DEF IInv, TypeOK, Change, Tree
    <3>2. CASE Delete \/ Rename
      <4>1. changes + 1 \in 0 .. MaxChanges
        BY <3>2, PathFacts DEF IInv, TypeOK, Change, Delete, Rename
      <4> QED BY <3>2, <4>1 DEF IInv, TypeOK, Change, Tree, Delete, Rename, None
    <3> QED BY <3>1, <3>2 DEF Client
  <2> QED BY <1>1, <2>1 DEF IInv, TypeOK, server, queue, move, cycle
<1>3. RowsHaveFiles' /\ SkipsCounted'
  BY <1>1 DEF IInv, RowsHaveFiles, SkipsCounted, server, queue
<1>4. Walked'
  BY <1>1 DEF IInv, Walked, cycle
<1>5. Compared' /\ Batched' /\ Cleaned' /\ Settled'
  BY <1>1 DEF IInv, Compared, AfterDiff, NormUnlisted, Batched, Cleaned, Settled,
              queue, move, cycle
<1> QED
  BY <1>2, <1>3, <1>4, <1>5 DEF IInv

\* Steps that begin a list, or end what was begun.
LEMMA BoundariesKeep ==
  ASSUME IInv,
         \/ Begin \/ BeginDiskFull \/ ConnectFails \/ NextPass
         \/ Finish \/ Crash \/ CrashUnindexed
  PROVE  IInv'
<1> USE PathFacts DEF IInv
<1>0. Trees /\ Flags /\ Counts /\ Sets
  BY TypeParts
<1>1. TypeOK'
  <2>1. Trees'
    BY <1>0 DEF Begin, BeginDiskFull, ConnectFails, NextPass, Finish, Crash, CrashUnindexed,
                FirstRun, BeginList, CycleReset, Trees, Tree, Empty, world, server
  <2>2. Flags'
    BY <1>0 DEF Begin, BeginDiskFull, ConnectFails, NextPass, Finish, Crash, CrashUnindexed,
                FirstRun, BeginList, CycleReset, Flags, PC, world, server, queue, move
  <2>3. Counts'
    BY <1>0 DEF Begin, BeginDiskFull, ConnectFails, NextPass, Finish, Crash, CrashUnindexed,
                FirstRun, BeginList, CycleReset, Counts, Fault, world
  <2>4. Sets'
    BY <1>0 DEF Begin, BeginDiskFull, ConnectFails, NextPass, Finish, Crash, CrashUnindexed,
                BeginList, CycleReset, Sets, world, queue, move
  <2> QED
    BY <2>1, <2>2, <2>3, <2>4 DEF TypeOK, Trees, Flags, Counts, Sets
<1>2. RowsHaveFiles'
  <2>1. CASE Begin \/ BeginDiskFull
    BY <2>1 DEF Begin, BeginDiskFull, FirstRun, RowsHaveFiles, TypeOK, Tree
  <2>2. CASE ConnectFails \/ NextPass \/ Finish \/ Crash \/ CrashUnindexed
    BY <2>2 DEF ConnectFails, NextPass, Finish, Crash, CrashUnindexed, RowsHaveFiles, server
  <2> QED BY <2>1, <2>2
<1>3. SkipsCounted'
  BY DEF Begin, BeginDiskFull, ConnectFails, NextPass, Finish, Crash, CrashUnindexed,
         CycleReset, SkipsCounted, queue
<1>4. pc' \in {"idle", "scan"} \/ (pc' = "finish" /\ status' # "OK")
  BY DEF Begin, BeginList, BeginDiskFull, ConnectFails, NextPass, Finish, Crash,
         CrashUnindexed
<1>5. pc' = "scan" => cursor' = 0
  BY DEF Begin, BeginList, BeginDiskFull, ConnectFails, NextPass, Finish, Crash,
         CrashUnindexed
<1>6. Walked'
  BY <1>4, <1>5 DEF Walked
<1>7. Compared' /\ Batched' /\ Cleaned' /\ Settled'
  BY <1>4 DEF Compared, AfterDiff, Batched, Cleaned, Settled
<1> QED
  BY <1>1, <1>2, <1>3, <1>6, <1>7

\* The walk.
LEMMA WalkKeeps ==
  ASSUME IInv, Scan \/ ScanUnreadable \/ ScanEnds \/ ListFails
  PROVE  IInv'
<1> USE PathFacts DEF IInv
<1>0. Trees /\ Flags /\ Counts /\ Sets
  BY TypeParts
<1>1. TypeOK'
  <2>1. Trees'
    BY <1>0 DEF Scan, ScanUnreadable, ScanEnds, ListFails, Trees, Tree, Counts, world, server
  <2>2. Flags'
    BY <1>0 DEF Scan, ScanUnreadable, ScanEnds, ListFails, Flags, PC, world, server, queue,
                move, cycle
  <2>3. Counts'
    BY <1>0 DEF Scan, ScanUnreadable, ScanEnds, ListFails, Counts, Fault, world, cycle
  <2>4. Sets'
    BY <1>0 DEF Scan, ScanUnreadable, ScanEnds, ListFails, Sets, Counts, world, queue, move
  <2> QED
    BY <2>1, <2>2, <2>3, <2>4 DEF TypeOK, Trees, Flags, Counts, Sets
<1>2. RowsHaveFiles' /\ SkipsCounted'
  BY DEF Scan, ScanUnreadable, ScanEnds, ListFails, RowsHaveFiles, SkipsCounted, server,
         queue
<1>3. Walked'
  BY DEF Scan, ScanUnreadable, ScanEnds, ListFails, Walked, TypeOK, Tree, world, cycle
<1>4. pc' \in {"scan", "diff"} \/ (pc' = "settle" /\ status' # "OK")
  BY DEF Scan, ScanUnreadable, ScanEnds, ListFails
<1>5. Compared' /\ Batched' /\ Cleaned' /\ Settled'
  BY <1>4 DEF Compared, AfterDiff, Batched, Cleaned, Settled
<1> QED
  BY <1>1, <1>2, <1>3, <1>5

LEMMA NewTasksCount ==
  ASSUME TypeOK, NEW l, NEW p \in Paths
  PROVE  /\ NewTasks(l, p) \in 0 .. Last
         /\ tasks[p] > 0 => NewTasks(l, p) = 0
<1> DEFINE D == {q \in RowsOf(p) : files[q] # l[p]}
<1>1. D \subseteq Paths
  BY DEF RowsOf, Twins
<1>2. Cardinality(D) \in 0 .. Last /\ 1 <= Last /\ Last \in Nat
  BY <1>1, SomePaths, PathFacts
<1> QED
  BY <1>2 DEF NewTasks

\* A file that no other collides with has a task, was skipped, or is stored.
LEMMA ComparedHolds ==
  ASSUME TypeOK, RowsHaveFiles, SkipsCounted, NEW l, NEW p \in Paths,
         Alone(p), l[p] = disk[p], NewTasks(l, p) = 0
  PROVE  tasks[p] > 0 \/ anySkipped \/ Mirrored(p)
<1>1. SUFFICES ASSUME ~(tasks[p] > 0), p \notin skipped PROVE Mirrored(p)
  BY DEF SkipsCounted
<1> DEFINE D == {q \in RowsOf(p) : files[q] # l[p]}
<1>2. l[p] # None
  BY DEF Alone
<1>3. RowsOf(p) # {} /\ Cardinality(D) = 0
  BY <1>1, <1>2 DEF NewTasks
<1>4. D = {}
  <2>1. D \in SUBSET Paths
    BY DEF RowsOf, Twins
  <2> HIDE DEF D
  <2> QED BY <1>3, <2>1, SomePaths
<1>5. PICK q \in RowsOf(p) : files[q] = disk[p]
  BY <1>3, <1>4
<1> QED
  BY <1>5 DEF RowsOf, Twins, Mirrored, RowsHaveFiles

\* The comparison.
LEMMA EnqueueKeeps ==
  ASSUME IInv, Enqueue
  PROVE  IInv'
<1> USE PathFacts DEF IInv
<1> DEFINE l == Dedup(list)
<1>1. /\ list' = l /\ pc = "diff" /\ pc' = "trash"
      /\ tasks' = [p \in Paths |-> tasks[p] + NewTasks(l, p)]
      /\ enqueued' \in BOOLEAN /\ moved' = FALSE
      /\ UNCHANGED <<world, server, old, skipped, anySkipped, batch, progress,
                     unmoved, status, pass, cursor, faults>>
  BY DEF Enqueue
<1>2. \A p \in Paths : NewTasks(l, p) \in 0 .. Last
                        /\ (tasks[p] > 0 => NewTasks(l, p) = 0)
  BY NewTasksCount
<1>3. \A p \in Paths : l[p] \in {list[p], None}
  BY DEF Dedup
<1>4. \A p \in Paths : Alone(p) /\ current => l[p] = disk[p]
  <2> SUFFICES ASSUME NEW p \in Paths, Alone(p), current PROVE l[p] = disk[p]
    OBVIOUS
  <2>1. \A q \in Paths : list[q] = disk[q]
    BY <1>1 DEF Walked
  <2>2. \A q \in Twins(p) : q < p => list[q] = None
    BY <2>1 DEF Alone, Twins
  <2> QED BY <2>1, <2>2 DEF Dedup
<1>5. TypeOK'
  <2>1. list' \in Tree
    BY <1>1 DEF Dedup, TypeOK, Tree
  <2>2. tasks' \in [Paths -> 0 .. Last] /\ old \subseteq {p \in Paths : tasks'[p] > 0}
    <3> HIDE DEF l
    <3>1. \A p \in Paths : tasks[p] \in 0 .. Last
      BY DEF TypeOK
    <3>2. \A p \in Paths : /\ tasks[p] + NewTasks(l, p) \in 0 .. Last
                            /\ tasks[p] > 0 => tasks[p] + NewTasks(l, p) > 0
      BY <1>2, <3>1
    <3>3. \A p \in Paths : tasks'[p] = tasks[p] + NewTasks(l, p)
      BY <1>1
    <3>4. tasks' \in [Paths -> 0 .. Last]
      <4>1. ASSUME NEW p \in Paths PROVE tasks'[p] \in 0 .. Last
        BY <1>2, <3>1, <3>2, <3>3
      <4>2. tasks' = [p \in Paths |-> tasks'[p]]
        BY <1>1
      <4> QED BY ONLY <4>1, <4>2
    <3>5. \A p \in old : p \in Paths /\ tasks[p] > 0
      BY DEF TypeOK
    <3> QED BY <3>2, <3>3, <3>4, <3>5
  <2> HIDE DEF l
  <2> QED
    BY <1>1, <2>1, <2>2 DEF TypeOK, PC, world, server
<1>6. RowsHaveFiles' /\ SkipsCounted'
  BY <1>1 DEF RowsHaveFiles, SkipsCounted, server
<1>7. Compared'
  <2>1. ASSUME NEW p \in Paths, NormUnlisted(p)'
        PROVE  (Twins(p) \subseteq missed)'
    <3> SUFFICES ASSUME NEW q \in Twins(p) PROVE q \in missed
      BY <1>1 DEF world
    <3>1. \A r \in Twins(p) : Dedup(list)[r] = None
      BY <1>1, <2>1 DEF NormUnlisted
    <3>2. list[q] = None
      BY <3>1, DedupKeepsOne
    <3> QED
      BY <1>1, <3>2 DEF Walked, Twins
  <2>2. ASSUME NEW p \in Paths, current
        PROVE  /\ list'[p] # None => disk[p] # None
               /\ Alone(p) => list'[p] = disk[p]
               /\ Alone(p) => tasks'[p] > 0 \/ anySkipped \/ Mirrored(p)
    <3>1. list'[p] # None => disk[p] # None
      BY <1>1, <1>3, <2>2 DEF Walked
    <3>2. Alone(p) => list'[p] = disk[p]
      BY <1>1, <1>4, <2>2
    <3>3. ASSUME Alone(p) PROVE tasks'[p] > 0 \/ anySkipped \/ Mirrored(p)
      <4>1. CASE NewTasks(l, p) = 0
        <5>1. tasks[p] > 0 \/ anySkipped \/ Mirrored(p)
          BY <1>4, <2>2, <3>3, <4>1, ComparedHolds
        <5> HIDE DEF l
        <5> QED BY <1>1, <4>1, <5>1 DEF TypeOK
      <4>2. CASE NewTasks(l, p) # 0
        <5> HIDE DEF l
        <5> QED BY <1>1, <1>2, <4>2 DEF TypeOK
      <4> QED BY <4>1, <4>2
    <3> QED BY <3>1, <3>2, <3>3
  <2>3. \A p \in Paths : (Alone(p)' <=> Alone(p)) /\ (Mirrored(p)' <=> Mirrored(p))
    BY <1>1 DEF Alone, Mirrored, Twins, world, server
  <2>4. UNCHANGED <<disk, current, anySkipped>>
    BY <1>1 DEF world
  <2> QED
    BY <2>1, <2>2, <2>3, <2>4 DEF Compared
<1>8. Walked' /\ Batched' /\ Cleaned' /\ Settled'
  BY <1>1 DEF Walked, Batched, Cleaned, Settled
<1> QED
  BY <1>5, <1>6, <1>7, <1>8

LEMMA EnqueueFailsKeeps ==
  ASSUME IInv, EnqueueFails
  PROVE  IInv'
<1> USE DEF IInv
<1>1. list' \in Tree
  BY DEF EnqueueFails, Dedup, TypeOK, Tree
<1>2. TypeOK'
  BY <1>1, PathFacts DEF EnqueueFails, TypeOK, PC, Fault, world, server, queue, move
<1>3. RowsHaveFiles' /\ SkipsCounted'
  BY DEF EnqueueFails, RowsHaveFiles, SkipsCounted, server, queue
<1>4. Walked' /\ Compared' /\ Batched' /\ Cleaned' /\ Settled'
  BY DEF EnqueueFails, Walked, Compared, AfterDiff, Batched, Cleaned, Settled
<1> QED
  BY <1>2, <1>3, <1>4

\* Rows of a norm that is not listed are not what mirrors a listed file.
LEMMA MoveMirrors ==
  ASSUME TypeOK, NEW p \in Paths, NormUnlisted(p), files' = DeleteByNorm(p),
         storage' = storage \/ storage' = [storage EXCEPT ![p] = None],
         UNCHANGED <<disk, list, torn>>,
         NEW r \in Paths, disk[r] # None, list[r] = disk[r], Mirrored(r)
  PROVE  Mirrored(r)'
<1>1. r \notin Twins(p)
  BY DEF NormUnlisted
<1>2. PICK q \in Twins(r) : files[q] = disk[r] /\ (torn \/ storage[q] = disk[r])
  BY DEF Mirrored
<1>3. q \in Paths /\ q # p /\ q \notin Twins(p)
  BY <1>1, <1>2 DEF Twins
<1>4. files'[q] = files[q] /\ storage'[q] = storage[q]
  BY <1>3 DEF DeleteByNorm, TypeOK, Tree
<1> QED
  BY <1>2, <1>4 DEF Mirrored, Twins

\* The moves to the trash.
LEMMA MoveKeeps ==
  ASSUME IInv, MoveOne \/ MoveFails
  PROVE  IInv'
<1> USE DEF IInv
<1>1. PICK p \in batch :
        /\ batch' = batch \ {p}
        /\ files' = DeleteByNorm(p)
        /\ storage' = storage \/ storage' = [storage EXCEPT ![p] = None]
  BY DEF MoveOne, MoveFails
<1>2. /\ pc = "batch" /\ pc' = "batch"
      /\ UNCHANGED <<world, initialized, torn, list, queue, cycle>>
      /\ moved' \in {moved, TRUE} /\ progress' \in {progress, TRUE}
      /\ unmoved' \in {unmoved, TRUE} /\ faults' \in 0 .. MaxFaults
      /\ progress' \/ unmoved'
  <2>1. CASE MoveOne
    BY <2>1 DEF MoveOne, TypeOK
  <2>2. CASE MoveFails
    <3>1. faults' \in 0 .. MaxFaults
      BY <2>2, PathFacts DEF MoveFails, Fault, TypeOK
    <3> QED BY <2>2, <3>1 DEF MoveFails
  <2> QED BY <2>1, <2>2
<1>3. p \in Paths /\ NormUnlisted(p)
  BY <1>1, <1>2 DEF Batched, TypeOK
<1>4. TypeOK'
  <2>1. files' \in Tree /\ storage' \in Tree
    BY <1>1 DEF DeleteByNorm, TypeOK, Tree
  <2> QED
    BY <1>1, <1>2, <2>1 DEF TypeOK, world, queue, cycle
<1>5. RowsHaveFiles' /\ SkipsCounted'
  BY <1>1, <1>2, <1>3 DEF RowsHaveFiles, SkipsCounted, DeleteByNorm, Twins, TypeOK, Tree,
                          queue
<1>6. Compared'
  <2>1. \A r \in Paths : (NormUnlisted(r)' <=> NormUnlisted(r)) /\ (Alone(r)' <=> Alone(r))
    BY <1>2 DEF NormUnlisted, Alone, Twins, world
  <2>2. \A r \in Paths : disk[r] # None /\ list[r] = disk[r] /\ Mirrored(r) => Mirrored(r)'
    BY <1>1, <1>2, <1>3, MoveMirrors DEF world
  <2> QED
    BY <1>2, <2>1, <2>2 DEF Compared, AfterDiff, Alone, Twins, world, queue
<1>7. Batched'
  BY <1>1, <1>2 DEF Batched, NormUnlisted, Twins
<1>8. Walked' /\ Cleaned' /\ Settled'
  BY <1>2 DEF Walked, Cleaned, Settled
<1> QED
  BY <1>4, <1>5, <1>6, <1>7, <1>8

\* The comparison speaks of no more than these.
LEMMA SameComparison ==
  ASSUME Compared, AfterDiff,
         UNCHANGED <<disk, list, files, storage, torn, current, missed, tasks, anySkipped>>
  PROVE  Compared'
<1>1. \A p \in Paths : NormUnlisted(p)' <=> NormUnlisted(p)
  BY DEF NormUnlisted, Twins
<1>2. \A p \in Paths : Alone(p)' <=> Alone(p)
  BY DEF Alone, Twins
<1>3. \A p \in Paths : Mirrored(p)' <=> Mirrored(p)
  BY DEF Mirrored, Twins
<1>4. \A p \in Paths : NormUnlisted(p)' => (Twins(p) \subseteq missed)'
  BY <1>1 DEF Compared, Twins
<1>5. ASSUME NEW p \in Paths, current
      PROVE  /\ list[p] # None => disk[p] # None
             /\ Alone(p)' => list[p] = disk[p]
             /\ Alone(p)' => tasks[p] > 0 \/ anySkipped \/ Mirrored(p)'
  BY <1>2, <1>3, <1>5 DEF Compared
<1> QED
  BY <1>4, <1>5 DEF Compared

\* The reading of a batch, and its end.
LEMMA BatchKeeps ==
  ASSUME IInv, SelectBatch \/ SelectFails \/ BatchEnds
  PROVE  IInv'
<1> USE DEF IInv
<1>1. /\ UNCHANGED <<world, server, list, queue, moved, cycle>>
      /\ pc \in {"trash", "batch"} /\ pc' \in {"trash", "batch", "queue"}
      /\ progress' \in BOOLEAN /\ unmoved' \in BOOLEAN /\ faults' \in 0 .. MaxFaults
      /\ batch' \subseteq Paths
  <2>1. CASE SelectBatch
    <3>1. batch' \subseteq Paths
      BY <2>1 DEF SelectBatch, Unlisted, TypeOK
    <3> QED BY <2>1, <3>1 DEF SelectBatch, TypeOK
  <2>2. CASE SelectFails
    <3>1. faults' \in 0 .. MaxFaults
      BY <2>2, PathFacts DEF SelectFails, Fault, TypeOK
    <3> QED BY <2>2, <3>1 DEF SelectFails, TypeOK
  <2>3. CASE BatchEnds
    BY <2>3 DEF BatchEnds, TypeOK, move
  <2> QED BY <2>1, <2>2, <2>3
<1>2. TypeOK'
  BY <1>1 DEF TypeOK, PC, world, server, queue, cycle
<1>3. RowsHaveFiles' /\ SkipsCounted'
  BY <1>1 DEF RowsHaveFiles, SkipsCounted, server, queue
<1>4. Compared'
  BY <1>1, SameComparison DEF AfterDiff, world, server, queue
<1>5. Batched'
  <2> SUFFICES ASSUME pc' = "batch"
               PROVE  (\A p \in batch' : NormUnlisted(p)') /\ batch' # {}
    BY DEF Batched
  <2>1. /\ Unlisted # {} /\ batch' \in SUBSET Unlisted
        /\ batch' = Unlisted \/ Cardinality(batch') = BatchLimit
    BY DEF SelectBatch, SelectFails, BatchEnds
  <2>2. \A p \in batch' : NormUnlisted(p)'
    BY <1>1, <2>1 DEF Unlisted, NormUnlisted, Twins
  <2>3. batch' # {}
    <3>1. batch' \in SUBSET Paths
      BY <1>1
    <3> QED BY <2>1, <3>1, SomePaths, PathFacts
  <2> QED BY <2>2, <2>3
<1>6. Cleaned'
  <2> SUFFICES ASSUME pc' = "queue", current PROVE unmoved' \/ NothingElse'
    BY <1>1 DEF Cleaned, world
  <2>1. CASE SelectBatch
    <3>1. Unlisted = {}
      BY <2>1 DEF SelectBatch
    <3>2. ASSUME NEW p \in Paths, files[p] # None PROVE \E q \in Twins(p) : disk[q] # None
      BY <1>1, <3>1, <3>2 DEF Unlisted, Compared, AfterDiff, Twins
    <3> QED BY <1>1, <3>2 DEF NothingElse, Twins, world, server
  <2>2. CASE SelectFails \/ BatchEnds
    BY <2>2 DEF SelectFails, BatchEnds, Batched, move
  <2> QED BY <2>1, <2>2
<1>7. Walked' /\ Settled'
  BY <1>1 DEF Walked, Settled
<1> QED
  BY <1>2, <1>3, <1>4, <1>5, <1>6, <1>7

LEMMA TaskEndsType ==
  ASSUME TypeOK, NEW p \in Paths, tasks[p] > 0, TaskEnds(p)
  PROVE  /\ tasks' \in [Paths -> 0 .. Last]
         /\ old' \subseteq {q \in Paths : tasks'[q] > 0}
         /\ \A r \in Paths \ {p} : tasks'[r] = tasks[r]
<1> USE PathFacts
<1>1. tasks[p] - 1 \in 0 .. Last /\ (tasks[p] # 1 => tasks[p] - 1 > 0)
  BY DEF TypeOK
<1>2. tasks' = [tasks EXCEPT ![p] = tasks[p] - 1]
  BY DEF TaskEnds
<1>3. tasks'[p] = tasks[p] - 1 /\ \A r \in Paths \ {p} : tasks'[r] = tasks[r]
  BY <1>2 DEF TypeOK
<1>4. tasks' \in [Paths -> 0 .. Last]
  BY <1>1, <1>2 DEF TypeOK
<1>5. \A q \in old' : q \in Paths /\ tasks'[q] > 0
  BY <1>1, <1>3 DEF TaskEnds, TypeOK
<1> QED
  BY <1>3, <1>4, <1>5

\* A download stores and indexes the file as it is.
LEMMA DownloadKeeps ==
  ASSUME IInv, Download
  PROVE  IInv'
<1> USE DEF IInv
<1>1. PICK p \in Paths :
        /\ tasks[p] > 0 /\ disk[p] # None
        /\ storage' = [storage EXCEPT ![p] = disk[p]]
        /\ files' = [files EXCEPT ![p] = disk[p]]
        /\ TaskEnds(p)
  BY DEF Download
<1>2. /\ pc = "queue"
      /\ UNCHANGED <<world, initialized, torn, list, skipped, anySkipped, move, cycle,
                     pc, faults>>
  BY DEF Download
<1>3. /\ tasks' \in [Paths -> 0 .. Last]
      /\ old' \subseteq {q \in Paths : tasks'[q] > 0}
      /\ \A r \in Paths \ {p} : tasks'[r] = tasks[r]
  BY <1>1, TaskEndsType
<1>4. /\ files'[p] = disk[p] /\ storage'[p] = disk[p]
      /\ \A r \in Paths \ {p} : files'[r] = files[r] /\ storage'[r] = storage[r]
  BY <1>1 DEF TypeOK, Tree
<1>5. TypeOK'
  <2>1. files' \in Tree /\ storage' \in Tree
    BY <1>1 DEF TypeOK, Tree
  <2> QED BY <1>2, <1>3, <2>1 DEF TypeOK, world, move, cycle
<1>6. RowsHaveFiles' /\ SkipsCounted'
  BY <1>2, <1>4 DEF RowsHaveFiles, SkipsCounted
<1>7. Compared'
  <2>1. \A r \in Paths : (NormUnlisted(r)' <=> NormUnlisted(r)) /\ (Alone(r)' <=> Alone(r))
    BY <1>2 DEF NormUnlisted, Alone, Twins, world
  <2>2. ASSUME NEW r \in Paths, Alone(r), tasks[r] > 0 \/ anySkipped \/ Mirrored(r)
        PROVE  (tasks[r] > 0 \/ anySkipped \/ Mirrored(r))'
    <3>1. CASE r = p
      <4>1. Mirrored(r)'
        BY <1>2, <1>4, <3>1 DEF Mirrored, Twins, world
      <4> QED BY <4>1
    <3>2. CASE r # p /\ Mirrored(r)
      <4>1. PICK q \in Twins(r) : files[q] = disk[r] /\ (torn \/ storage[q] = disk[r])
        BY <3>2 DEF Mirrored
      <4>2. q \in Paths \ {p}
        BY <1>1, <2>2, <3>2, <4>1 DEF Alone, Twins
      <4>3. Mirrored(r)'
        BY <1>2, <1>4, <4>1, <4>2 DEF Mirrored, Twins, world
      <4> QED BY <4>3
    <3>3. CASE r # p /\ ~Mirrored(r)
      BY <1>2, <1>3, <2>2, <3>3
    <3> QED BY <3>1, <3>2, <3>3
  <2>3. AfterDiff /\ UNCHANGED <<disk, list, current, missed>>
    BY <1>2 DEF AfterDiff, world
  <2>4. \A r \in Paths : NormUnlisted(r)' => (Twins(r) \subseteq missed)'
    BY <2>1, <2>3 DEF Compared, Twins
  <2> QED
    BY <2>1, <2>2, <2>3, <2>4 DEF Compared
<1>8. Cleaned'
  <2>1. NothingElse => NothingElse'
    BY <1>1, <1>2, <1>4 DEF NothingElse, Twins, world
  <2> QED BY <1>2, <2>1 DEF Cleaned, AfterDiff, world, move
<1>9. Walked' /\ Batched' /\ Settled'
  BY <1>2 DEF Walked, Batched, Settled
<1> QED
  BY <1>5, <1>6, <1>7, <1>8, <1>9

\* A skipped task is counted, so that the cycle cannot report OK.
LEMMA SkipsKeep ==
  ASSUME IInv, SkipGone \/ SkipFailed
  PROVE  IInv'
<1> USE DEF IInv
<1>1. PICK p \in Paths : Skips(p)
  BY DEF SkipGone, SkipFailed
<1>2. /\ pc = "queue"
      /\ UNCHANGED <<world, server, list, move, cycle, pc>>
      /\ skipped' \subseteq Paths /\ anySkipped' = TRUE
  BY <1>1 DEF SkipGone, SkipFailed, Skips, TypeOK
<1>3. faults' \in 0 .. MaxFaults
  BY PathFacts DEF SkipGone, SkipFailed, Fault, TypeOK
<1>4. /\ tasks' \in [Paths -> 0 .. Last]
      /\ old' \subseteq {q \in Paths : tasks'[q] > 0}
  BY <1>1, TaskEndsType DEF Skips
<1>5. TypeOK'
  BY <1>2, <1>3, <1>4 DEF TypeOK, world, server, move, cycle
<1>6. RowsHaveFiles' /\ SkipsCounted'
  BY <1>2 DEF RowsHaveFiles, SkipsCounted, server
<1>7. Compared'
  <2>1. \A r \in Paths : (NormUnlisted(r)' <=> NormUnlisted(r)) /\ (Alone(r)' <=> Alone(r))
    BY <1>2 DEF NormUnlisted, Alone, Twins, world
  <2> QED
    BY <1>2, <2>1 DEF Compared, AfterDiff, Twins, world
<1>8. Cleaned'
  <2>1. NothingElse => NothingElse'
    BY <1>2 DEF NothingElse, Twins, world, server
  <2> QED BY <1>2, <2>1 DEF Cleaned, AfterDiff, world, move
<1>9. Walked' /\ Batched' /\ Settled'
  BY <1>2 DEF Walked, Batched, Settled
<1> QED
  BY <1>5, <1>6, <1>7, <1>8, <1>9

\* The queue ends, and the cycle is settled.
LEMMA EndKeeps ==
  ASSUME IInv, QueueBreaks \/ LastPass \/ Settle
  PROVE  IInv'
<1> USE DEF IInv
<1>1. /\ pc \in {"queue", "settle"} /\ pc' \in {"settle", "finish"}
      /\ UNCHANGED <<world, server, list, tasks, old, anySkipped, move, enqueued,
                     pass, cursor>>
      /\ skipped' \in {skipped, {}}
      /\ status' \in {status, "PARTIAL"}
  BY DEF QueueBreaks, LastPass, Settle, QueueDrained, queue, cycle
<1>2. faults' \in 0 .. MaxFaults
  BY PathFacts DEF QueueBreaks, LastPass, Settle, Fault, TypeOK
<1>3. AfterDiff' => AfterDiff /\ pc \notin {"trash", "batch"}
  BY <1>1 DEF AfterDiff
<1>4. TypeOK'
  BY <1>1, <1>2 DEF TypeOK, PC, world, server, move
<1>5. RowsHaveFiles' /\ SkipsCounted'
  BY <1>1 DEF RowsHaveFiles, SkipsCounted, server
<1>6. Compared'
  <2>1. CASE AfterDiff'
    BY <1>1, <1>3, <2>1, SameComparison DEF world, server
  <2>2. CASE ~AfterDiff'
    BY <2>2 DEF Compared
  <2> QED BY <2>1, <2>2
<1>7. Cleaned'
  <2>1. NothingElse => NothingElse'
    BY <1>1 DEF NothingElse, Twins, world, server
  <2> QED BY <1>1, <1>3, <2>1 DEF Cleaned, world, move
<1>8. Settled'
  <2> SUFFICES ASSUME pc' = "finish", status' = "OK"
               PROVE  ~anySkipped /\ \A p \in Paths : tasks[p] = 0
    BY <1>1 DEF Settled
  <2>1. ~anySkipped /\ ~(\E p \in Paths : tasks[p] > 0)
    BY DEF QueueBreaks, LastPass, Settle
  <2> QED BY <2>1, PathFacts DEF TypeOK
<1>9. Walked' /\ Batched'
  BY <1>1 DEF Walked, Batched
<1> QED
  BY <1>4, <1>5, <1>6, <1>7, <1>8, <1>9

LEMMA StepKeeps == IInv /\ [Next]_vars => IInv'
<1> SUFFICES ASSUME IInv, [Next]_vars PROVE IInv'
  OBVIOUS
<1>1. CASE Client
  BY <1>1, ClientKeeps
<1>2. CASE Server
  BY <1>2, BoundariesKeep, WalkKeeps, EnqueueKeeps, MoveKeeps, BatchKeeps,
     DownloadKeeps, SkipsKeep, EndKeeps DEF Server
<1>3. CASE Trouble
  BY <1>3, BoundariesKeep, WalkKeeps, EnqueueFailsKeeps, MoveKeeps, BatchKeeps,
     SkipsKeep, EndKeeps DEF Trouble
<1>4. CASE UNCHANGED vars
  <2> USE <1>4 DEF vars, world, server, queue, move, cycle
  <2>1. TypeOK'
    BY DEF IInv, TypeOK
  <2>2. RowsHaveFiles' /\ SkipsCounted' /\ Walked' /\ Batched' /\ Settled'
    BY DEF IInv, RowsHaveFiles, SkipsCounted, Walked, Batched, Settled, NormUnlisted, Twins
  <2>3. Compared'
    BY SameComparison DEF IInv, Compared, AfterDiff
  <2>4. Cleaned'
    BY DEF IInv, Cleaned, AfterDiff, NothingElse, Twins
  <2> QED BY <2>1, <2>2, <2>3, <2>4 DEF IInv
<1> QED
  BY <1>1, <1>2, <1>3, <1>4 DEF Next

LEMMA Invariant == Spec => []IInv
<1> QED
  BY InitInv, StepKeeps, PTL DEF Spec

-----------------------------------------------------------------------------
(* The theorems.                                                           *)

\* The cycle's variables keep their types; in particular a task is left
\* over only for a path that still has one.
THEOREM CycleTypes == Spec => []TypeOK
<1>1. IInv => TypeOK
  BY DEF IInv
<1> QED
  BY <1>1, Invariant, PTL

\* A cycle of RunCycle that reports OK, and saw no change of the client
\* since its last list was begun, leaves every file that collides with no
\* other stored and indexed, and nothing else in the index, unless a file
\* could not be moved to the trash.
THEOREM OkIsMirrored == Spec => []OkMeansMirrored
<1>1. IInv => OkMeansMirrored
  <2> SUFFICES ASSUME IInv, pc = "finish", status = "OK", current
               PROVE  /\ \A p \in Paths : Alone(p) => Mirrored(p)
                      /\ unmoved \/ NothingElse
    BY DEF OkMeansMirrored
  <2>1. AfterDiff
    BY DEF AfterDiff
  <2>2. ~anySkipped /\ \A p \in Paths : ~(tasks[p] > 0)
    BY DEF IInv, Settled
  <2>3. \A p \in Paths : Alone(p) => Mirrored(p)
    BY <2>1, <2>2 DEF IInv, Compared
  <2>4. unmoved \/ NothingElse
    BY <2>1 DEF IInv, Cleaned
  <2> QED BY <2>3, <2>4
<1> QED
  BY <1>1, Invariant, PTL

\* MoveDeleted takes a file out of the storage only if neither it nor a
\* file that differs from it by case has been on the client, readable, all
\* the time since the walk of this cycle began: what the client changes
\* while it is listed never costs a file that was there throughout.
THEOREM OnlyMissedTrashed == Spec => TrashedOnlyIfMissed
<1> DEFINE Trashed ==
      \A p \in Paths : storage[p] # None /\ storage'[p] = None => Twins(p) \subseteq missed
<1>1. ASSUME IInv, [Next]_vars PROVE Trashed
  <2> SUFFICES ASSUME NEW p \in Paths, storage[p] # None, storage'[p] = None
               PROVE  Twins(p) \subseteq missed
    OBVIOUS
  <2>1. CASE MoveOne
    <3>1. pc = "batch" /\ p \in batch
      BY <1>1, <2>1 DEF MoveOne, IInv, TypeOK, Tree
    <3> QED BY <1>1, <3>1 DEF IInv, Batched, Compared, AfterDiff
  <2>2. CASE Download \/ CrashUnindexed
    <3>1. PICK q \in Paths : disk[q] # None /\ storage' = [storage EXCEPT ![q] = disk[q]]
      BY <2>2 DEF Download, CrashUnindexed
    <3> QED BY <1>1, <3>1 DEF IInv, TypeOK, Tree
  <2>3. CASE Client
    BY <2>3 DEF Client, Write, Delete, Rename, Change, server
  <2>4. CASE Server /\ ~MoveOne /\ ~Download
    BY <2>4 DEF Server, Begin, Scan, ScanEnds, Enqueue, SelectBatch, BatchEnds, SkipGone,
                NextPass, LastPass, Settle, Finish, server
  <2>5. CASE Trouble /\ ~CrashUnindexed
    BY <2>5 DEF Trouble, BeginDiskFull, ConnectFails, ScanUnreadable, ListFails,
                EnqueueFails, SelectFails, MoveFails, SkipFailed, QueueBreaks, Crash, server
  <2>6. CASE UNCHANGED vars
    BY <2>6 DEF vars, server
  <2> QED
    BY <1>1, <2>1, <2>2, <2>3, <2>4, <2>5, <2>6 DEF Next
<1>2. IInv /\ [Next]_vars =>
        [\A p \in Paths : storage[p] # None /\ storage'[p] = None => Twins(p) \subseteq missed]_vars
  BY <1>1
<1> QED
  BY <1>2, Invariant, PTL DEF Spec, TrashedOnlyIfMissed

=============================================================================
