------------------------------- MODULE Download -------------------------------
(***************************************************************************)
(* One file on its way from the client to the storage: downloadOne and     *)
(* deltaDownload (internal/transfer/transfer.go) against handleGet and     *)
(* handleDelta (internal/client/fileserver.go).  The client's file changes *)
(* at any time, in place or by replacement; connections break and the      *)
(* server crashes between any two steps.  The .part and .meta files, the   *)
(* stored copy and its index row survive.                                  *)
(*                                                                         *)
(* A file is a sequence of blocks.  The version of a file stands for its   *)
(* size and mtime too: meta, index and resp hold the version whose size    *)
(* and mtime the code would have written down.                             *)
(***************************************************************************)
EXTENDS Integers, Sequences

CONSTANTS
  Versions,   \* versions of the client's file, numbers in order of writing
  Content,    \* the blocks of each version
  Mtime,      \* the modification time of each version
  Tolerance,  \* MTIME_TOLERANCE
  DeltaMin,   \* DELTA_MIN_SIZE, in blocks; 0 switches delta transfer off
  MaxFaults   \* bound on broken attempts and crashes

ASSUME VersionsArePositive == Versions \subseteq Nat \ {0}
ASSUME DeltaMinNat == DeltaMin \in Nat
ASSUME MaxFaultsNat == MaxFaults \in Nat

None == 0      \* no version
NoFile == <<>> \* no blocks, or no file

Size(v) == Len(Content[v])

\* What was written down, if anything, and the file agree in size and mtime,
\* as the diff and the resumption compare them.
Same(v, w) ==
  IF v = None THEN FALSE
  ELSE Size(v) = Size(w) /\ Mtime[v] - Mtime[w] \in -Tolerance .. Tolerance

\* What the blocks of the client's versions hold.
Blocks == UNION {{Content[v][k] : k \in DOMAIN Content[v]} : v \in Versions}

ASSUME ContentNotEmpty ==
  \A v \in Versions : Content[v] \in Seq(Blocks) /\ Content[v] # <<>>

\* A client that writes a file gives it a size or an mtime it never had.
ASSUME VersionsDiffer == \A v, w \in Versions : v # w => ~Same(v, w)

VARIABLES
  cv,       \* the newest version the client wrote
  present,  \* the client has the file
  src,      \* what the client has open: None is the live file, else an old one
  pc,       \* where the attempt is
  delta,    \* the attempt is a delta transfer
  resp,     \* size and mtime in the client's answer
  task,     \* the file has a task that may run
  part,     \* the .part file
  meta,     \* the .meta file
  target,   \* the stored copy
  index,    \* the row of the files table
  faults

client == <<cv, present, src>>
server == <<part, meta, target, index>>
vars == <<client, pc, delta, resp, task, server, faults>>

PC == {"idle", "ask", "meta", "stream", "verify", "upsert", "done"}

TypeOK ==
  /\ cv \in Versions /\ present \in BOOLEAN
  /\ src \in Versions \cup {None}
  /\ pc \in PC /\ delta \in BOOLEAN
  /\ resp \in Versions \cup {None} /\ (pc \in {"idle", "ask"} => resp = None)
  /\ task \in BOOLEAN
  /\ part \in Seq(Blocks) /\ target \in Seq(Blocks)
  /\ meta \in Versions \cup {None} /\ index \in Versions \cup {None}
  /\ faults \in 0 .. MaxFaults

Init ==
  /\ cv \in Versions /\ \A v \in Versions : cv <= v
  /\ present = TRUE /\ src = None
  /\ pc = "idle" /\ delta = FALSE /\ resp = None /\ task = FALSE
  /\ part = NoFile /\ meta = None
  /\ target = NoFile /\ index = None
  /\ faults = 0

-----------------------------------------------------------------------------
(* The client's user.                                                      *)

Modify ==
  \E v \in Versions, inPlace \in BOOLEAN :
    /\ v > cv
    /\ cv' = v /\ present' = TRUE
    /\ src' = IF pc \in {"meta", "stream"} /\ src = None /\ ~(inPlace /\ present)
              THEN cv ELSE src
    /\ UNCHANGED <<pc, delta, resp, task, server, faults>>

Delete ==
  /\ present /\ present' = FALSE
  /\ src' = IF pc \in {"meta", "stream"} /\ src = None THEN cv ELSE src
  /\ UNCHANGED <<cv, pc, delta, resp, task, server, faults>>

-----------------------------------------------------------------------------
(* The cycle around the attempts.                                          *)

\* EnqueueDiffDownloads
Enqueue ==
  /\ pc = "idle" /\ ~task
  /\ present /\ ~Same(index, cv)
  /\ task' = TRUE
  /\ UNCHANGED <<client, pc, delta, resp, server, faults>>

\* MoveDeleted (module Trash has its steps).
MoveToTrash ==
  /\ pc = "idle" /\ ~present /\ index # None
  /\ index' = None /\ target' = NoFile
  /\ UNCHANGED <<client, pc, delta, resp, task, part, meta, faults>>

\* Mutant: the answer of the attempt outlives it.
OverStale == pc' = "idle" /\ delta' = FALSE /\ src' = None /\ UNCHANGED resp

\* The end of an attempt: the session is gone.
Over == pc' = "idle" /\ delta' = FALSE /\ resp' = None /\ src' = None

\* The task is tried again, or it was its last attempt and it is skipped.
Retry == Over /\ task' \in BOOLEAN

-----------------------------------------------------------------------------
(* One attempt.                                                            *)

(* The request goes out: a delta request if there is an old copy of some   *)
(* size, unless the client or the frame limit does not allow it; else the  *)
(* offset is the size of .part.                                            *)
Ask ==
  /\ pc = "idle" /\ task
  /\ pc' = "ask"
  /\ delta' \in {FALSE, DeltaMin > 0 /\ target # NoFile /\ Len(target) >= DeltaMin}
  /\ UNCHANGED <<client, resp, task, server, faults>>

\* Open and stat at the client.
NotFound ==
  /\ pc = "ask" /\ ~present
  /\ Over /\ task' = FALSE
  /\ UNCHANGED <<cv, present, server, faults>>

BadOffset ==
  /\ pc = "ask" /\ present /\ ~delta
  /\ Len(part) > Size(cv)
  /\ Retry
  /\ UNCHANGED <<cv, present, server, faults>>

\* Mutant: only the size is compared.
ChangedSize(v) == part # NoFile /\ (IF meta = None THEN TRUE ELSE Size(meta) # Size(v))

\* The file changed since .meta was written: start over, on a new connection.
ChangedSince(v) == part # NoFile /\ ~Same(meta, v)

\* Mutant: the attempt fails, and nothing is thrown away.
ChangedKeeping ==
  /\ pc = "ask" /\ present /\ ~delta
  /\ Len(part) <= Size(cv) /\ ChangedSince(cv)
  /\ Retry
  /\ UNCHANGED <<cv, present, server, faults>>

Changed ==
  /\ pc = "ask" /\ present /\ ~delta
  /\ Len(part) <= Size(cv) /\ ChangedSince(cv)
  /\ part' = NoFile /\ meta' = None
  /\ Retry
  /\ UNCHANGED <<cv, present, target, index, faults>>

Answer ==
  /\ pc = "ask" /\ present /\ ~delta
  /\ Len(part) <= Size(cv) /\ ~ChangedSince(cv)
  /\ resp' = cv
  /\ pc' = "meta"
  /\ UNCHANGED <<client, delta, task, server, faults>>

\* Mutant: .meta describes the file by its name, not as it was opened.
WriteMetaLatest ==
  /\ pc = "meta"
  /\ meta' = cv
  /\ pc' = "stream"
  /\ UNCHANGED <<client, delta, resp, task, part, target, index, faults>>

WriteMeta ==
  /\ pc = "meta"
  /\ meta' = resp
  /\ pc' = "stream"
  /\ UNCHANGED <<client, delta, resp, task, part, target, index, faults>>

\* Its error is ignored: .meta stays as it was, or is left unreadable.
WriteMetaFails ==
  /\ pc = "meta" /\ faults < MaxFaults
  /\ faults' = faults + 1
  /\ meta' \in {meta, None}
  /\ pc' = "stream"
  /\ UNCHANGED <<client, delta, resp, task, part, target, index>>

\* A delta transfer starts .part from nothing and keeps no .meta.
AnswerDelta ==
  /\ pc = "ask" /\ present /\ delta
  /\ resp' = cv
  /\ meta' = None /\ part' = NoFile
  /\ pc' = "stream"
  /\ UNCHANGED <<client, delta, task, target, index, faults>>

\* What the client's open file holds now.
Opened == IF src = None THEN Content[cv] ELSE Content[src]

AtEOF == Len(part) >= Len(Opened)

\* One block: sent as data, or, in a delta transfer, kept from the old copy
\* if the hashes agree.
Block ==
  /\ pc = "stream" /\ Len(part) < Size(resp) /\ ~AtEOF
  /\ LET k == Len(part) + 1
         keep == delta /\ k <= Len(target) /\ target[k] = Opened[k]
     IN part' = Append(part, IF keep THEN target[k] ELSE Opened[k])
  /\ UNCHANGED <<client, pc, delta, resp, task, meta, target, index, faults>>

\* FILE_END, at the announced size or at the end of the file.
FileEnd ==
  /\ pc = "stream"
  /\ Len(part) = Size(resp) \/ (AtEOF /\ ~delta)
  /\ pc' = "verify"
  /\ UNCHANGED <<client, delta, resp, task, server, faults>>

\* A block that cannot be read ends a delta transfer with an error.
DeltaReadError ==
  /\ pc = "stream" /\ delta /\ AtEOF /\ Len(part) < Size(resp)
  /\ Retry
  /\ UNCHANGED <<cv, present, server, faults>>

SizeMismatch ==
  /\ pc = "verify" /\ Len(part) # Size(resp)
  /\ part' = NoFile /\ meta' = None
  /\ Retry
  /\ UNCHANGED <<cv, present, target, index, faults>>

\* Rename over the old copy, and the removal of .meta (which nobody reads
\* without a .part).
Rename ==
  /\ pc = "verify" /\ Len(part) = Size(resp)
  /\ target' = part /\ part' = NoFile /\ meta' = None
  /\ pc' = "upsert"
  /\ UNCHANGED <<client, delta, resp, task, index, faults>>

\* UpsertFile
Upsert ==
  /\ pc = "upsert"
  /\ index' = resp
  /\ pc' = "done"
  /\ UNCHANGED <<client, delta, resp, task, part, meta, target, faults>>

\* MarkTaskDone
MarkDone ==
  /\ pc = "done"
  /\ Over /\ task' = FALSE
  /\ UNCHANGED <<cv, present, server, faults>>

\* Mutant: a failed attempt throws .part away.
BreakDiscarding ==
  /\ pc \in {"ask", "stream", "verify", "upsert"} /\ faults < MaxFaults
  /\ faults' = faults + 1
  /\ Retry
  /\ part' = NoFile /\ meta' = None
  /\ UNCHANGED <<cv, present, target, index>>

\* The connection breaks, a read, a write, the sync, the rename or the row
\* fails: what is there stays for later.
Break ==
  /\ pc \in {"ask", "stream", "verify", "upsert"} /\ faults < MaxFaults
  /\ faults' = faults + 1
  /\ Retry
  /\ UNCHANGED <<cv, present, server>>

\* The server dies; inside WriteMeta it may leave an unreadable .meta.
Crash ==
  /\ pc # "idle" /\ faults < MaxFaults
  /\ faults' = faults + 1
  /\ Over
  /\ meta' \in IF pc = "meta" THEN {meta, None} ELSE {meta}
  /\ UNCHANGED <<cv, present, task, part, target, index>>

Attempt ==
  \/ Ask \/ NotFound \/ BadOffset \/ Changed \/ Answer \/ AnswerDelta \/ WriteMeta
  \/ Block \/ FileEnd \/ DeltaReadError \/ SizeMismatch
  \/ Rename \/ Upsert \/ MarkDone

Next ==
  \/ Modify \/ Delete
  \/ Enqueue \/ MoveToTrash
  \/ Attempt
  \/ WriteMetaFails \/ Break \/ Crash

Spec == Init /\ [][Next]_vars

(* Cycles come again and again and enqueue what differs; an attempt, once  *)
(* begun, goes on, as it does when both limiters let every frame and block *)
(* through: CHUNK_SIZE and DELTA_BLOCK_SIZE are within their buckets, which*)
(* Validate does not check (TaskQueue has the attempt that is kept).  The  *)
(* user, the faults and the choice between a delta and a plain request are *)
(* free.                                                                   *)
FairSpec == Spec /\ WF_vars(Enqueue) /\ WF_vars(Attempt)

-----------------------------------------------------------------------------
(* Properties.                                                             *)

Stored == Same(index, cv) /\ target = Content[cv]

(* A file the diff takes for unchanged is stored with the client's content,*)
(* although it was resumed over changes, breaks and crashes: nothing will  *)
(* ever download it again.                                                 *)
UnchangedIsStored ==
  present /\ Same(index, cv) => target = Content[cv]

(* The bytes of .part are a beginning of the version .meta names, or the   *)
(* client's file is no longer that version, so that the next resumption    *)
(* throws them away.                                                       *)
PartMatchesMeta ==
  pc = "idle" /\ part # NoFile /\ present /\ Same(meta, cv)
    => \A k \in 1 .. Len(part) : k <= Size(cv) /\ part[k] = Content[cv][k]

(* A connection that breaks, or a crash, costs no block that was received: *)
(* only an attempt that finds the file changed, or of the wrong size, or   *)
(* that completes it, makes .part shorter; a delta transfer begins anew.   *)
ProgressKept ==
  [][ Len(part') < Len(part) =>
        \/ pc = "verify"
        \/ pc = "ask" /\ present /\ (delta \/ ~Same(meta, cv)) ]_vars

(* Once the user and the faults rest, the file is stored as it is, or it   *)
(* is gone; or .part is longer than the file.                              *)
StoredUnlessBadOffset ==
  <>[](~present \/ Stored \/ Len(part) > Size(cv))

(* A file that changed while it was being resumed is downloaded from the   *)
(* beginning: once the user and the faults rest, it is stored.             *)
ChangedIsStored == <>[](~present \/ Stored)

=============================================================================
