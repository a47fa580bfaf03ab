------------------------------- MODULE Session -------------------------------
(***************************************************************************)
(* A data connection that a worker keeps from one task to the next         *)
(* (processTask and downloadOne, internal/transfer/transfer.go), as the    *)
(* stream of frames it is.  An attempt that ends by an error of the server *)
(* itself leaves the rest of its answer in the stream, and the next        *)
(* request, of this file or of another one, reads on from there.  No       *)
(* answer names its request: neither the file nor the offset.              *)
(*                                                                         *)
(* The client's files rest: module Download has them change, on            *)
(* connections that are clean.  So the client's answer does not depend on  *)
(* when it is sent, and is in the stream with its request.                 *)
(***************************************************************************)
EXTENDS Integers, Sequences

CONSTANTS
  Paths,       \* the client's files, numbers from 1
  Size,        \* the size of each, in blocks
  HasOld,      \* those of which the storage has an older copy
  DeltaMin,    \* DELTA_MIN_SIZE, in blocks; 0 switches delta transfer off
  RetryCount,  \* RETRY_COUNT
  MaxFaults    \* bound on errors of either side and broken connections

ASSUME PathsArePositive == Paths \subseteq Nat \ {0} /\ HasOld \subseteq Paths
ASSUME SizesAreNat == \A p \in Paths : Size[p] \in Nat
ASSUME RetryPositive == RetryCount \in Nat \ {0}
ASSUME MaxFaultsNat == MaxFaults \in Nat

None == 0      \* no file
NoFile == <<>>

\* The k-th block of a file is <<file, k>>; the old copy differs in its last.
File(p) == [k \in 1 .. Size[p] |-> <<p, k>>]
OldCopy(p) == IF p \in HasOld THEN [File(p) EXCEPT ![Size[p]] = <<p, None>>] ELSE NoFile

VARIABLES
  tasks,     \* files with a task in the queue
  cur,       \* the task the worker has, or None
  tries,     \* failed attempts of that task
  pc,        \* where its attempt is
  delta,     \* the attempt is a delta transfer
  resp,      \* the file whose size and mtime were in the answer
  conn,      \* the worker has a connection
  wire,      \* frames of the client that nobody has read
  part,      \* the .part files
  meta,      \* the .meta files: the file whose size and mtime they hold
  target,    \* the stored copies
  index,     \* rows of the files table, by whose size and mtime they hold
  faults,
  behind,    \* (history) the request went out behind frames nobody had read
  taken      \* (history) the kinds of answers to earlier requests that
             \* attempts at a file have taken for their own

history == <<behind, taken>>
attempt == <<cur, tries, pc, delta, resp>>
disk == <<part, meta, target, index>>
vars == <<tasks, attempt, conn, wire, disk, faults, history>>

Kinds == {"resp", "delta", "data", "keep", "end", "error", "eof"}
Blocks == Nat \X Nat
Frames == [kind : Kinds, block : Blocks]
Frame(kind, p, k) == [kind |-> kind, block |-> <<p, k>>]

TypeOK ==
  /\ tasks \subseteq Paths
  /\ cur \in Paths \cup {None} /\ (cur = None <=> pc = "idle")
  /\ tries \in 0 .. RetryCount - 1
  /\ pc \in {"idle", "ready", "sent", "open", "stream", "verify"} /\ delta \in BOOLEAN
  /\ resp \in Paths \cup {None} /\ (resp # None <=> pc \in {"open", "stream", "verify"})
  /\ conn \in BOOLEAN /\ (~conn => wire = <<>> /\ pc \in {"idle", "ready"})
  /\ wire \in Seq(Frames)
  /\ meta \in [Paths -> Paths \cup {None}] /\ index \in [Paths -> Paths \cup {None}]
  /\ part \in [Paths -> Seq(Blocks)] /\ target \in [Paths -> Seq(Blocks)]
  /\ faults \in 0 .. MaxFaults
  /\ behind \in BOOLEAN /\ taken \in [Paths -> SUBSET {"resp", "delta"}]

\* The diff: a row with the size and mtime the file has.
Unchanged(p) == index[p] = p

Init ==
  /\ tasks = Paths
  /\ cur = None /\ tries = 0 /\ pc = "idle" /\ delta = FALSE /\ resp = None
  /\ conn = FALSE /\ wire = <<>>
  /\ part = [p \in Paths |-> NoFile] /\ meta = [p \in Paths |-> None]
  /\ target = [p \in Paths |-> OldCopy(p)] /\ index = [p \in Paths |-> None]
  /\ faults = 0 /\ behind = FALSE /\ taken = [p \in Paths |-> {}]

Fault == faults < MaxFaults /\ faults' = faults + 1

-----------------------------------------------------------------------------
(* The client: handleGet and handleDelta.                                  *)

Data(p, k) == Frame("data", p, k)
Error == <<Frame("error", None, 0)>>

\* The blocks from k on, the ones of the old copy by name only.
Stream(p, k, keep) ==
  [i \in 1 .. Size[p] - k + 1 |->
     IF keep /\ k + i - 1 <= Len(target[p]) /\ target[p][k + i - 1] = File(p)[k + i - 1]
     THEN Frame("keep", p, k + i - 1) ELSE Data(p, k + i - 1)]
  \o <<Frame("end", p, 0)>>

Answer ==
  IF delta' THEN <<Frame("delta", cur, 0)>> \o Stream(cur, 1, TRUE)
  ELSE IF Len(part[cur]) > Size[cur] THEN Error
  ELSE <<Frame("resp", cur, 0)>> \o Stream(cur, Len(part[cur]) + 1, FALSE)

\* The client cannot open the file; or it cannot read on, or its write times
\* out, and it closes the connection, in the first case behind an error.
BrokenAnswers ==
  {Error} \cup
  {SubSeq(Answer, 1, n) \o e \o <<Frame("eof", None, 0)>> :
     n \in 1 .. Len(Answer) - 1, e \in {Error, <<>>}}

-----------------------------------------------------------------------------
(* The worker.                                                             *)

Take(p) ==
  /\ pc = "idle" /\ p \in tasks
  /\ cur' = p /\ tries' = 0 /\ pc' = "ready"
  /\ UNCHANGED <<tasks, delta, resp, conn, wire, disk, faults, history>>

Dial ==
  /\ pc = "ready" /\ ~conn
  /\ conn' = TRUE
  /\ UNCHANGED <<tasks, attempt, wire, disk, faults, history>>

\* The request goes out: nothing is read off the stream before.
Ask(answers) ==
  /\ pc = "ready" /\ conn
  /\ delta' = (DeltaMin > 0 /\ target[cur] # NoFile /\ Len(target[cur]) >= DeltaMin)
  /\ pc' = "sent" /\ behind' = (wire # <<>>)
  /\ \E a \in answers :
       wire' = IF \E i \in 1 .. Len(wire) : wire[i].kind = "eof" THEN wire ELSE wire \o a
  /\ UNCHANGED <<tasks, cur, tries, resp, conn, disk, taken>>

Request == Ask({Answer}) /\ UNCHANGED faults
RequestBroken == Ask(BrokenAnswers) /\ Fault

\* The connection as an attempt leaves it, closed or with what is unread.
Drop == conn' = FALSE /\ wire' = <<>>
Keep(rest) == conn' = conn /\ wire' = rest

\* Mutant: the answer of the attempt outlives it.
FailsStale ==
  /\ delta' = FALSE /\ UNCHANGED resp
  /\ IF tries + 1 < RetryCount
     THEN tries' = tries + 1 /\ pc' = "ready" /\ UNCHANGED <<tasks, cur>>
     ELSE tries' = 0 /\ pc' = "idle" /\ cur' = None /\ tasks' = tasks \ {cur}

\* failAttempt: another attempt, or the file is skipped.
Fails ==
  /\ resp' = None /\ delta' = FALSE
  /\ IF tries + 1 < RetryCount
     THEN tries' = tries + 1 /\ pc' = "ready" /\ UNCHANGED <<tasks, cur>>
     ELSE tries' = 0 /\ pc' = "idle" /\ cur' = None /\ tasks' = tasks \ {cur}

Reads == conn /\ wire # <<>>
Got == Head(wire).kind
From == Head(wire).block

Discard == part' = [part EXCEPT ![cur] = NoFile] /\ meta' = [meta EXCEPT ![cur] = None]

\* The answer is an error, or, to a plain request, any frame but GET_RESP:
\* ReadExpect gives both the type of a protocol error, which keeps the
\* connection.
Refused ==
  /\ pc = "sent" /\ Reads
  /\ Got = "error" \/ (~delta /\ Got \notin {"resp", "eof"})
  /\ Fails /\ Keep(Tail(wire))
  /\ UNCHANGED <<disk, faults, history>>

\* A delta request that is not answered with DELTA_RESP, or the end of the
\* stream.
Unexpected ==
  /\ pc = "sent" /\ Reads
  /\ Got = "eof" \/ (delta /\ Got \notin {"delta", "error"})
  /\ Fails /\ Drop
  /\ UNCHANGED <<disk, faults, history>>

\* Mutant: only that there is a .meta is asked.
ChangedIfUnknown(p) == part[cur] # NoFile /\ meta[cur] = None

\* The answer is about a file of another size or mtime than .part is of.
Changed(p) == part[cur] # NoFile /\ meta[cur] # p

StartsOver ==
  /\ pc = "sent" /\ Reads /\ ~delta /\ Got = "resp" /\ Changed(From[1])
  /\ Discard /\ Fails /\ Drop
  /\ UNCHANGED <<target, index, faults, history>>

Takes == taken' = [taken EXCEPT ![cur] = IF behind THEN @ \cup {Got} ELSE @]

Answered ==
  /\ pc = "sent" /\ Reads /\ ~delta /\ Got = "resp" /\ ~Changed(From[1])
  /\ resp' = From[1] /\ pc' = "open"
  /\ meta' = [meta EXCEPT ![cur] = From[1]]
  /\ Takes /\ Keep(Tail(wire))
  /\ UNCHANGED <<tasks, cur, tries, delta, part, target, index, faults, behind>>

AnsweredDelta ==
  /\ pc = "sent" /\ Reads /\ delta /\ Got = "delta"
  /\ resp' = From[1] /\ pc' = "open"
  /\ meta' = [meta EXCEPT ![cur] = None]
  /\ Takes /\ Keep(Tail(wire))
  /\ UNCHANGED <<tasks, cur, tries, delta, part, target, index, faults, behind>>

\* The directory is there, and .part is open, for a delta transfer anew.
Open ==
  /\ pc = "open"
  /\ pc' = "stream"
  /\ part' = IF delta THEN [part EXCEPT ![cur] = NoFile] ELSE part
  /\ UNCHANGED <<tasks, cur, tries, delta, resp, conn, wire, meta, target, index, faults, history>>

\* The block that comes next.
Position == Len(part[cur]) + 1
MoreBlocks == Len(part[cur]) < Size[resp]

\* A block of data, or, in a delta transfer, one of the old copy.
Block ==
  /\ pc = "stream" /\ Reads
  /\ delta => MoreBlocks
  /\ \/ Got = "data" /\ part' = [part EXCEPT ![cur] = Append(@, From)]
     \/ /\ Got = "keep" /\ delta /\ Position <= Len(target[cur])
        /\ part' = [part EXCEPT ![cur] = Append(@, target[cur][Position])]
  /\ Len(part'[cur]) <= Size[resp]
  /\ Keep(Tail(wire))
  /\ UNCHANGED <<tasks, attempt, meta, target, index, faults, history>>

\* More than the announced size.
TooLong ==
  /\ pc = "stream" /\ Reads /\ ~delta /\ Got = "data" /\ ~MoreBlocks
  /\ Discard /\ Fails /\ Drop
  /\ UNCHANGED <<target, index, faults, history>>

\* An error frame, or a block of the old copy that is not there.
Refuses ==
  /\ pc = "stream" /\ Reads
  /\ Got = "error" \/ (Got = "keep" /\ delta /\ MoreBlocks /\ Position > Len(target[cur]))
  /\ ~(Got = "error" /\ delta /\ ~MoreBlocks)
  /\ Fails /\ Keep(Tail(wire))
  /\ UNCHANGED <<disk, faults, history>>

\* A frame that has no place in the stream.
Disturbed ==
  /\ pc = "stream" /\ Reads
  /\ IF delta THEN IF MoreBlocks THEN Got \in {"resp", "delta", "end", "eof"} ELSE Got # "end"
     ELSE Got \in {"resp", "delta", "keep", "eof"}
  /\ Fails /\ Drop
  /\ UNCHANGED <<disk, faults, history>>

End ==
  /\ pc = "stream" /\ Reads /\ Got = "end" /\ (delta => ~MoreBlocks)
  /\ pc' = "verify"
  /\ Keep(Tail(wire))
  /\ UNCHANGED <<tasks, cur, tries, delta, resp, disk, faults, history>>

WrongSize ==
  /\ pc = "verify" /\ Len(part[cur]) # Size[resp]
  /\ Discard /\ Fails /\ Keep(wire)
  /\ UNCHANGED <<target, index, faults, history>>

\* The stored copy is replaced, with the size and mtime of the answer.
Replace ==
  /\ pc = "verify" /\ Len(part[cur]) = Size[resp]
  /\ target' = [target EXCEPT ![cur] = part[cur]]
  /\ Discard

Complete ==
  /\ Replace /\ index' = [index EXCEPT ![cur] = resp]
  /\ tasks' = tasks \ {cur}
  /\ cur' = None /\ tries' = 0 /\ pc' = "idle" /\ delta' = FALSE /\ resp' = None
  /\ UNCHANGED <<conn, wire, faults, history>>

\* The server cannot create, write or sync .part, or make the directory:
\* the connection is kept.  A block that is not written has been read.
LocalError ==
  /\ Fault
  /\ \/ pc \in {"open", "verify"} /\ Keep(wire)
     \/ /\ pc = "stream" /\ Reads /\ Keep(Tail(wire))
        /\ Got = "data" \/ (Got = "keep" /\ delta)
        /\ delta => MoreBlocks
  /\ Fails
  /\ UNCHANGED <<disk, history>>

\* The row cannot be written when the file has been renamed.
IndexError ==
  /\ Fault
  /\ Replace /\ UNCHANGED <<index, history>>
  /\ Fails /\ Keep(wire)

\* Connections break; a write or a read fails.
Break ==
  /\ Fault
  /\ conn /\ pc \in {"ready", "sent", "stream"}
  /\ Fails /\ Drop
  /\ UNCHANGED <<disk, history>>

\* Mutant: the connection is kept for the next queue.
NextQueueOnIt ==
  /\ pc = "idle" /\ tasks = {}
  /\ tasks' = {p \in Paths : ~Unchanged(p)} /\ tasks' # {}
  /\ UNCHANGED <<attempt, conn, wire, disk, faults, history>>

\* The queue is done, the worker closes its connection; a later pass or
\* cycle enqueues what differs.
NextQueue ==
  /\ pc = "idle" /\ tasks = {}
  /\ tasks' = {p \in Paths : ~Unchanged(p)} /\ tasks' # {}
  /\ Drop
  /\ UNCHANGED <<attempt, disk, faults, history>>

Worker ==
  \/ \E p \in Paths : Take(p)
  \/ Dial \/ Request \/ Refused \/ Unexpected \/ StartsOver
  \/ Answered \/ AnsweredDelta \/ Open
  \/ Block \/ TooLong \/ Refuses \/ Disturbed \/ End
  \/ WrongSize \/ Complete
  \/ NextQueue

Next ==
  \/ Worker
  \/ RequestBroken \/ LocalError \/ IndexError \/ Break

Spec == Init /\ [][Next]_vars

(* The worker goes on, as it does when both limiters let every frame and   *)
(* block through (see FairSpec of Download); errors are free.              *)
FairSpec == Spec /\ WF_vars(Worker)

-----------------------------------------------------------------------------
(* Properties.                                                             *)

(* A file the diff takes for unchanged has its size in the storage, and    *)
(* its own content if none of its attempts has taken the answer to an      *)
(* earlier request for its own.  Without delta answers among them its      *)
(* blocks are at least its own, if not at their places.                    *)
UnchangedIsStored ==
  \A p \in Paths : Unchanged(p) =>
    /\ Len(target[p]) = Size[p]
    /\ "delta" \notin taken[p] => \A k \in 1 .. Size[p] : target[p][k][1] = p
    /\ taken[p] = {} => target[p] = File(p)

(* Once the errors rest, each file is taken for unchanged, whatever was    *)
(* left over: the next queue has new connections.  But a .part with the    *)
(* content of a longer file is never got rid of, the client refusing its   *)
(* offset.                                                                 *)
StoredInTheEnd ==
  \A p \in Paths : <>[](Unchanged(p) \/ Len(part[p]) > Size[p])

(* What the documents and the integrity tests say: a file that is indexed  *)
(* with the size and mtime the client has is stored with the content the   *)
(* client has.                                                             *)
StoredAsItIs == \A p \in Paths : Unchanged(p) => target[p] = File(p)

=============================================================================
