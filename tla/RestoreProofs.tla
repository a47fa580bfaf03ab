---------------------------- MODULE RestoreProofs ----------------------------
(***************************************************************************)
(* Proofs about module Restore: what the client has after a restoration,   *)
(* when connections that were given up still have frames in them.  The     *)
(* invariant follows the stream of one attempt: the request is the first   *)
(* frame of its connection and names the version that is sent; a goroutine *)
(* that is busy has before it the rest of the stream from its own offset   *)
(* on; only the last connection is open.  What the file, its .part and     *)
(* its .meta hold follows from that as long as no two goroutines are busy  *)
(* at a time.                                                              *)
(***************************************************************************)
EXTENDS Restore, SequenceTheorems, FiniteSetTheorems, TLAPS

\* The worker has a connection: the last one, and the only one it has not
\* closed.
Live == spc \in {"put", "resume", "data", "final"}
Links ==
  /\ \A c \in Conns : c > conns <=> h[c].pc = "none"
  /\ \A c \in Conns : c > conns => up[c] = <<>> /\ down[c] = <<>> /\ ~closed[c]
  /\ \A c \in Conns : c < conns => closed[c]
  /\ conns # 0 => (closed[conns] <=> ~Live)
  /\ Live => conns # 0
  /\ \A c \in Conns : closed[c] => down[c] = <<>>

\* The file exists from Renames on.
RenamedExists == \A c \in Conns : h[c].pc = "times" => full # None

\* The version of the attempt under way, or of the next one if there is none.
Latest == IF spc = "resume" THEN ver ELSE stored

IsPut(c, i) == up[c][i].kind = "PUT"

\* The stored version only grows; nothing on the client is about a later one.
VersionsOfWorker ==
  /\ ver <= stored /\ row <= stored
  /\ spc \in {"resume", "data", "final", "ok"} => ver # None
VersionsOfClient ==
  /\ meta <= Latest
  /\ \A c \in Conns : Busy(c) => h[c].ver # None /\ h[c].ver <= Latest
  /\ \A c \in Conns : \A i \in 1 .. Len(up[c]) : IsPut(c, i) => up[c][i].block[1] <= Latest

\* Without -force what the check has seen is not newer than what is sent.
Running == spc \in {"dial", "put", "resume", "data", "final"}
SeenByWorker ==
  ~force => (Running => saw <= row) /\ (spc = "put" => seen[conns] <= row)
SeenByClient ==
  ~force =>
    /\ \A c \in Conns : Busy(c) => seen[c] <= h[c].ver
    /\ \A c \in Conns : \A i \in 1 .. Len(up[c]) : IsPut(c, i) => seen[c] <= up[c][i].block[1]

\* A request is alone in its connection, and has no answer yet.
RequestFirst ==
  \A c \in Conns : \A i \in 1 .. Len(up[c]) : IsPut(c, i) =>
    /\ Len(up[c]) = 1 /\ down[c] = <<>> /\ h[c].pc \in {"idle", "gone"}
    /\ closed[c] \/ (spc = "resume" /\ up[c][i].block[1] = ver)
ConnectionIsFresh ==
  spc = "put" => up[conns] = <<>> /\ down[conns] = <<>> /\ h[conns].pc \in {"idle", "gone"}

\* What a busy goroutine has before it is the stream from its offset on.
IsFrame(f, v, n) ==
  IF n <= Blocks THEN f = [kind |-> "DATA", block |-> <<v, n>>]
  ELSE f = [kind |-> "END", block |-> Hole]
StreamGoesOn ==
  /\ \A c \in Conns : h[c].pc \in {"open", "recv"} =>
       /\ h[c].pos + Len(up[c]) <= Blocks + 1
       /\ \A i \in 1 .. Len(up[c]) : IsFrame(up[c][i], h[c].ver, h[c].pos + i)
  /\ \A c \in Conns : h[c].pc \in {"end", "times"} => up[c] = <<>> /\ h[c].pos = Blocks

\* The worker and the goroutine of its connection agree on the version and
\* the offset.
Agree(c) ==
  /\ h[c].ver = ver
  /\ \/ spc = "resume" /\ up[c] = <<>> /\ down[c] = <<[kind |-> "RESUME", offset |-> h[c].pos]>>
     \/ spc = "data" /\ sent = h[c].pos + Len(up[c])
     \/ spc = "final" /\ h[c].pos + Len(up[c]) = Blocks + 1
InStep ==
  /\ \A c \in Conns : ~closed[c] /\ h[c].pc \in {"open", "recv"} => Agree(c)
  /\ \A c \in Conns : ~closed[c] /\ h[c].pc \in {"end", "times"} => spc = "final" /\ h[c].ver = ver
  /\ \A c \in Conns : \A i \in 1 .. Len(down[c]) : down[c][i].kind = "OK" => spc = "final"

\* Every frame has at most one answer, and the request one more.
Ups(c) == Len(up[c])
Downs(c) == Len(down[c])
Owes(c) == IF h[c].pc \in {"open", "recv", "end", "times"} THEN 1 ELSE 0
Pending(c) == Ups(c) + Downs(c) + Owes(c)
Asked(c) == \E i \in 1 .. Len(up[c]) : IsPut(c, i)
Lengths ==
  /\ \A c \in Conns : Ups(c) <= Blocks + 2
  /\ spc = "resume" => Ups(conns) <= 1 /\ Pending(conns) <= 2
  /\ spc = "resume" /\ Asked(conns) => Pending(conns) <= 1
  /\ spc = "data" => Ups(conns) <= sent + 1 /\ Pending(conns) <= sent + 2
  /\ spc = "final" => Pending(conns) <= Blocks + 3

\* The goroutines are busy one after the other, as far as overlap tells.
OneBusy == ~overlap => \A c, d \in Conns : Busy(c) /\ Busy(d) => c = d
PartIsNotFull == part # None => part # full

\* The .part is as long as the goroutine takes it to be, ...
PartOf(c) ==
  /\ h[c].pc = "open" => PartSize = h[c].pos /\ (h[c].pos > 0 => meta = h[c].ver)
  /\ h[c].pc \in {"recv", "end"} =>
       /\ part # None /\ part = h[c].fd
       /\ PartSize = h[c].pos /\ inode[part].mtime = Now
PartOfBusy == ~overlap => \A c \in Conns : PartOf(c)

\* ... has the blocks of its version, and .meta is not about a later one; ...
Begins(w) == \A k \in 1 .. PartSize : inode[part].data[k] = <<w, k>>
OwnBlocks(c) ==
  h[c].pc \in {"open", "recv", "end"} /\ ~HasNoMore(c) => Begins(h[c].ver) /\ meta <= h[c].ver
PartIsOwn == ~overlap => \A c \in Conns : OwnBlocks(c)

\* ... and is the file when it has got its name, unless a user writes a newer
\* one before the times are set.
FileOf(c) ==
  h[c].pc = "times" =>
    \/ inode[full] = [data |-> Content(h[c].ver), mtime |-> Now]
    \/ \E v \in Versions : v > h[c].ver /\ inode[full] = Copy(v)
RenamedIsOwn == ~overlap => \A c \in Conns : FileOf(c)

\* A .part is of the version .meta is about, or of none that is still asked
\* for.
MetaTells == ~overlap /\ meta # None => meta < Latest \/ (PartSize <= Blocks /\ Begins(meta))

\* The file is as the worker is told.
AsTold ==
  \E v \in Versions :
    /\ inode[full].data = Content(v)
    /\ \/ v = ver /\ Mtime = ver
       \/ v = ver /\ Mtime = Now /\ faults > 0
       \/ v > ver /\ Mtime \in {v, ver}

\* A success that is on its way, or has been told, is true, and no goroutine
\* can undo it.
Succeeds == spc = "ok" \/ \E c \in Conns : \E i \in 1 .. Len(down[c]) : down[c][i].kind = "OK"
SuccessIsTrue ==
  ~overlap /\ Succeeds =>
    /\ full # None
    /\ AsTold
    /\ \A c \in Conns : Busy(c) => HasNoMore(c)

IInv ==
  /\ TypeOK
  /\ Links /\ RenamedExists
  /\ VersionsOfWorker /\ VersionsOfClient /\ SeenByWorker /\ SeenByClient
  /\ RequestFirst /\ ConnectionIsFresh /\ StreamGoesOn /\ InStep /\ Lengths
  /\ OneBusy /\ PartIsNotFull
  /\ PartOfBusy /\ PartIsOwn /\ RenamedIsOwn /\ MetaTells /\ SuccessIsTrue
  /\ ReplacedAtOnce
-----------------------------------------------------------------------------
(* Constants, frames and sequences of frames.                              *)

LEMMA NowIs == Now \in Nat /\ Now > 1 /\ Versions = 1 .. Now - 1
<1>1. Cardinality(Versions) \in Nat /\ Cardinality(Versions) # 0
  BY VersionsAssumption, FS_CardinalityType, FS_EmptySet
<1> QED
  BY <1>1, VersionsAssumption DEF Now

LEMMA RetriesIs == \A c \in Configs : c.server.retries \in Nat \ {0}
  BY ConfigsAssumption DEF ValidServer

\* A function on 1 .. n is a sequence of length n.
LEMMA FunIsSeq ==
  ASSUME NEW S, NEW n \in Nat, NEW f \in [1 .. n -> S]
  PROVE  f \in Seq(S) /\ Len(f) = n
<1>1. f \in Seq(S)
  BY SeqDef
<1>2. 1 .. Len(f) = 1 .. n /\ Len(f) \in Nat
  BY <1>1, LenProperties
<1> QED
  BY <1>1, <1>2

\* What Append, Head and Tail do.
LEMMA AppendIs ==
  ASSUME NEW S, NEW s \in Seq(S), NEW e \in S
  PROVE  /\ Append(s, e) \in Seq(S) /\ Len(Append(s, e)) = Len(s) + 1
         /\ \A k \in 1 .. Len(s) : Append(s, e)[k] = s[k]
         /\ Append(s, e)[Len(s) + 1] = e
  OBVIOUS

LEMMA TailIs ==
  ASSUME NEW S, NEW s \in Seq(S), s # <<>>
  PROVE  /\ Len(s) \in Nat \ {0} /\ Head(s) = s[1] /\ Head(s) \in S
         /\ Tail(s) \in Seq(S) /\ Len(Tail(s)) = Len(s) - 1
         /\ \A k \in 1 .. Len(s) - 1 : Tail(s)[k] = s[k + 1]
  OBVIOUS

\* The worker sends a frame.
LEMMA SendIs ==
  ASSUME TypeOK, conns \in Conns, NEW f \in Requests, Send(f)
  PROVE  /\ up' \in [Conns -> Seq(Requests)]
         /\ Len(up'[conns]) = Len(up[conns]) + 1
         /\ \A k \in 1 .. Len(up[conns]) : up'[conns][k] = up[conns][k]
         /\ up'[conns][Len(up[conns]) + 1] = f
         /\ \A c \in Conns : c # conns => up'[c] = up[c]
<1>1. up[conns] \in Seq(Requests) /\ up \in [Conns -> Seq(Requests)]
  BY DEF TypeOK
<1>2. up' = [up EXCEPT ![conns] = Append(@, f)]
  BY DEF Send
<1>3. up'[conns] = Append(up[conns], f) /\ Append(up[conns], f) \in Seq(Requests)
  BY <1>1, <1>2, AppendIs
<1>4. up' \in [Conns -> Seq(Requests)] /\ \A c \in Conns : c # conns => up'[c] = up[c]
  BY <1>1, <1>2, <1>3
<1> QED
  BY <1>1, <1>3, <1>4, AppendIs

\* A goroutine takes the frame it has read.
LEMMA TakenIs ==
  ASSUME TypeOK, NEW c \in Conns, up[c] # <<>>, Taken(c)
  PROVE  /\ up' \in [Conns -> Seq(Requests)]
         /\ Len(up[c]) \in Nat \ {0} /\ Len(up'[c]) = Len(up[c]) - 1
         /\ Head(up[c]) = up[c][1] /\ Head(up[c]) \in Requests
         /\ \A k \in 1 .. Len(up[c]) - 1 : up'[c][k] = up[c][k + 1]
         /\ \A d \in Conns : d # c => up'[d] = up[d]
<1>1. up[c] \in Seq(Requests) /\ up \in [Conns -> Seq(Requests)]
  BY DEF TypeOK
<1>2. up' = [up EXCEPT ![c] = Tail(@)]
  BY DEF Taken
<1>3. up'[c] = Tail(up[c]) /\ Tail(up[c]) \in Seq(Requests)
  BY <1>1, <1>2, TailIs
<1>4. up' \in [Conns -> Seq(Requests)] /\ \A d \in Conns : d # c => up'[d] = up[d]
  BY <1>1, <1>2, <1>3
<1> QED
  BY <1>1, <1>3, <1>4, TailIs

\* A goroutine answers.
LEMMA AnswerIs ==
  ASSUME TypeOK, NEW c \in Conns, NEW kind \in {"RESUME", "OK", "BAD"}, NEW offset \in 0 .. Blocks,
         Answer(c, kind, offset)
  PROVE  /\ down' \in [Conns -> Seq(Answers)]
         /\ closed[c] => down' = down
         /\ ~closed[c] =>
              /\ Len(down'[c]) = Len(down[c]) + 1
              /\ \A k \in 1 .. Len(down[c]) : down'[c][k] = down[c][k]
              /\ down'[c][Len(down[c]) + 1] = [kind |-> kind, offset |-> offset]
              /\ down[c] = <<>> => down'[c] = <<[kind |-> kind, offset |-> offset]>>
         /\ \A d \in Conns : d # c => down'[d] = down[d]
<1> DEFINE a == [kind |-> kind, offset |-> offset]
<1>1. down[c] \in Seq(Answers) /\ down \in [Conns -> Seq(Answers)]
  BY DEF TypeOK
<1>2. a \in Answers
  BY DEF Answers
<1>3. CASE closed[c]
  BY <1>1, <1>3 DEF Answer
<1>4. CASE ~closed[c]
  <2>1. down' = [down EXCEPT ![c] = Append(@, a)]
    BY <1>4 DEF Answer
  <2>2. down'[c] = Append(down[c], a) /\ Append(down[c], a) \in Seq(Answers)
    BY <1>1, <1>2, <2>1, AppendIs
  <2>3. down' \in [Conns -> Seq(Answers)] /\ \A d \in Conns : d # c => down'[d] = down[d]
    BY <1>1, <2>1, <2>2
  <2>4. down[c] = <<>> => down'[c] = <<a>>
    BY <2>2
  <2> HIDE DEF a
  <2>5. /\ Len(down'[c]) = Len(down[c]) + 1
        /\ \A k \in 1 .. Len(down[c]) : down'[c][k] = down[c][k]
        /\ down'[c][Len(down[c]) + 1] = a
    BY <1>1, <1>2, <2>2, AppendIs
  <2> QED
    BY <1>4, <2>3, <2>4, <2>5 DEF a
<1> QED
  BY <1>3, <1>4

\* The worker reads an answer.
LEMMA ReceiveIs ==
  ASSUME TypeOK, conns \in Conns, down[conns] # <<>>, Receive
  PROVE  /\ down' \in [Conns -> Seq(Answers)]
         /\ Len(down[conns]) \in Nat \ {0} /\ Len(down'[conns]) = Len(down[conns]) - 1
         /\ Head(down[conns]) = down[conns][1] /\ Head(down[conns]) \in Answers
         /\ \A k \in 1 .. Len(down[conns]) - 1 : down'[conns][k] = down[conns][k + 1]
         /\ \A d \in Conns : d # conns => down'[d] = down[d]
<1>1. down[conns] \in Seq(Answers) /\ down \in [Conns -> Seq(Answers)]
  BY DEF TypeOK
<1>2. down' = [down EXCEPT ![conns] = Tail(@)]
  BY DEF Receive
<1>3. down'[conns] = Tail(down[conns]) /\ Tail(down[conns]) \in Seq(Answers)
  BY <1>1, <1>2, TailIs
<1>4. down' \in [Conns -> Seq(Answers)] /\ \A d \in Conns : d # conns => down'[d] = down[d]
  BY <1>1, <1>2, <1>3
<1> QED
  BY <1>1, <1>3, <1>4, TailIs

-----------------------------------------------------------------------------
(* Files.                                                                  *)

Files == [data : Seq(Block), mtime : 0 .. Now]

LEMMA ContentIs ==
  ASSUME NEW v \in Versions
  PROVE  /\ Content(v) \in Seq(Block) /\ Len(Content(v)) = Blocks
         /\ \A k \in 1 .. Blocks : Content(v)[k] = <<v, k>>
         /\ Copy(v) \in Files /\ Copy(v).data = Content(v) /\ Copy(v).mtime = v
<1>0. Blocks \in Nat /\ v \in 0 .. Now
  BY BoundsAssumption, NowIs
<1>1. Content(v) \in [1 .. Blocks -> Block]
  BY DEF Content, Block
<1>2. Content(v) \in Seq(Block) /\ Len(Content(v)) = Blocks
  BY <1>0, <1>1, FunIsSeq
<1>3. \A k \in 1 .. Blocks : Content(v)[k] = <<v, k>>
  BY DEF Content
<1> HIDE DEF Content
<1> QED
  BY <1>0, <1>2, <1>3 DEF Copy, Files

\* A sequence with the blocks of a version in their places is its content.
LEMMA ContentOf ==
  ASSUME NEW v \in Versions, NEW s \in Seq(Block), Len(s) = Blocks,
         \A k \in 1 .. Blocks : s[k] = <<v, k>>
  PROVE  s = Content(v)
<1>1. Content(v) \in Seq(Block) /\ Len(Content(v)) = Len(s)
  BY ContentIs
<1>2. \A k \in 1 .. Len(s) : s[k] = Content(v)[k]
  BY ContentIs
<1> QED
  BY <1>1, <1>2, SeqEqual

LEMMA TruncatedIs ==
  ASSUME NEW s \in Seq(Block), NEW n \in Nat
  PROVE  /\ Truncated(s, n) \in Seq(Block) /\ Len(Truncated(s, n)) = n
         /\ n <= Len(s) => \A k \in 1 .. n : Truncated(s, n)[k] = s[k]
<1>1. Truncated(s, n) \in [1 .. n -> Block]
  BY DEF Truncated, Block
<1> QED
  BY <1>1, FunIsSeq DEF Truncated

LEMMA WrittenIs ==
  ASSUME NEW s \in Seq(Block), NEW n \in Nat \ {0}, NEW b \in Block
  PROVE  /\ Written(s, n, b) \in Seq(Block)
         /\ Len(s) = n - 1 =>
              /\ Len(Written(s, n, b)) = n
              /\ \A k \in 1 .. n - 1 : Written(s, n, b)[k] = s[k]
              /\ Written(s, n, b)[n] = b
<1> DEFINE m == IF Len(s) < n THEN n ELSE Len(s)
<1>1. m \in Nat
  OBVIOUS
<1>2. Written(s, n, b) \in [1 .. m -> Block]
  BY DEF Written, Block
<1>3. Written(s, n, b) \in Seq(Block) /\ Len(Written(s, n, b)) = m
  BY <1>1, <1>2, FunIsSeq
<1> QED
  BY <1>3 DEF Written

\* There is always an inode to create a file with.
LEMMA NewInodeIs ==
  ASSUME TypeOK
  PROVE  NewInode \in Inodes /\ Unused(NewInode)
<1> DEFINE U == {full, part} \cup {h[c].fd : c \in Conns}
<1>0. MaxConn \in Nat
  BY BoundsAssumption
<1>1. IsFiniteSet(Conns) /\ Cardinality(Conns) = MaxConn
  <2>1. IsFiniteSet(1 .. MaxConn) /\ Cardinality(1 .. MaxConn) = IF 1 > MaxConn THEN 0 ELSE MaxConn - 1 + 1
    BY <1>0, FS_Interval
  <2> QED
    BY <2>1, <1>0 DEF Conns
<1>2. IsFiniteSet(Inodes) /\ Cardinality(Inodes) = MaxConn + 3
  <2>1. IsFiniteSet(1 .. MaxConn + 3)
         /\ Cardinality(1 .. MaxConn + 3) = IF 1 > MaxConn + 3 THEN 0 ELSE MaxConn + 3 - 1 + 1
    BY <1>0, FS_Interval
  <2> QED
    BY <2>1, <1>0 DEF Inodes
<1>3. IsFiniteSet({h[c].fd : c \in Conns}) /\ Cardinality({h[c].fd : c \in Conns}) <= MaxConn
  <2> DEFINE fd == [c \in Conns |-> h[c].fd]
             S == {h[c].fd : c \in Conns}
  <2>1. fd \in Surjection(Conns, S)
    BY DEF Surjection
  <2> HIDE DEF fd, S
  <2>2. IsFiniteSet(S) /\ Cardinality(S) <= Cardinality(Conns)
    BY <2>1, <1>1, FS_Surjection
  <2> QED
    BY <2>2, <1>1 DEF S
<1>4. IsFiniteSet({full, part}) /\ Cardinality({full, part}) <= 2
  <2>1. IsFiniteSet({full, part}) /\ Cardinality({full, part}) = IF full = part THEN 1 ELSE 2
    <3>1. IsFiniteSet({full}) /\ Cardinality({full}) = 1
      BY FS_Singleton
    <3>2. CASE part = full
      BY <3>1, <3>2
    <3>3. CASE part # full
      <4>1. {full, part} = {full} \cup {part} /\ part \notin {full}
        BY <3>3
      <4> QED
        BY <4>1, <3>1, <3>3, FS_AddElement
    <3> QED
      BY <3>2, <3>3
  <2> QED
    BY <2>1
<1>5. IsFiniteSet(U) /\ Cardinality(U) <= MaxConn + 2
  <2> DEFINE A == {full, part}
             B == {h[c].fd : c \in Conns}
  <2> HIDE DEF A, B
  <2>1. IsFiniteSet(A) /\ IsFiniteSet(B) /\ Cardinality(A) <= 2 /\ Cardinality(B) <= MaxConn
    BY <1>3, <1>4 DEF A, B
  <2>2. IsFiniteSet(A \cup B) /\ IsFiniteSet(A \cap B)
    BY <2>1, FS_Union, FS_Intersection
  <2>3. Cardinality(A \cup B) = Cardinality(A) + Cardinality(B) - Cardinality(A \cap B)
    BY <2>1, FS_Union
  <2>4. Cardinality(A) \in Nat /\ Cardinality(B) \in Nat /\ Cardinality(A \cap B) \in Nat
    BY <2>1, <2>2, FS_CardinalityType
  <2>5. IsFiniteSet(A \cup B) /\ Cardinality(A \cup B) <= MaxConn + 2
    BY <2>1, <2>2, <2>3, <2>4, <1>0
  <2> QED
    BY <2>5 DEF A, B
<1> HIDE DEF U
<1>6. \E i \in Inodes : i \notin U
  <2>1. SUFFICES ASSUME Inodes \subseteq U PROVE FALSE
    OBVIOUS
  <2>2. Cardinality(Inodes) <= Cardinality(U)
    BY <2>1, <1>5, FS_Subset
  <2>3. Cardinality(U) \in Nat
    BY <1>5, FS_CardinalityType
  <2> QED
    BY <2>2, <2>3, <1>0, <1>2, <1>5
<1>7. \A i \in Inodes : i \notin U => Unused(i)
  BY DEF U, Unused
<1> QED
  BY <1>6, <1>7 DEF NewInode

-----------------------------------------------------------------------------
(* The initial states.                                                     *)

LEMMA InitIInv == Init => IInv
<1> SUFFICES ASSUME Init PROVE IInv
  OBVIOUS
<1> USE NowIs, BoundsAssumption
<1>1. 1 \in Versions /\ 1 \in Inodes /\ 1 \in 0 .. Now
  BY DEF Inodes
<1>2. inode \in [Inodes -> Files]
  <2>1. Blank \in Files /\ \A v \in Versions : Copy(v) \in Files
    BY ContentIs, EmptySeq DEF Blank, Files, None
  <2> HIDE DEF Blank, Files
  <2>2. CASE inode = [i \in Inodes |-> Blank]
    BY <2>1, <2>2
  <2>3. CASE \E v \in Versions : inode = [i \in Inodes |-> IF i = 1 THEN Copy(v) ELSE Blank]
    BY <2>1, <2>3
  <2> QED
    BY <2>2, <2>3 DEF Init
<1>3. full = None \/ (full = 1 /\ \E v \in Versions : inode[full] = Copy(v))
  BY <1>1 DEF Init
<1>4. TypeOK
  <2>1. up \in [Conns -> Seq(Requests)] /\ down \in [Conns -> Seq(Answers)]
    BY DEF Init
  <2>2. \A c \in Conns : Len(up[c]) <= Blocks + 2 /\ Len(down[c]) <= Blocks + 3
    BY DEF Init
  <2>3. h \in [Conns -> Handlers]
    <3>1. NoHandler \in Handlers
      BY DEF NoHandler, Handlers, HPC, None
    <3> HIDE DEF NoHandler
    <3> QED
      BY <3>1 DEF Init
  <2>4. attempt \in 0 .. config.server.retries
    BY RetriesIs DEF Init
  <2>5. \A c \in Conns : h[c].pc \in {"recv", "end"} => h[c].fd \in Inodes
    BY DEF Init, NoHandler
  <2>6. closed \in [Conns -> BOOLEAN] /\ seen \in [Conns -> Versions \cup {None, Now}]
    BY DEF Init
  <2>7. /\ stored \in Versions /\ {listed, saw, row} \subseteq Versions \cup {None, Now}
        /\ spc \in SPC /\ ver \in Versions \cup {None} /\ meta \in Versions \cup {None}
        /\ full \in Inodes \cup {None} /\ part \in Inodes \cup {None}
    BY <1>1, <1>3 DEF Init, SPC
  <2>8. /\ sent \in 0 .. Blocks /\ runs \in 0 .. MaxRuns /\ conns \in 0 .. MaxConn
        /\ faults \in 0 .. MaxFaults
    BY DEF Init
  <2>9. config \in Configs /\ force \in BOOLEAN /\ overlap \in BOOLEAN
    BY Zenon DEF Init
  <2> QED
    BY <1>2, <2>1, <2>2, <2>3, <2>4, <2>5, <2>6, <2>7, <2>8, <2>9 DEF TypeOK, Files
<1>5. \A c \in Conns :
        /\ c \in Nat /\ c > 0
        /\ h[c].pc = "none" /\ up[c] = <<>> /\ down[c] = <<>> /\ ~closed[c]
  BY DEF Init, NoHandler, Conns
<1>6. Links /\ RenamedExists
  BY <1>5 DEF Init, Links, RenamedExists, Live
<1>7. /\ VersionsOfWorker /\ VersionsOfClient /\ SeenByWorker /\ SeenByClient
      /\ RequestFirst /\ ConnectionIsFresh /\ StreamGoesOn /\ InStep
  BY <1>5 DEF Init, VersionsOfWorker, VersionsOfClient, SeenByWorker, SeenByClient, RequestFirst,
     ConnectionIsFresh, StreamGoesOn, InStep, Busy, Running, Latest, None
<1>8. Lengths
  BY <1>5 DEF Init, Lengths, Ups
<1>9. OneBusy /\ PartIsNotFull /\ PartOfBusy /\ PartIsOwn /\ RenamedIsOwn /\ MetaTells
      /\ SuccessIsTrue
  BY <1>5 DEF Init, OneBusy, PartIsNotFull, PartOfBusy, PartIsOwn, RenamedIsOwn, MetaTells,
     SuccessIsTrue, Busy, Succeeds, None, PartOf, OwnBlocks, FileOf
<1>10. ReplacedAtOnce
  BY <1>3, ContentIs DEF ReplacedAtOnce, Complete
<1> QED
  BY <1>4, <1>6, <1>7, <1>8, <1>9, <1>10 DEF IInv

-----------------------------------------------------------------------------
(* Types.                                                                  *)

WorkerTypes ==
  /\ config \in Configs /\ stored \in Versions
  /\ listed \in Versions \cup {None, Now} /\ saw \in Versions \cup {None, Now}
  /\ row \in Versions \cup {None, Now}
  /\ spc \in SPC
  /\ attempt \in 0 .. config.server.retries
  /\ ver \in Versions \cup {None} /\ sent \in 0 .. Blocks
  /\ runs \in 0 .. MaxRuns /\ conns \in 0 .. MaxConn /\ faults \in 0 .. MaxFaults
FlagTypes == force \in BOOLEAN /\ overlap \in BOOLEAN
LinkTypes ==
  /\ up \in [Conns -> Seq(Requests)] /\ down \in [Conns -> Seq(Answers)]
  /\ closed \in [Conns -> BOOLEAN] /\ seen \in [Conns -> Versions \cup {None, Now}]
FileTypes ==
  /\ inode \in [Inodes -> Files]
  /\ full \in Inodes \cup {None} /\ part \in Inodes \cup {None}
  /\ meta \in Versions \cup {None}
HandlerTypes ==
  /\ h \in [Conns -> Handlers]
  /\ \A c \in Conns : h[c].pc \in {"recv", "end"} => h[c].fd \in Inodes

LEMMA TypesAre == TypeOK => WorkerTypes /\ FlagTypes /\ LinkTypes /\ FileTypes /\ HandlerTypes
  BY DEF TypeOK, WorkerTypes, FlagTypes, LinkTypes, FileTypes, HandlerTypes, Files

LEMMA TypeOKIs ==
  WorkerTypes /\ FlagTypes /\ LinkTypes /\ FileTypes /\ HandlerTypes
  /\ (\A c \in Conns : Len(up[c]) <= Blocks + 2 /\ Len(down[c]) <= Blocks + 3) => TypeOK
  BY DEF TypeOK, WorkerTypes, FlagTypes, LinkTypes, FileTypes, HandlerTypes, Files

\* The connection the worker has is one of Conns.
LEMMA ConnectionIs == IInv /\ Live => conns \in Conns /\ conns \in Nat /\ conns # 0 /\ ~closed[conns]
  BY BoundsAssumption DEF IInv, TypeOK, Links, Conns

\* A connection the worker makes is the next one.
LEMMA DialIs ==
  ASSUME Dial, WorkerTypes
  PROVE  /\ conns \in Nat /\ conns' = conns + 1 /\ conns' \in Conns /\ conns' \in 0..MaxConn
         /\ h' = [h EXCEPT ![conns'] = [@ EXCEPT !.pc = "idle"]]
         /\ seen' = [seen EXCEPT ![conns'] = saw]
<1>1. /\ conns < MaxConn /\ conns' = conns + 1
      /\ h' = [h EXCEPT ![conns'] = [@ EXCEPT !.pc = "idle"]]
      /\ seen' = [seen EXCEPT ![conns'] = saw]
  BY DEF Dial
<1>2. conns \in Nat /\ MaxConn \in Nat
  BY BoundsAssumption DEF WorkerTypes
<1>3. conns + 1 \in 1..MaxConn /\ conns + 1 \in 0..MaxConn
  BY <1>1, <1>2
<1> QED
  BY <1>1, <1>2, <1>3 DEF Conns

LEMMA WorkerTypesKeep == IInv /\ [Next]_vars => WorkerTypes'
<1> SUFFICES ASSUME IInv, [Next]_vars PROVE WorkerTypes'
  OBVIOUS
<1> USE NowIs, BoundsAssumption DEF vars, server, job, try, link, files, client, others
<1>1. WorkerTypes /\ TypeOK
  BY TypesAre DEF IInv
<1>2. config.server.retries \in Nat \ {0}
  BY <1>1, RetriesIs DEF WorkerTypes
<1>3. Mtime \in Versions \cup {None, Now}
  BY <1>1 DEF TypeOK, Mtime, None
<1>4. CASE Begin
  BY <1>4, <1>1, <1>2, <1>3 DEF Begin, WorkerTypes, Fault, Again, SPC, None, Over
<1>5. CASE List
  BY <1>5, <1>1, <1>2, <1>3 DEF List, WorkerTypes, Fault, Again, SPC, None, Over
<1>6. CASE ListFails
  BY <1>6, <1>1, <1>2, <1>3 DEF ListFails, WorkerTypes, Fault, Again, SPC, None, Over
<1>7. CASE NoControl
  BY <1>7, <1>1, <1>2, <1>3 DEF NoControl, WorkerTypes, Fault, Again, SPC, None, Over
<1>8. CASE Check
  BY <1>8, <1>1, <1>2, <1>3 DEF Check, WorkerTypes, Fault, Again, SPC, None, Over
<1>9. CASE Dial
  <2>1. conns' \in 0..MaxConn
    BY <1>9, <1>1, DialIs
  <2>2. spc' = "put" /\ UNCHANGED <<config, stored, listed, saw, row, attempt, ver, sent, runs, faults>>
    BY <1>9 DEF Dial
  <2> QED
    BY <1>1, <2>1, <2>2 DEF WorkerTypes, SPC
<1>10. CASE DialFails
  BY <1>10, <1>1, <1>2, <1>3 DEF DialFails, WorkerTypes, Fault, Again, SPC, None, Over
<1>11. CASE Killed
  BY <1>11, <1>1, <1>2, <1>3 DEF Killed, WorkerTypes, Fault, Again, SPC, None, Over
<1>12. CASE GiveUp
  BY <1>12, <1>1, <1>2, <1>3 DEF GiveUp, WorkerTypes, Fault, Again, SPC, None, Over
<1>13. CASE Put
  BY <1>13, <1>1, <1>2, <1>3 DEF Put, WorkerTypes, Fault, Again, SPC, None, Over
<1>14. CASE Data
  BY <1>14, <1>1, <1>2, <1>3 DEF Data, WorkerTypes, Fault, Again, SPC, None, Over
<1>15. CASE End
  BY <1>15, <1>1, <1>2, <1>3 DEF End, WorkerTypes, Fault, Again, SPC, None, Over
<1>16. CASE Final
  BY <1>16, <1>1, <1>2, <1>3 DEF Final, WorkerTypes, Fault, Again, SPC, None, Over
<1>17. CASE Resume
  <2>1. conns \in Conns
    BY <1>17, ConnectionIs DEF Resume, Live
  <2>2. Head(down[conns]) \in Answers
    BY <1>1, <1>17, <2>1, ReceiveIs DEF Resume, Answered
  <2>3. Head(down[conns]).offset \in 0 .. Blocks
    BY <2>2 DEF Answers
  <2> QED
    BY <1>1, <1>17, <2>3 DEF WorkerTypes, Resume, SPC
<1>18. ASSUME NEW c \in Conns, Handler(c) \/ LocalError(c) PROVE WorkerTypes'
  <2>1. CASE HandlePut(c)
    BY <2>1, <1>1 DEF HandlePut, WorkerTypes, Fault
  <2>2. CASE Open(c)
    BY <2>2, <1>1 DEF Open, WorkerTypes, Fault
  <2>3. CASE Receives(c)
    BY <2>3, <1>1 DEF Receives, WorkerTypes, Fault
  <2>4. CASE Sticks(c)
    BY <2>4, <1>1 DEF Sticks, WorkerTypes, Fault
  <2>5. CASE ReceivesEnd(c)
    BY <2>5, <1>1 DEF ReceivesEnd, WorkerTypes, Fault
  <2>6. CASE SizeWrong(c)
    BY <2>6, <1>1 DEF SizeWrong, WorkerTypes, Fault
  <2>7. CASE Renames(c)
    BY <2>7, <1>1 DEF Renames, WorkerTypes, Fault
  <2>8. CASE SetsTimes(c)
    BY <2>8, <1>1 DEF SetsTimes, WorkerTypes, Fault
  <2>9. CASE Leaves(c)
    BY <2>9, <1>1 DEF Leaves, WorkerTypes, Fault
  <2>10. CASE Unsupported(c)
    BY <2>10, <1>1 DEF Unsupported, WorkerTypes, Fault
  <2>11. CASE LocalError(c)
    BY <2>11, <1>1 DEF LocalError, WorkerTypes, Fault
  <2> QED
    BY <1>18, <2>1, <2>2, <2>3, <2>4, <2>5, <2>6, <2>7, <2>8, <2>9, <2>10, <2>11 DEF Handler
<1>19. CASE ClientRestarts
  <2>1. faults' \in 0..MaxFaults
    BY <1>19, <1>1 DEF ClientRestarts, Fault, WorkerTypes
  <2>2. UNCHANGED <<config, stored, listed, saw, row, spc, attempt, ver, sent, runs, conns>>
    BY <1>19 DEF ClientRestarts
  <2> QED
    BY <1>1, <2>1, <2>2 DEF WorkerTypes
<1>20. CASE Edit
  BY <1>20, <1>1, <1>3 DEF Edit, WorkerTypes, Fault, None
<1>21. CASE Download
  BY <1>21, <1>1, <1>3 DEF Download, WorkerTypes, Fault, None
<1>22. CASE ServiceLists
  BY <1>22, <1>1, <1>3 DEF ServiceLists, WorkerTypes, Fault, None
<1>23. CASE UNCHANGED vars
  BY <1>23, <1>1, <1>3 DEF WorkerTypes, Fault, None
<1> QED
  BY <1>4, <1>5, <1>6, <1>7, <1>8, <1>9, <1>10, <1>11, <1>12, <1>13, <1>14, <1>15, <1>16, <1>17,
     <1>18, <1>19, <1>20, <1>21, <1>22, <1>23 DEF Next, Command

LEMMA FlagTypesKeep == IInv /\ [Next]_vars => FlagTypes'
<1> SUFFICES ASSUME IInv, [Next]_vars PROVE FlagTypes'
  OBVIOUS
<1> USE DEF vars, server, job, try, link, files, client, others
<1>1. FlagTypes
  BY TypesAre DEF IInv
<1>2. CASE Begin
  BY <1>2, <1>1, Zenon DEF Begin, FlagTypes
<1>3. CASE List
  BY <1>3, <1>1, Zenon DEF List, FlagTypes
<1>4. CASE ListFails
  BY <1>4, <1>1, Zenon DEF ListFails, FlagTypes
<1>5. CASE NoControl
  BY <1>5, <1>1, Zenon DEF NoControl, FlagTypes
<1>6. CASE Check
  BY <1>6, <1>1, Zenon DEF Check, FlagTypes
<1>7. CASE Dial
  BY <1>7, <1>1, Zenon DEF Dial, FlagTypes
<1>8. CASE DialFails
  BY <1>8, <1>1, Zenon DEF DialFails, FlagTypes
<1>9. CASE Killed
  BY <1>9, <1>1, Zenon DEF Killed, FlagTypes
<1>10. CASE GiveUp
  BY <1>10, <1>1, Zenon DEF GiveUp, FlagTypes
<1>11. CASE Put
  BY <1>11, <1>1, Zenon DEF Put, FlagTypes
<1>12. CASE Resume
  BY <1>12, <1>1, Zenon DEF Resume, FlagTypes
<1>13. CASE Data
  BY <1>13, <1>1, Zenon DEF Data, FlagTypes
<1>14. CASE End
  BY <1>14, <1>1, Zenon DEF End, FlagTypes
<1>15. CASE Final
  BY <1>15, <1>1, Zenon DEF Final, FlagTypes
<1>16. ASSUME NEW c \in Conns, Handler(c) \/ LocalError(c) PROVE FlagTypes'
  <2>1. CASE HandlePut(c)
    BY <2>1, <1>1, Zenon DEF HandlePut, FlagTypes
  <2>2. CASE Open(c)
    BY <2>2, <1>1, Zenon DEF Open, FlagTypes
  <2>3. CASE Receives(c)
    BY <2>3, <1>1, Zenon DEF Receives, FlagTypes
  <2>4. CASE Sticks(c)
    BY <2>4, <1>1, Zenon DEF Sticks, FlagTypes
  <2>5. CASE ReceivesEnd(c)
    BY <2>5, <1>1, Zenon DEF ReceivesEnd, FlagTypes
  <2>6. CASE SizeWrong(c)
    BY <2>6, <1>1, Zenon DEF SizeWrong, FlagTypes
  <2>7. CASE Renames(c)
    BY <2>7, <1>1, Zenon DEF Renames, FlagTypes
  <2>8. CASE SetsTimes(c)
    BY <2>8, <1>1, Zenon DEF SetsTimes, FlagTypes
  <2>9. CASE Leaves(c)
    BY <2>9, <1>1, Zenon DEF Leaves, FlagTypes
  <2>10. CASE Unsupported(c)
    BY <2>10, <1>1, Zenon DEF Unsupported, FlagTypes
  <2>11. CASE LocalError(c)
    BY <2>11, <1>1, Zenon DEF LocalError, FlagTypes
  <2> QED
    BY <1>16, <2>1, <2>2, <2>3, <2>4, <2>5, <2>6, <2>7, <2>8, <2>9, <2>10, <2>11 DEF Handler
<1>17. CASE ClientRestarts
  BY <1>17, <1>1, Zenon DEF ClientRestarts, FlagTypes
<1>18. CASE Edit
  BY <1>18, <1>1, Zenon DEF Edit, FlagTypes
<1>19. CASE Download
  BY <1>19, <1>1, Zenon DEF Download, FlagTypes
<1>20. CASE ServiceLists
  BY <1>20, <1>1, Zenon DEF ServiceLists, FlagTypes
<1>21. CASE UNCHANGED vars
  BY <1>21, <1>1, Zenon DEF FlagTypes
<1> QED
  BY <1>2, <1>3, <1>4, <1>5, <1>6, <1>7, <1>8, <1>9, <1>10, <1>11, <1>12, <1>13, <1>14, <1>15,
     <1>16, <1>17, <1>18, <1>19, <1>20, <1>21 DEF Next, Command

\* The worker closes its connection.
LEMMA ClosesIs ==
  ASSUME TypeOK, conns \in Conns, Closes
  PROVE  /\ closed' \in [Conns -> BOOLEAN] /\ closed'[conns] = TRUE
         /\ down' \in [Conns -> Seq(Answers)] /\ down'[conns] = <<>>
         /\ \A c \in Conns : c # conns => closed'[c] = closed[c] /\ down'[c] = down[c]
<1>1. closed \in [Conns -> BOOLEAN] /\ down \in [Conns -> Seq(Answers)] /\ <<>> \in Seq(Answers)
  BY DEF TypeOK
<1>2. closed' = [closed EXCEPT ![conns] = TRUE] /\ down' = [down EXCEPT ![conns] = <<>>]
  BY DEF Closes
<1>3. closed' \in [Conns -> BOOLEAN] /\ closed'[conns] = TRUE
  BY <1>1, <1>2
<1>4. down' \in [Conns -> Seq(Answers)] /\ down'[conns] = <<>>
  BY <1>1, <1>2
<1> QED
  BY <1>1, <1>2, <1>3, <1>4

\* What there is of a file.
LEMMA PartSizeIs ==
  TypeOK => /\ PartSize \in Nat
            /\ \A i \in Inodes : inode[i].data \in Seq(Block) /\ Len(inode[i].data) \in Nat
                              /\ inode[i].mtime \in 0 .. Now
            /\ part # None => part \in Inodes /\ PartSize = Len(inode[part].data)
  BY DEF TypeOK, PartSize, None

\* A frame that is read, and what is known of it.
LEMMA ReadsIs ==
  ASSUME IInv, NEW c \in Conns, up[c] # <<>>
  PROVE  /\ Len(up[c]) \in Nat \ {0} /\ Head(up[c]) = up[c][1] /\ up[c][1] \in Requests
         /\ Reads(c, "PUT") => IsPut(c, 1) /\ up[c][1].block[1] \in Versions
         /\ Reads(c, "DATA") => up[c][1].block \in Versions \X (1 .. Blocks)
<1>1. up[c] \in Seq(Requests)
  BY DEF IInv, TypeOK
<1>2. Len(up[c]) \in Nat \ {0} /\ Head(up[c]) = up[c][1] /\ up[c][1] \in Requests
  BY <1>1, TailIs
<1> QED
  BY <1>2 DEF Reads, IsPut, Requests

LEMMA LinkTypesKeep == IInv /\ [Next]_vars => LinkTypes'
<1> SUFFICES ASSUME IInv, [Next]_vars PROVE LinkTypes'
  OBVIOUS
<1> USE NowIs, BoundsAssumption DEF vars, server, job, try, link, files, client, others
<1>1. LinkTypes /\ WorkerTypes /\ TypeOK
  BY TypesAre DEF IInv
<1>2. conns' \in Nat /\ saw \in Versions \cup {None, Now}
  BY <1>1, WorkerTypesKeep DEF WorkerTypes
<1>3. Live => conns \in Conns
  BY ConnectionIs
<1>4. CASE Begin
  BY <1>4, <1>1 DEF Begin, LinkTypes
<1>5. CASE List
  BY <1>5, <1>1 DEF List, LinkTypes
<1>6. CASE ListFails
  BY <1>6, <1>1 DEF ListFails, LinkTypes
<1>7. CASE NoControl
  BY <1>7, <1>1 DEF NoControl, LinkTypes
<1>8. CASE Check
  BY <1>8, <1>1 DEF Check, LinkTypes
<1>9. CASE Dial
  BY <1>9, <1>1, <1>2 DEF Dial, Conns, LinkTypes
<1>10. CASE DialFails
  BY <1>10, <1>1 DEF DialFails, LinkTypes
<1>11. CASE Killed
  <2>1. CASE conns = 0
    BY <1>11, <1>1, <2>1 DEF Killed, LinkTypes
  <2>2. CASE conns # 0
    <3>1. conns \in Conns /\ Closes
      BY <1>11, <1>1, <2>2 DEF Killed, Conns, WorkerTypes
    <3> QED
      BY <1>11, <1>1, <3>1, ClosesIs DEF Killed, LinkTypes
  <2> QED
    BY <2>1, <2>2
<1>12. CASE GiveUp
  <2>1. conns \in Conns /\ Closes
    BY <1>12, <1>3 DEF GiveUp, Live
  <2> QED
    BY <1>12, <1>1, <2>1, ClosesIs DEF GiveUp, LinkTypes
<1>13. CASE Put
  <2>1. conns \in Conns
    BY <1>13, <1>3 DEF Put, Live
  <2>2. [kind |-> "PUT", block |-> <<stored, 0>>] \in Requests
    BY <1>13, <1>1 DEF Put, WorkerTypes, Requests
  <2> QED
    BY <1>13, <1>1, <2>1, <2>2, SendIs DEF Put, LinkTypes
<1>14. CASE Resume
  <2>1. conns \in Conns /\ down[conns] # <<>>
    BY <1>14, <1>3 DEF Resume, Live, Answered
  <2> QED
    BY <1>14, <1>1, <2>1, ReceiveIs DEF Resume, LinkTypes
<1>15. CASE Data
  <2>1. conns \in Conns
    BY <1>15, <1>3 DEF Data, Live
  <2>2. [kind |-> "DATA", block |-> <<ver, sent'>>] \in Requests
    BY <1>15, <1>1 DEF Data, IInv, VersionsOfWorker, WorkerTypes, Requests
  <2> QED
    BY <1>15, <1>1, <2>1, <2>2, SendIs DEF Data, LinkTypes
<1>16. CASE End
  <2>1. conns \in Conns
    BY <1>16, <1>3 DEF End, Live
  <2>2. [kind |-> "END", block |-> Hole] \in Requests
    BY <1>16, <1>1 DEF End, WorkerTypes, Requests
  <2> QED
    BY <1>16, <1>1, <2>1, <2>2, SendIs DEF End, LinkTypes
<1>17. CASE Final
  <2>1. conns \in Conns /\ Closes
    BY <1>17, <1>3 DEF Final, Live
  <2> QED
    BY <1>17, <1>1, <2>1, ClosesIs DEF Final, LinkTypes
<1>18. ASSUME NEW c \in Conns, Handler(c) \/ LocalError(c) PROVE LinkTypes'
  <2>1. CASE HandlePut(c)
    <3>a. up[c] # <<>> /\ Taken(c)
      BY <2>1 DEF HandlePut, Reads
    <3>b. PICK n \in 0 .. Blocks : Answer(c, "RESUME", n)
      <4>1. PartSize \in Nat
        BY <1>1, PartSizeIs
      <4> QED
        BY <2>1, <4>1 DEF HandlePut
    <3> QED
      BY <2>1, <1>1, <3>a, <3>b, TakenIs, AnswerIs DEF HandlePut, LinkTypes
  <2>2. CASE Open(c)
    BY <2>2, <1>1 DEF Open, LinkTypes
  <2>3. CASE Receives(c)
    <3>1. up[c] # <<>> /\ Taken(c)
      BY <2>3 DEF Receives, Reads
    <3> QED
      BY <2>3, <1>1, <3>1, TakenIs DEF Receives, LinkTypes
  <2>4. CASE Sticks(c)
    BY <2>4, <1>1 DEF Sticks, LinkTypes
  <2>5. CASE ReceivesEnd(c)
    <3>1. up[c] # <<>> /\ Taken(c)
      BY <2>5 DEF ReceivesEnd, Reads
    <3> QED
      BY <2>5, <1>1, <3>1, TakenIs DEF ReceivesEnd, LinkTypes
  <2>6. CASE SizeWrong(c)
    <3>2. Answer(c, "BAD", 0) /\ 0 \in 0 .. Blocks
      BY <2>6 DEF SizeWrong
    <3> QED
      BY <2>6, <1>1, <3>2, AnswerIs DEF SizeWrong, LinkTypes
  <2>7. CASE Renames(c)
    BY <2>7, <1>1 DEF Renames, LinkTypes
  <2>8. CASE SetsTimes(c)
    <3>2. Answer(c, "OK", 0) /\ 0 \in 0 .. Blocks
      BY <2>8 DEF SetsTimes
    <3> QED
      BY <2>8, <1>1, <3>2, AnswerIs DEF SetsTimes, LinkTypes
  <2>9. CASE Leaves(c)
    BY <2>9, <1>1 DEF Leaves, Goes, LinkTypes
  <2>10. CASE Unsupported(c)
    <3>1. up[c] # <<>> /\ Taken(c)
      BY <2>10 DEF Unsupported, Reads
    <3>2. Answer(c, "BAD", 0) /\ 0 \in 0 .. Blocks
      BY <2>10 DEF Unsupported
    <3> QED
      BY <2>10, <1>1, <3>1, TakenIs, <3>2, AnswerIs DEF Unsupported, LinkTypes
  <2>11. CASE LocalError(c)
    <3>1. Answer(c, "BAD", 0) /\ 0 \in 0 .. Blocks
      BY <2>11 DEF LocalError
    <3>2. up' \in [Conns -> Seq(Requests)]
      <4>1. CASE UNCHANGED up
        BY <1>1, <4>1 DEF LinkTypes
      <4>2. CASE Reads(c, "DATA") /\ Taken(c)
        BY <1>1, <4>2, TakenIs DEF Reads
      <4> QED
        BY <2>11, <4>1, <4>2 DEF LocalError
    <3> QED
      BY <2>11, <1>1, <3>1, <3>2, AnswerIs DEF LocalError, LinkTypes
  <2> QED
    BY <1>18, <2>1, <2>2, <2>3, <2>4, <2>5, <2>6, <2>7, <2>8, <2>9, <2>10, <2>11 DEF Handler
<1>19. CASE ClientRestarts
  BY <1>19, <1>1 DEF ClientRestarts, LinkTypes
<1>20. CASE Edit
  BY <1>20, <1>1 DEF Edit, LinkTypes
<1>21. CASE Download
  BY <1>21, <1>1 DEF Download, LinkTypes
<1>22. CASE ServiceLists
  BY <1>22, <1>1 DEF ServiceLists, LinkTypes
<1>23. CASE UNCHANGED vars
  BY <1>23, <1>1 DEF LinkTypes
<1> QED
  BY <1>4, <1>5, <1>6, <1>7, <1>8, <1>9, <1>10, <1>11, <1>12, <1>13, <1>14, <1>15, <1>16, <1>17,
     <1>18, <1>19, <1>20, <1>21, <1>22, <1>23 DEF Next, Command

\* What Open leaves: a .part of the resumed length, with the blocks that were
\* there.
LEMMA OpenIs ==
  ASSUME IInv, NEW c \in Conns, Open(c)
  PROVE  /\ part' \in Inodes /\ part' # None /\ h'[c].fd = part'
         /\ inode' \in [Inodes -> Files]
         /\ part' = part \/ (part = None /\ part' # full)
         /\ Len(inode'[part'].data) = h[c].pos /\ inode'[part'].mtime = Now
         /\ h[c].pos <= PartSize =>
              \A k \in 1 .. h[c].pos : inode'[part'].data[k] = inode[part].data[k]
         /\ \A i \in Inodes : i # part' => inode'[i] = inode[i]
<1> DEFINE i == IF part = None THEN NewInode ELSE part
           data == IF part = None THEN <<>> ELSE inode[part].data
           t == Truncated(data, h[c].pos)
           f == [data |-> t, mtime |-> Now]
<1>1. TypeOK /\ inode \in [Inodes -> Files] /\ part \in Inodes \cup {None} /\ h \in [Conns -> Handlers]
  BY TypesAre DEF IInv, FileTypes, HandlerTypes
<1>2. i \in Inodes /\ i # None
  BY <1>1, NewInodeIs DEF Inodes, None
<1>3. data \in Seq(Block) /\ h[c].pos \in Nat /\ Len(data) = PartSize
  BY <1>1 DEF Files, Handlers, PartSize
<1>4. /\ f.data \in Seq(Block) /\ Len(f.data) = h[c].pos /\ f.mtime = Now /\ f \in Files
      /\ h[c].pos <= Len(data) => \A k \in 1 .. h[c].pos : f.data[k] = data[k]
  <2> HIDE DEF data
  <2>1. /\ t \in Seq(Block) /\ Len(t) = h[c].pos
        /\ h[c].pos <= Len(data) => \A k \in 1 .. h[c].pos : t[k] = data[k]
    BY <1>3, TruncatedIs
  <2> HIDE DEF t
  <2> QED
    BY <2>1, NowIs DEF Files
<1>5. part' = i /\ inode' = [inode EXCEPT ![i] = f] /\ h'[c].fd = i
  BY <1>1 DEF Open, Handlers
<1>6. part = None => i # full
  BY <1>1, NewInodeIs DEF Unused
<1>7. h[c].pos <= PartSize => \A k \in 1 .. h[c].pos : f.data[k] = inode[part].data[k]
  <2>1. CASE part # None
    BY <2>1, <1>3, <1>4
  <2>2. CASE part = None
    BY <2>2, <1>3 DEF PartSize
  <2> QED
    BY <2>1, <2>2
<1>8. part = None \/ i = part
  OBVIOUS
<1> HIDE DEF i, f, t, data
<1>9. inode'[i] = f /\ inode' \in [Inodes -> Files] /\ \A j \in Inodes : j # i => inode'[j] = inode[j]
  BY <1>1, <1>2, <1>4, <1>5
<1> QED
  BY <1>2, <1>4, <1>5, <1>6, <1>7, <1>8, <1>9

\* What Receives leaves: a block more in the inode the goroutine has open.
LEMMA ReceivesIs ==
  ASSUME IInv, NEW c \in Conns, Receives(c)
  PROVE  /\ h[c].fd \in Inodes /\ inode' \in [Inodes -> Files] /\ h[c].pos \in Nat
         /\ up[c] # <<>> /\ Taken(c) /\ up[c][1].block \in Versions \X (1 .. Blocks)
         /\ Len(inode[h[c].fd].data) = h[c].pos =>
              /\ Len(inode'[h[c].fd].data) = h[c].pos + 1
              /\ \A k \in 1 .. h[c].pos : inode'[h[c].fd].data[k] = inode[h[c].fd].data[k]
              /\ inode'[h[c].fd].data[h[c].pos + 1] = up[c][1].block
         /\ inode'[h[c].fd].mtime = Now
         /\ \A i \in Inodes : i # h[c].fd => inode'[i] = inode[i]
<1> DEFINE i == h[c].fd
           n == h[c].pos + 1
           b == up[c][1].block
           w == Written(inode[i].data, n, b)
           f == [data |-> w, mtime |-> Now]
<1>1. inode \in [Inodes -> Files] /\ h \in [Conns -> Handlers] /\ i \in Inodes
  BY TypesAre DEF IInv, FileTypes, HandlerTypes, Receives
<1>2. inode[i].data \in Seq(Block) /\ h[c].pos \in Nat /\ n \in Nat \ {0}
  BY <1>1 DEF Files, Handlers
<1>3. up[c] # <<>> /\ Taken(c) /\ b \in Versions \X (1 .. Blocks) /\ Head(up[c]) = up[c][1]
  BY ReadsIs DEF Receives, Reads
<1>4. b \in Block
  BY <1>3 DEF Block
<1>5. inode' = [inode EXCEPT ![i] = f]
  BY <1>1, <1>3 DEF Receives
<1>n. n = h[c].pos + 1
  OBVIOUS
<1> HIDE DEF n, b
<1>6. w \in Seq(Block) /\ (Len(inode[i].data) = n - 1 =>
        /\ Len(w) = n
        /\ \A k \in 1 .. n - 1 : w[k] = inode[i].data[k]
        /\ w[n] = b)
  BY <1>2, <1>4, WrittenIs
<1> HIDE DEF w
<1>7. f \in Files /\ f.data = w /\ f.mtime = Now
  BY <1>6, NowIs DEF Files
<1> HIDE DEF f, i
<1>8. inode'[i] = f /\ inode' \in [Inodes -> Files] /\ \A j \in Inodes : j # i => inode'[j] = inode[j]
  BY <1>1, <1>5, <1>7
<1>9. n - 1 = h[c].pos
  BY <1>2, <1>n
<1> QED
  BY <1>1, <1>2, <1>3, <1>6, <1>7, <1>8, <1>9, <1>n DEF i, b

LEMMA FileTypesKeep == IInv /\ [Next]_vars => FileTypes'
<1> SUFFICES ASSUME IInv, [Next]_vars PROVE FileTypes'
  OBVIOUS
<1> USE NowIs, BoundsAssumption DEF vars, server, job, try, link, files, client, others
<1>1. /\ FileTypes /\ WorkerTypes /\ HandlerTypes /\ TypeOK /\ Links /\ RenamedExists
      /\ h \in [Conns -> Handlers]
  BY TypesAre DEF IInv, HandlerTypes
<1>2. \A c \in Conns : h[c].ver \in Versions \cup {None} /\ h[c].ver \in 0 .. Now
  BY <1>1 DEF Handlers, None
<1>3. CASE Begin
  BY <1>3, <1>1 DEF Begin, FileTypes
<1>4. CASE List
  BY <1>4, <1>1 DEF List, FileTypes
<1>5. CASE ListFails
  BY <1>5, <1>1 DEF ListFails, FileTypes
<1>6. CASE NoControl
  BY <1>6, <1>1 DEF NoControl, FileTypes
<1>7. CASE Check
  BY <1>7, <1>1 DEF Check, FileTypes
<1>8. CASE Dial
  BY <1>8, <1>1 DEF Dial, FileTypes
<1>9. CASE DialFails
  BY <1>9, <1>1 DEF DialFails, FileTypes
<1>10. CASE Killed
  BY <1>10, <1>1 DEF Killed, FileTypes
<1>11. CASE GiveUp
  BY <1>11, <1>1 DEF GiveUp, FileTypes
<1>12. CASE Put
  BY <1>12, <1>1 DEF Put, FileTypes
<1>13. CASE Resume
  BY <1>13, <1>1 DEF Resume, FileTypes
<1>14. CASE Data
  BY <1>14, <1>1 DEF Data, FileTypes
<1>15. CASE End
  BY <1>15, <1>1 DEF End, FileTypes
<1>16. CASE Final
  BY <1>16, <1>1 DEF Final, FileTypes
<1>17. ASSUME NEW c \in Conns, Handler(c) \/ LocalError(c) PROVE FileTypes'
  <2>1. CASE HandlePut(c)
    BY <2>1, <1>1 DEF HandlePut, None, FileTypes
  <2>2. CASE Open(c)
    <3>1. meta' \in Versions \cup {None}
      BY <2>2, <1>1, <1>2 DEF Open, FileTypes
    <3> QED
      BY <2>2, <1>1, <3>1, OpenIs DEF Open, FileTypes
  <2>3. CASE Receives(c)
    BY <2>3, <1>1, ReceivesIs DEF Receives, FileTypes
  <2>4. CASE Sticks(c)
    BY <2>4, <1>1 DEF Sticks, FileTypes
  <2>5. CASE ReceivesEnd(c)
    BY <2>5, <1>1 DEF ReceivesEnd, FileTypes
  <2>6. CASE SizeWrong(c)
    BY <2>6, <1>1 DEF SizeWrong, None, FileTypes
  <2>7. CASE Renames(c)
    BY <2>7, <1>1 DEF Renames, FileTypes
  <2>8. CASE SetsTimes(c)
    <3>1. full \in Inodes /\ inode[full] \in Files
      BY <2>8, <1>1 DEF SetsTimes, RenamedExists, FileTypes
    <3>2. [inode[full] EXCEPT !.mtime = h[c].ver] \in Files
      BY <1>2, <3>1 DEF Files
    <3> QED
      BY <2>8, <1>1, <3>1, <3>2 DEF SetsTimes, FileTypes
  <2>9. CASE Leaves(c)
    BY <2>9, <1>1 DEF Leaves, FileTypes
  <2>10. CASE Unsupported(c)
    BY <2>10, <1>1 DEF Unsupported, FileTypes
  <2>11. CASE LocalError(c)
    BY <2>11, <1>1, <1>2 DEF LocalError, FileTypes
  <2> QED
    BY <1>17, <2>1, <2>2, <2>3, <2>4, <2>5, <2>6, <2>7, <2>8, <2>9, <2>10, <2>11 DEF Handler
<1>18. CASE ClientRestarts
  BY <1>18, <1>1 DEF ClientRestarts, FileTypes
<1>19. CASE Edit
  <2>1. PICK v \in Versions : full' = NewInode /\ inode' = [inode EXCEPT ![NewInode] = Copy(v)]
    BY <1>19 DEF Edit
  <2>2. NewInode \in Inodes /\ Copy(v) \in Files
    BY <1>1, NewInodeIs, ContentIs
  <2> QED
    BY <1>19, <1>1, <2>1, <2>2 DEF Edit, FileTypes
<1>20. CASE Download
  BY <1>20, <1>1 DEF Download, FileTypes
<1>21. CASE ServiceLists
  BY <1>21, <1>1 DEF ServiceLists, FileTypes
<1>22. CASE UNCHANGED vars
  BY <1>22, <1>1 DEF FileTypes
<1> QED
  BY <1>3, <1>4, <1>5, <1>6, <1>7, <1>8, <1>9, <1>10, <1>11, <1>12, <1>13, <1>14, <1>15, <1>16,
     <1>17, <1>18, <1>19, <1>20, <1>21, <1>22 DEF Next, Command

LEMMA HandlerChanges ==
  ASSUME HandlerTypes, NEW c \in Conns, NEW r \in Handlers,
         r.pc \in {"recv", "end"} => r.fd \in Inodes, h' = [h EXCEPT ![c] = r]
  PROVE  HandlerTypes'
BY DEF HandlerTypes

LEMMA HandlerTypesKeep == IInv /\ [Next]_vars => HandlerTypes'
<1> SUFFICES ASSUME IInv, [Next]_vars PROVE HandlerTypes'
  OBVIOUS
<1> USE NowIs, BoundsAssumption DEF vars, server, job, try, link, files, client, others
<1>1. HandlerTypes /\ WorkerTypes /\ TypeOK
  BY TypesAre DEF IInv
<1>2. NoHandler \in Handlers /\ \A p \in {"idle", "gone"} : [NoHandler EXCEPT !.pc = p] \in Handlers
  BY DEF NoHandler, Handlers, HPC, None
<1>3. CASE Begin
  BY <1>3, <1>1 DEF Begin, HandlerTypes
<1>4. CASE List
  BY <1>4, <1>1 DEF List, HandlerTypes
<1>5. CASE ListFails
  BY <1>5, <1>1 DEF ListFails, HandlerTypes
<1>6. CASE NoControl
  BY <1>6, <1>1 DEF NoControl, HandlerTypes
<1>7. CASE Check
  BY <1>7, <1>1 DEF Check, HandlerTypes
<1>8. CASE Dial
  <2>1. h' = [h EXCEPT ![conns'] = [@ EXCEPT !.pc = "idle"]] /\ conns' \in Conns
    BY <1>8, <1>1, DialIs
  <2>2. h[conns'] \in Handlers
    BY <1>1, <2>1 DEF HandlerTypes
  <2>3. /\ [h[conns'] EXCEPT !.pc = "idle"] \in Handlers
        /\ [h[conns'] EXCEPT !.pc = "idle"].pc = "idle"
    BY <2>2 DEF Handlers, HPC
  <2> QED
    BY <1>1, <2>1, <2>3, HandlerChanges
<1>9. CASE DialFails
  BY <1>9, <1>1 DEF DialFails, HandlerTypes
<1>10. CASE Killed
  BY <1>10, <1>1 DEF Killed, HandlerTypes
<1>11. CASE GiveUp
  BY <1>11, <1>1 DEF GiveUp, HandlerTypes
<1>12. CASE Put
  BY <1>12, <1>1 DEF Put, HandlerTypes
<1>13. CASE Resume
  BY <1>13, <1>1 DEF Resume, HandlerTypes
<1>14. CASE Data
  BY <1>14, <1>1 DEF Data, HandlerTypes
<1>15. CASE End
  BY <1>15, <1>1 DEF End, HandlerTypes
<1>16. CASE Final
  BY <1>16, <1>1 DEF Final, HandlerTypes
<1>17. ASSUME NEW c \in Conns, Handler(c) \/ LocalError(c) PROVE HandlerTypes'
  <2>1. CASE HandlePut(c)
    <3>1. up[c][1].block[1] \in Versions /\ Head(up[c]) = up[c][1]
      BY <2>1, ReadsIs DEF HandlePut, Reads
    <3>2. PartSize \in Nat
      BY <1>1, PartSizeIs
    <3>3. PICK n \in 0 .. Blocks :
            h' = [h EXCEPT ![c] = [@ EXCEPT !.pc = "open", !.ver = up[c][1].block[1], !.pos = n]]
      <4> DEFINE n == IF PartSize > 0 /\ (meta # Head(up[c]).block[1] \/ PartSize > Blocks)
                      THEN 0 ELSE PartSize
      <4>1. n \in 0 .. Blocks
        BY <3>2
      <4>2. h' = [h EXCEPT ![c] = [@ EXCEPT !.pc = "open", !.ver = Head(up[c]).block[1], !.pos = n]]
        BY <2>1 DEF HandlePut
      <4> HIDE DEF n
      <4> QED
        BY <3>1, <4>1, <4>2
    <3>4. h[c] \in Handlers
      BY <1>1 DEF HandlerTypes
    <3>5. /\ [h[c] EXCEPT !.pc = "open", !.ver = up[c][1].block[1], !.pos = n] \in Handlers
          /\ [h[c] EXCEPT !.pc = "open", !.ver = up[c][1].block[1], !.pos = n].pc = "open"
      BY <3>1, <3>4 DEF Handlers, HPC
    <3> QED
      BY <1>1, <3>3, <3>5, HandlerChanges
  <2>2. CASE Open(c)
    <3>1. PICK i \in Inodes : h' = [h EXCEPT ![c] = [@ EXCEPT !.pc = "recv", !.fd = i]]
      <4>1. NewInode \in Inodes
        BY <1>1, NewInodeIs
      <4> QED
        BY <2>2, <1>1, <4>1 DEF Open, TypeOK
    <3>2. h[c] \in Handlers
      BY <1>1 DEF HandlerTypes
    <3>3. [h[c] EXCEPT !.pc = "recv", !.fd = i] \in Handlers
      BY <3>2 DEF Handlers, HPC
    <3>4. [h[c] EXCEPT !.pc = "recv", !.fd = i].fd \in Inodes
      BY <3>2 DEF Handlers
    <3> QED
      BY <1>1, <3>1, <3>3, <3>4, HandlerChanges
  <2>3. CASE Receives(c)
    <3>1. h' = [h EXCEPT ![c].pos = h[c].pos + 1] /\ h[c].pos < Blocks
      BY <2>3 DEF Receives
    <3>2. h[c] \in Handlers /\ (h[c].pc \in {"recv", "end"} => h[c].fd \in Inodes)
      BY <1>1 DEF HandlerTypes
    <3>3. h[c].pos + 1 \in 0..Blocks
      BY <3>1, <3>2, BoundsAssumption DEF Handlers
    <3>4. [h[c] EXCEPT !.pos = h[c].pos + 1] \in Handlers
      BY <3>2, <3>3 DEF Handlers
    <3>5. /\ [h[c] EXCEPT !.pos = h[c].pos + 1].pc = h[c].pc
          /\ [h[c] EXCEPT !.pos = h[c].pos + 1].fd = h[c].fd
      BY <3>2 DEF Handlers
    <3>6. h' = [h EXCEPT ![c] = [h[c] EXCEPT !.pos = h[c].pos + 1]]
      BY <3>1
    <3> QED
      BY <1>1, <3>2, <3>4, <3>5, <3>6, HandlerChanges
  <2>4. CASE Sticks(c)
    BY <2>4, <1>1, <1>2 DEF Sticks, HandlerTypes, Handlers, HPC, Step
  <2>5. CASE ReceivesEnd(c)
    BY <2>5, <1>1, <1>2 DEF ReceivesEnd, HandlerTypes, Handlers, HPC, Step
  <2>6. CASE SizeWrong(c)
    BY <2>6, <1>1, <1>2 DEF SizeWrong, Idle, NoHandler, HandlerTypes
  <2>7. CASE Renames(c)
    BY <2>7, <1>1, <1>2 DEF Renames, HandlerTypes, Handlers, HPC, Step
  <2>8. CASE SetsTimes(c)
    BY <2>8, <1>1, <1>2 DEF SetsTimes, Idle, NoHandler, HandlerTypes
  <2>9. CASE Leaves(c)
    BY <2>9, <1>1, <1>2 DEF Leaves, Goes, NoHandler, HandlerTypes
  <2>10. CASE Unsupported(c)
    BY <2>10, <1>1 DEF Unsupported, HandlerTypes
  <2>11. CASE LocalError(c)
    BY <2>11, <1>1, <1>2 DEF LocalError, Idle, NoHandler, HandlerTypes
  <2> QED
    BY <1>17, <2>1, <2>2, <2>3, <2>4, <2>5, <2>6, <2>7, <2>8, <2>9, <2>10, <2>11 DEF Handler
<1>18. CASE ClientRestarts
  <2>1. h' = [c \in Conns |-> IF h[c].pc = "none" THEN h[c] ELSE [NoHandler EXCEPT !.pc = "gone"]]
    BY <1>18 DEF ClientRestarts
  <2>2. h' \in [Conns -> Handlers]
    BY <1>1, <1>2, <2>1 DEF HandlerTypes
  <2> QED
    BY <1>1, <2>1, <2>2 DEF HandlerTypes, NoHandler
<1>19. CASE Edit
  BY <1>19, <1>1 DEF Edit, HandlerTypes
<1>20. CASE Download
  BY <1>20, <1>1 DEF Download, HandlerTypes
<1>21. CASE ServiceLists
  BY <1>21, <1>1 DEF ServiceLists, HandlerTypes
<1>22. CASE UNCHANGED vars
  BY <1>22, <1>1 DEF HandlerTypes
<1> QED
  BY <1>3, <1>4, <1>5, <1>6, <1>7, <1>8, <1>9, <1>10, <1>11, <1>12, <1>13, <1>14, <1>15, <1>16,
     <1>17, <1>18, <1>19, <1>20, <1>21, <1>22 DEF Next, Command

-----------------------------------------------------------------------------
(* What the actions leave alone.                                           *)

\* A goroutine touches only its own connection, and nothing of the worker's.
OnlyItsOwn(c) ==
  /\ UNCHANGED <<server, conns, seen, closed>>
  /\ \A d \in Conns : d # c => h'[d] = h[d] /\ up'[d] = up[d] /\ down'[d] = down[d]
  /\ h[c].pc # "none" /\ h'[c].pc # "none"
  /\ closed[c] => down'[c] = down[c]

LEMMA HandlerTouches ==
  ASSUME IInv, NEW c \in Conns, Handler(c) \/ LocalError(c)
  PROVE  OnlyItsOwn(c)
<1> USE DEF link, files, client
<1>1. /\ up \in [Conns -> Seq(Requests)] /\ down \in [Conns -> Seq(Answers)]
      /\ h \in [Conns -> Handlers]
  BY DEF IInv, TypeOK
<1>2. \A kind, offset : Answer(c, kind, offset) =>
        (\A d \in Conns : d # c => down'[d] = down[d]) /\ (closed[c] => down'[c] = down[c])
  BY <1>1 DEF Answer
<1>3. /\ Taken(c) => \A d \in Conns : d # c => up'[d] = up[d]
      /\ \A pc \in HPC \ {"none"} : Step(c, pc) =>
           h'[c].pc # "none" /\ \A d \in Conns : d # c => h'[d] = h[d]
      /\ Idle(c) => h'[c].pc # "none" /\ \A d \in Conns : d # c => h'[d] = h[d]
      /\ Goes(c) => h'[c].pc # "none" /\ \A d \in Conns : d # c => h'[d] = h[d] /\ up'[d] = up[d]
  BY <1>1 DEF Taken, Step, Idle, Goes, HPC, NoHandler, Handlers
<1>4. CASE HandlePut(c)
  <2>1. PICK v, n : h' = [h EXCEPT ![c] = [@ EXCEPT !.pc = "open", !.ver = v, !.pos = n]]
    BY <1>4 DEF HandlePut
  <2>2. h'[c].pc = "open" /\ \A d \in Conns : d # c => h'[d] = h[d]
    BY <1>1, <2>1 DEF Handlers
  <2> QED
    BY <1>4, <1>2, <1>3, <2>2 DEF OnlyItsOwn, HandlePut
<1>5. CASE Open(c)
  <2>1. PICK i : h' = [h EXCEPT ![c] = [@ EXCEPT !.pc = "recv", !.fd = i]]
    BY <1>5 DEF Open
  <2>2. h'[c].pc = "recv" /\ \A d \in Conns : d # c => h'[d] = h[d]
    BY <1>1, <2>1 DEF Handlers
  <2> QED
    BY <1>5, <2>2 DEF OnlyItsOwn, Open
<1>6. CASE Receives(c)
  <2>1. h' = [h EXCEPT ![c].pos = h[c].pos + 1]
    BY <1>6 DEF Receives
  <2>2. h'[c].pc = "recv" /\ \A d \in Conns : d # c => h'[d] = h[d]
    BY <1>6, <1>1, <2>1 DEF Receives, Handlers
  <2> QED
    BY <1>6, <1>3, <2>2 DEF OnlyItsOwn, Receives
<1>7. CASE Sticks(c)
  BY <1>7, <1>2, <1>3 DEF OnlyItsOwn, Sticks, HPC
<1>8. CASE ReceivesEnd(c)
  BY <1>8, <1>2, <1>3 DEF OnlyItsOwn, ReceivesEnd, HPC
<1>9. CASE SizeWrong(c)
  BY <1>9, <1>2, <1>3 DEF OnlyItsOwn, SizeWrong, HPC
<1>10. CASE Renames(c)
  BY <1>10, <1>2, <1>3 DEF OnlyItsOwn, Renames, HPC
<1>11. CASE SetsTimes(c)
  BY <1>11, <1>2, <1>3 DEF OnlyItsOwn, SetsTimes, HPC
<1>12. CASE Leaves(c)
  BY <1>12, <1>2, <1>3 DEF OnlyItsOwn, Leaves, HPC
<1>13. CASE Unsupported(c)
  BY <1>13, <1>2, <1>3 DEF OnlyItsOwn, Unsupported, HPC
<1>14. CASE LocalError(c)
  BY <1>14, <1>2, <1>3 DEF OnlyItsOwn, LocalError, HPC
<1> QED
  BY <1>4, <1>5, <1>6, <1>7, <1>8, <1>9, <1>10, <1>11, <1>12, <1>13, <1>14 DEF Handler

-----------------------------------------------------------------------------
(* The connections.                                                        *)

\* A frame the worker sends is in its own connection.
LEMMA SendTouches ==
  ASSUME IInv, Put \/ Data \/ End
  PROVE  /\ conns \in Conns /\ ~closed[conns] /\ Live
         /\ Len(up'[conns]) = Len(up[conns]) + 1
         /\ \A k \in 1 .. Len(up[conns]) : up'[conns][k] = up[conns][k]
         /\ up'[conns][Len(up[conns]) + 1] =
              (IF Put THEN [kind |-> "PUT", block |-> <<stored, 0>>]
               ELSE IF Data THEN [kind |-> "DATA", block |-> <<ver, sent + 1>>]
               ELSE [kind |-> "END", block |-> Hole])
         /\ \A c \in Conns : c # conns => up'[c] = up[c]
<1>1. TypeOK /\ WorkerTypes /\ Live /\ conns \in Conns /\ ~closed[conns]
  BY ConnectionIs, TypesAre DEF IInv, Put, Data, End, Live
<1> DEFINE f == IF Put THEN [kind |-> "PUT", block |-> <<stored, 0>>]
                ELSE IF Data THEN [kind |-> "DATA", block |-> <<ver, sent + 1>>]
                ELSE [kind |-> "END", block |-> Hole]
<1>2. f \in Requests
  <2>1. stored \in Versions
    BY <1>1 DEF WorkerTypes
  <2>2. Data => ver \in Versions /\ sent + 1 \in 1 .. Blocks
    BY <1>1, BoundsAssumption DEF WorkerTypes, Data, IInv, VersionsOfWorker
  <2> QED
    BY <2>1, <2>2 DEF Requests
<1>3. Send(f)
  BY DEF Put, Data, End
<1> HIDE DEF f
<1>4. /\ Len(up'[conns]) = Len(up[conns]) + 1
      /\ \A k \in 1 .. Len(up[conns]) : up'[conns][k] = up[conns][k]
      /\ up'[conns][Len(up[conns]) + 1] = f
      /\ \A c \in Conns : c # conns => up'[c] = up[c]
  BY <1>1, <1>2, <1>3, SendIs
<1> QED
  BY <1>1, <1>4 DEF f

\* A block or an END adds no PUT to what is on a connection.
LEMMA SendAddsNoPut ==
  ASSUME IInv, Data \/ End, NEW c \in Conns, NEW i \in 1 .. Len(up'[c]), IsPut(c, i)'
  PROVE  i \in 1 .. Len(up[c]) /\ up'[c][i] = up[c][i] /\ IsPut(c, i)
<1>1. conns \in Conns /\ Len(up'[conns]) = Len(up[conns]) + 1
  BY SendTouches
<1>2. \A k \in 1 .. Len(up[conns]) : up'[conns][k] = up[conns][k]
  BY SendTouches
<1>3. \A d \in Conns : d # conns => up'[d] = up[d]
  BY SendTouches
<1>4. up'[conns][Len(up[conns]) + 1].kind # "PUT"
  BY SendTouches DEF Put, Data, End
<1>5. Len(up[conns]) \in Nat
  BY <1>1 DEF IInv, TypeOK
<1>6. ~(c = conns /\ i = Len(up[conns]) + 1)
  BY <1>4 DEF IsPut
<1>7. i \in 1 .. Len(up[c]) /\ up'[c][i] = up[c][i]
  <2>1. CASE c = conns
    BY <2>1, <1>1, <1>2, <1>5, <1>6
  <2>2. CASE c # conns
    BY <2>2, <1>3
  <2> QED
    BY <2>1, <2>2
<1> QED
  BY <1>7 DEF IsPut

LEMMA LinksKeep == IInv /\ [Next]_vars => Links'
<1> SUFFICES ASSUME IInv, [Next]_vars PROVE Links'
  OBVIOUS
<1> USE NowIs, BoundsAssumption DEF vars, server, job, try, link, files, client, others
<1>1. /\ TypeOK /\ Links /\ WorkerTypes
      /\ up \in [Conns -> Seq(Requests)] /\ down \in [Conns -> Seq(Answers)]
      /\ h \in [Conns -> Handlers] /\ closed \in [Conns -> BOOLEAN]
      /\ conns \in Nat /\ conns \in 0 .. MaxConn
  BY TypesAre DEF IInv, LinkTypes, HandlerTypes, WorkerTypes
<1>2. Live => conns \in Conns /\ conns # 0
  BY ConnectionIs
<1>3. \A c \in Conns : c \in Nat /\ c # 0
  BY DEF Conns
<1>4. CASE Begin
  BY <1>4, <1>1, <1>3 DEF Begin, Over, Links, Live
<1>5. CASE List
  BY <1>5, <1>1, <1>3 DEF List, Links, Live
<1>6. CASE ListFails
  BY <1>6, <1>1, <1>3 DEF ListFails, Links, Live
<1>7. CASE NoControl
  BY <1>7, <1>1, <1>3 DEF NoControl, Links, Live
<1>8. CASE Check
  BY <1>8, <1>1, <1>3 DEF Check, Links, Live
<1>9. CASE Dial
  <2>1. conns' = conns + 1 /\ conns' \in Conns /\ conns' \in Nat
    BY <1>9, <1>1 DEF Dial, Conns
  <2>2. h'[conns'].pc = "idle" /\ \A c \in Conns : c # conns' => h'[c] = h[c]
    BY <1>9, <1>1, <2>1 DEF Dial, Handlers
  <2>3. conns # 0 => closed[conns]
    BY <1>9, <1>1 DEF Dial, Links, Live
  <2> QED
    BY <1>9, <1>1, <1>3, <2>1, <2>2, <2>3 DEF Dial, Links, Live
<1>10. CASE DialFails
  BY <1>10, <1>1, <1>3 DEF DialFails, Again, Links, Live
<1>11. CASE Killed
  <2>1. CASE conns = 0
    BY <1>11, <1>1, <1>2, <1>3, <2>1 DEF Killed, Links, Live
  <2>2. CASE conns # 0
    <3>1. conns \in Conns /\ Closes
      BY <1>11, <1>1, <2>2 DEF Killed, Conns
    <3> QED
      BY <1>11, <1>1, <1>3, <3>1, ClosesIs DEF Killed, Links, Live
  <2> QED
    BY <2>1, <2>2
<1>12. CASE GiveUp
  <2>1. conns \in Conns /\ Closes
    BY <1>12, <1>2 DEF GiveUp, Live
  <2>2. spc' \notin {"put", "resume", "data", "final"}
    BY <1>12 DEF GiveUp, Again
  <2> QED
    BY <1>12, <1>1, <1>3, <2>1, <2>2, ClosesIs DEF GiveUp, Links, Live
<1>13. CASE Put
  <2>1. conns \in Conns /\ \A c \in Conns : c # conns => up'[c] = up[c]
    BY <1>13, SendTouches
  <2> QED
    BY <1>13, <1>1, <1>2, <1>3, <2>1 DEF Put, Links, Live
<1>14. CASE Resume
  <2>1. conns \in Conns /\ ~closed[conns] /\ down[conns] # <<>>
    BY <1>14, ConnectionIs DEF Resume, Live, Answered
  <2>2. \A c \in Conns : c # conns => down'[c] = down[c]
    BY <1>14, <1>1, <2>1, ReceiveIs DEF Resume
  <2> QED
    BY <1>14, <1>1, <1>3, <2>1, <2>2 DEF Resume, Links, Live
<1>15. CASE Data
  <2>1. conns \in Conns /\ \A c \in Conns : c # conns => up'[c] = up[c]
    BY <1>15, SendTouches
  <2> QED
    BY <1>15, <1>1, <1>2, <1>3, <2>1 DEF Data, Links, Live
<1>16. CASE End
  <2>1. conns \in Conns /\ \A c \in Conns : c # conns => up'[c] = up[c]
    BY <1>16, SendTouches
  <2> QED
    BY <1>16, <1>1, <1>2, <1>3, <2>1 DEF End, Links, Live
<1>17. CASE Final
  <2>1. conns \in Conns /\ Closes
    BY <1>17, <1>2 DEF Final, Live
  <2>2. spc' \notin {"put", "resume", "data", "final"}
    BY <1>17 DEF Final
  <2> QED
    BY <1>17, <1>1, <1>3, <2>1, <2>2, ClosesIs DEF Final, Links, Live
<1>18. ASSUME NEW c \in Conns, Handler(c) \/ LocalError(c) PROVE Links'
  <2>1. OnlyItsOwn(c)
    BY <1>18, HandlerTouches
  <2> QED
    BY <1>1, <1>3, <2>1 DEF OnlyItsOwn, Links, Live
<1>19. CASE ClientRestarts
  <2>1. \A c \in Conns : up'[c] = <<>> /\ (h'[c].pc = "none" <=> h[c].pc = "none")
    BY <1>19, <1>1 DEF ClientRestarts, NoHandler
  <2> QED
    BY <1>19, <1>1, <1>3, <2>1 DEF ClientRestarts, Links, Live
<1>20. CASE Edit
  BY <1>20, <1>1, <1>3 DEF Edit, Links, Live
<1>21. CASE Download
  BY <1>21, <1>1, <1>3 DEF Download, Links, Live
<1>22. CASE ServiceLists
  BY <1>22, <1>1, <1>3 DEF ServiceLists, Links, Live
<1>23. CASE UNCHANGED vars
  BY <1>23, <1>1, <1>3 DEF Links, Live
<1> QED
  BY <1>4, <1>5, <1>6, <1>7, <1>8, <1>9, <1>10, <1>11, <1>12, <1>13, <1>14, <1>15, <1>16, <1>17,
     <1>18, <1>19, <1>20, <1>21, <1>22, <1>23 DEF Next, Command

LEMMA RenamedExistsKeeps == IInv /\ [Next]_vars => RenamedExists'
<1> SUFFICES ASSUME IInv, [Next]_vars PROVE RenamedExists'
  OBVIOUS
<1> USE DEF vars, server, job, try, link, files, client, others
<1>1. RenamedExists /\ TypeOK /\ h \in [Conns -> Handlers]
  BY DEF IInv, TypeOK
<1>2. CASE Begin
  BY <1>2, <1>1 DEF Begin, RenamedExists
<1>3. CASE List
  BY <1>3, <1>1 DEF List, RenamedExists
<1>4. CASE ListFails
  BY <1>4, <1>1 DEF ListFails, RenamedExists
<1>5. CASE NoControl
  BY <1>5, <1>1 DEF NoControl, RenamedExists
<1>6. CASE Check
  BY <1>6, <1>1 DEF Check, RenamedExists
<1>7. CASE Dial
  <2>1. \A c \in Conns : h'[c].pc = "idle" \/ h'[c] = h[c]
    BY <1>7, <1>1 DEF Dial, Handlers
  <2> QED
    BY <1>7, <1>1, <2>1 DEF Dial, RenamedExists
<1>8. CASE DialFails
  BY <1>8, <1>1 DEF DialFails, RenamedExists
<1>9. CASE Killed
  BY <1>9, <1>1 DEF Killed, RenamedExists
<1>10. CASE GiveUp
  BY <1>10, <1>1 DEF GiveUp, RenamedExists
<1>11. CASE Put
  BY <1>11, <1>1 DEF Put, RenamedExists
<1>12. CASE Resume
  BY <1>12, <1>1 DEF Resume, RenamedExists
<1>13. CASE Data
  BY <1>13, <1>1 DEF Data, RenamedExists
<1>14. CASE End
  BY <1>14, <1>1 DEF End, RenamedExists
<1>15. CASE Final
  BY <1>15, <1>1 DEF Final, RenamedExists
<1>16. ASSUME NEW c \in Conns, Handler(c) \/ LocalError(c) PROVE RenamedExists'
  <2>1. CASE HandlePut(c)
    <3>1. h'[c].pc # "times"
      BY <2>1, <1>1 DEF HandlePut, Handlers
    <3>2. \A d \in Conns : d # c => h'[d] = h[d]
      BY <1>16, HandlerTouches DEF OnlyItsOwn
    <3> QED
      BY <2>1, <1>1, <3>1, <3>2 DEF HandlePut, RenamedExists
  <2>2. CASE Open(c)
    <3>1. h'[c].pc # "times"
      BY <2>2, <1>1 DEF Open, Handlers
    <3>2. \A d \in Conns : d # c => h'[d] = h[d]
      BY <1>16, HandlerTouches DEF OnlyItsOwn
    <3> QED
      BY <2>2, <1>1, <3>1, <3>2 DEF Open, RenamedExists
  <2>3. CASE Receives(c)
    <3>1. h'[c].pc # "times"
      BY <2>3, <1>1 DEF Receives, Handlers
    <3>2. \A d \in Conns : d # c => h'[d] = h[d]
      BY <1>16, HandlerTouches DEF OnlyItsOwn
    <3> QED
      BY <2>3, <1>1, <3>1, <3>2 DEF Receives, RenamedExists
  <2>4. CASE Sticks(c)
    <3>1. h'[c].pc # "times"
      BY <2>4, <1>1 DEF Sticks, Step, Handlers
    <3>2. \A d \in Conns : d # c => h'[d] = h[d]
      BY <1>16, HandlerTouches DEF OnlyItsOwn
    <3> QED
      BY <2>4, <1>1, <3>1, <3>2 DEF Sticks, RenamedExists
  <2>5. CASE ReceivesEnd(c)
    <3>1. h'[c].pc # "times"
      BY <2>5, <1>1 DEF ReceivesEnd, Step, Handlers
    <3>2. \A d \in Conns : d # c => h'[d] = h[d]
      BY <1>16, HandlerTouches DEF OnlyItsOwn
    <3> QED
      BY <2>5, <1>1, <3>1, <3>2 DEF ReceivesEnd, RenamedExists
  <2>6. CASE SizeWrong(c)
    <3>1. h'[c].pc # "times"
      BY <2>6, <1>1 DEF SizeWrong, Idle, NoHandler, Handlers
    <3>2. \A d \in Conns : d # c => h'[d] = h[d]
      BY <1>16, HandlerTouches DEF OnlyItsOwn
    <3> QED
      BY <2>6, <1>1, <3>1, <3>2 DEF SizeWrong, RenamedExists
  <2>7. CASE Renames(c)
    BY <2>7, <1>1 DEF Renames, RenamedExists
  <2>8. CASE SetsTimes(c)
    <3>1. h'[c].pc # "times"
      BY <2>8, <1>1 DEF SetsTimes, Idle, NoHandler, Handlers
    <3>2. \A d \in Conns : d # c => h'[d] = h[d]
      BY <1>16, HandlerTouches DEF OnlyItsOwn
    <3> QED
      BY <2>8, <1>1, <3>1, <3>2 DEF SetsTimes, RenamedExists
  <2>9. CASE Leaves(c)
    <3>1. h'[c].pc # "times"
      BY <2>9, <1>1 DEF Leaves, Goes, NoHandler, Handlers
    <3>2. \A d \in Conns : d # c => h'[d] = h[d]
      BY <1>16, HandlerTouches DEF OnlyItsOwn
    <3> QED
      BY <2>9, <1>1, <3>1, <3>2 DEF Leaves, RenamedExists
  <2>10. CASE Unsupported(c)
    BY <2>10, <1>1 DEF Unsupported, RenamedExists
  <2>11. CASE LocalError(c)
    <3>1. h'[c].pc # "times"
      BY <2>11, <1>1 DEF LocalError, Idle, NoHandler, Handlers
    <3>2. \A d \in Conns : d # c => h'[d] = h[d]
      BY <1>16, HandlerTouches DEF OnlyItsOwn
    <3> QED
      BY <2>11, <1>1, <3>1, <3>2 DEF LocalError, RenamedExists
  <2> QED
    BY <1>16, <2>1, <2>2, <2>3, <2>4, <2>5, <2>6, <2>7, <2>8, <2>9, <2>10, <2>11 DEF Handler
<1>17. CASE ClientRestarts
  BY <1>17, <1>1 DEF ClientRestarts, NoHandler, RenamedExists
<1>18. CASE Edit
  <2>1. full' # None
    BY <1>18, <1>1, NewInodeIs DEF Edit, Inodes, None
  <2> QED
    BY <1>18, <1>1, <2>1 DEF Edit, RenamedExists
<1>19. CASE Download
  BY <1>19, <1>1 DEF Download, RenamedExists
<1>20. CASE ServiceLists
  BY <1>20, <1>1 DEF ServiceLists, RenamedExists
<1>21. CASE UNCHANGED vars
  BY <1>21, <1>1 DEF RenamedExists
<1> QED
  BY <1>2, <1>3, <1>4, <1>5, <1>6, <1>7, <1>8, <1>9, <1>10, <1>11, <1>12, <1>13, <1>14, <1>15,
     <1>16, <1>17, <1>18, <1>19, <1>20, <1>21 DEF Next, Command

-----------------------------------------------------------------------------
(* What a goroutine does to its own state and connection.                  *)

\* A frame less to read; an answer more to be read.
OneFrameLess(c) ==
  /\ Len(up[c]) \in Nat \ {0} /\ Len(up'[c]) = Len(up[c]) - 1
  /\ \A k \in 1 .. Len(up[c]) - 1 : up'[c][k] = up[c][k + 1]
OneAnswerMore(c, a) ==
  ~closed[c] =>
    /\ Len(down'[c]) = Len(down[c]) + 1
    /\ \A k \in 1 .. Len(down[c]) : down'[c][k] = down[c][k]
    /\ down'[c][Len(down[c]) + 1] = a
    /\ down[c] = <<>> => down'[c] = <<a>>

Bad == [kind |-> "BAD", offset |-> 0]
Ok == [kind |-> "OK", offset |-> 0]
Proceeds(c, from, to) == h[c].pc = from /\ h'[c].pc = to /\ h'[c].ver = h[c].ver

GoroutineSteps(c) ==
  /\ HandlePut(c) =>
       /\ h[c].pc = "idle" /\ h'[c].pc = "open"
       /\ h'[c].ver \in Versions /\ h'[c].ver = up[c][1].block[1] /\ IsPut(c, 1)
       /\ OneFrameLess(c) /\ h'[c].pos \in 0 .. Blocks
       /\ OneAnswerMore(c, [kind |-> "RESUME", offset |-> h'[c].pos])
  /\ Open(c) => Proceeds(c, "open", "recv") /\ h'[c].pos = h[c].pos /\ UNCHANGED <<up, down>>
  /\ Receives(c) =>
       /\ Proceeds(c, "recv", "recv") /\ h'[c].pos = h[c].pos + 1 /\ h[c].pos < Blocks
       /\ OneFrameLess(c) /\ UNCHANGED down /\ up[c][1].kind = "DATA"
  /\ Sticks(c) => Proceeds(c, "recv", "stuck") /\ UNCHANGED <<up, down>>
  /\ ReceivesEnd(c) =>
       /\ Proceeds(c, "recv", "end") /\ h'[c].pos = h[c].pos
       /\ OneFrameLess(c) /\ UNCHANGED down /\ up[c][1].kind = "END"
  /\ SizeWrong(c) => h[c].pc = "end" /\ h'[c].pc = "idle" /\ OneAnswerMore(c, Bad) /\ UNCHANGED up
  /\ Renames(c) => Proceeds(c, "end", "times") /\ h'[c].pos = h[c].pos /\ UNCHANGED <<up, down>>
  /\ SetsTimes(c) => h[c].pc = "times" /\ h'[c].pc = "idle" /\ OneAnswerMore(c, Ok) /\ UNCHANGED up
  /\ Leaves(c) =>
       h[c].pc \in {"idle", "open", "recv"} /\ h'[c].pc = "gone" /\ up'[c] = <<>> /\ UNCHANGED down
  /\ Unsupported(c) =>
       h[c].pc = "idle" /\ UNCHANGED h /\ OneFrameLess(c) /\ OneAnswerMore(c, Bad) /\ ~IsPut(c, 1)
  /\ LocalError(c) =>
       /\ h[c].pc \in {"open", "recv", "end"} /\ h'[c].pc = "idle" /\ OneAnswerMore(c, Bad)
       /\ UNCHANGED up \/ OneFrameLess(c)

LEMMA GoroutineStepsAre ==
  ASSUME IInv, NEW c \in Conns
  PROVE  GoroutineSteps(c)
<1> USE DEF link, files, client
<1>1. h \in [Conns -> Handlers] /\ TypeOK
  BY DEF IInv, TypeOK
<1>2. Taken(c) /\ up[c] # <<>> => OneFrameLess(c)
  BY <1>1, TakenIs DEF OneFrameLess
<1>3. \A kind \in {"RESUME", "OK", "BAD"}, n \in 0 .. Blocks :
        Answer(c, kind, n) => OneAnswerMore(c, [kind |-> kind, offset |-> n])
  BY <1>1, AnswerIs DEF OneAnswerMore
<1>4. 0 \in 0 .. Blocks
  BY BoundsAssumption
<1>5. /\ Answer(c, "BAD", 0) => OneAnswerMore(c, Bad)
      /\ Answer(c, "OK", 0) => OneAnswerMore(c, Ok)
  BY <1>3, <1>4 DEF Bad, Ok
<1>6. /\ \A pc : Step(c, pc) => h'[c].pc = pc /\ h'[c].ver = h[c].ver /\ h'[c].pos = h[c].pos
      /\ Idle(c) => h'[c].pc = "idle"
      /\ Goes(c) => h'[c].pc = "gone" /\ up'[c] = <<>>
  BY <1>1 DEF Step, Idle, Goes, Handlers, NoHandler, IInv, TypeOK
<1>7. ASSUME HandlePut(c)
      PROVE  /\ h[c].pc = "idle" /\ h'[c].pc = "open"
             /\ h'[c].ver \in Versions /\ h'[c].ver = up[c][1].block[1] /\ IsPut(c, 1)
             /\ OneFrameLess(c) /\ h'[c].pos \in 0 .. Blocks
             /\ OneAnswerMore(c, [kind |-> "RESUME", offset |-> h'[c].pos])
  <2> DEFINE n == IF PartSize > 0 /\ (meta # Head(up[c]).block[1] \/ PartSize > Blocks)
                  THEN 0 ELSE PartSize
  <2>1. n \in 0 .. Blocks
    BY <1>1, PartSizeIs, BoundsAssumption
  <2>2. /\ h' = [h EXCEPT ![c] = [@ EXCEPT !.pc = "open", !.ver = Head(up[c]).block[1], !.pos = n]]
        /\ Answer(c, "RESUME", n) /\ Taken(c) /\ Reads(c, "PUT") /\ h[c].pc = "idle"
    BY <1>7 DEF HandlePut
  <2> HIDE DEF n
  <2>3. /\ up[c] # <<>> /\ up[c][1].block[1] \in Versions /\ Head(up[c]) = up[c][1]
        /\ IsPut(c, 1)
    BY <2>2, ReadsIs DEF Reads
  <2>4. h'[c].pc = "open" /\ h'[c].ver = up[c][1].block[1] /\ h'[c].pos = n
    BY <1>1, <2>2, <2>3 DEF Handlers
  <2> QED
    BY <1>2, <1>3, <2>1, <2>2, <2>3, <2>4
<1>8. Open(c) => Proceeds(c, "open", "recv") /\ h'[c].pos = h[c].pos /\ UNCHANGED <<up, down>>
  <2> SUFFICES ASSUME Open(c)
               PROVE  Proceeds(c, "open", "recv") /\ h'[c].pos = h[c].pos /\ UNCHANGED <<up, down>>
    OBVIOUS
  <2>1. PICK i : h' = [h EXCEPT ![c] = [@ EXCEPT !.pc = "recv", !.fd = i]]
    BY DEF Open
  <2>2. h'[c].pc = "recv" /\ h'[c].ver = h[c].ver /\ h'[c].pos = h[c].pos
    BY <1>1, <2>1 DEF Handlers
  <2> QED
    BY <2>2 DEF Open, Proceeds
<1>9. ASSUME Receives(c)
      PROVE  /\ Proceeds(c, "recv", "recv") /\ h'[c].pos = h[c].pos + 1 /\ h[c].pos < Blocks
             /\ OneFrameLess(c) /\ UNCHANGED down /\ up[c][1].kind = "DATA"
  <2>1. h' = [h EXCEPT ![c].pos = h[c].pos + 1] /\ h[c].pos < Blocks /\ h[c].pc = "recv"
    BY <1>9 DEF Receives
  <2>2. h'[c].pc = "recv" /\ h'[c].ver = h[c].ver /\ h'[c].pos = h[c].pos + 1
    BY <1>1, <2>1 DEF Handlers
  <2>3. up[c] # <<>> /\ Head(up[c]) = up[c][1]
    BY <1>9, ReadsIs DEF Receives, Reads
  <2> QED
    BY <1>2, <1>9, <2>1, <2>2, <2>3 DEF Receives, Reads, Proceeds
<1>10. Sticks(c) => Proceeds(c, "recv", "stuck") /\ UNCHANGED <<up, down>>
  BY <1>6 DEF Sticks, Proceeds
<1>11. ASSUME ReceivesEnd(c)
       PROVE  /\ Proceeds(c, "recv", "end") /\ h'[c].pos = h[c].pos
              /\ OneFrameLess(c) /\ UNCHANGED down /\ up[c][1].kind = "END"
  <2>1. up[c] # <<>> /\ Head(up[c]) = up[c][1]
    BY <1>11, ReadsIs DEF ReceivesEnd, Reads
  <2> QED
    BY <1>2, <1>6, <1>11, <2>1 DEF ReceivesEnd, Reads, Proceeds
<1>12. SizeWrong(c) => h[c].pc = "end" /\ h'[c].pc = "idle" /\ OneAnswerMore(c, Bad) /\ UNCHANGED up
  BY <1>5, <1>6 DEF SizeWrong
<1>13. Renames(c) => Proceeds(c, "end", "times") /\ h'[c].pos = h[c].pos /\ UNCHANGED <<up, down>>
  BY <1>6 DEF Renames, Proceeds
<1>14. SetsTimes(c) => h[c].pc = "times" /\ h'[c].pc = "idle" /\ OneAnswerMore(c, Ok) /\ UNCHANGED up
  BY <1>5, <1>6 DEF SetsTimes
<1>15. Leaves(c) =>
         h[c].pc \in {"idle", "open", "recv"} /\ h'[c].pc = "gone" /\ up'[c] = <<>> /\ UNCHANGED down
  BY <1>6 DEF Leaves
<1>16. ASSUME Unsupported(c)
       PROVE  h[c].pc = "idle" /\ UNCHANGED h /\ OneFrameLess(c) /\ OneAnswerMore(c, Bad) /\ ~IsPut(c, 1)
  <2>1. up[c] # <<>> /\ Head(up[c]) = up[c][1]
    BY <1>16, ReadsIs DEF Unsupported
  <2> QED
    BY <1>2, <1>5, <1>16, <2>1 DEF Unsupported, Reads, IsPut
<1>17. LocalError(c) =>
         /\ h[c].pc \in {"open", "recv", "end"} /\ h'[c].pc = "idle" /\ OneAnswerMore(c, Bad)
         /\ UNCHANGED up \/ OneFrameLess(c)
  BY <1>2, <1>5, <1>6 DEF LocalError, Reads
<1> QED
  BY <1>7, <1>8, <1>9, <1>10, <1>11, <1>12, <1>13, <1>14, <1>15, <1>16, <1>17 DEF GoroutineSteps

-----------------------------------------------------------------------------
(* Versions.                                                               *)

\* A goroutine becomes busy with what a request names; what it has still to
\* read was there before.
LEMMA GoroutineGoesOn ==
  ASSUME IInv, NEW c \in Conns, Handler(c) \/ LocalError(c)
  PROVE  /\ Busy(c)' => \/ Busy(c) /\ h'[c].ver = h[c].ver
                        \/ HandlePut(c) /\ h'[c].ver = up[c][1].block[1]
         /\ \A k \in 1 .. Len(up'[c]) :
              \E j \in 1 .. Len(up[c]) : up'[c][k] = up[c][j]
         /\ HandlePut(c) => 1 \in 1 .. Len(up[c]) /\ IsPut(c, 1) /\ h'[c].ver \in Versions
<1>1. GoroutineSteps(c)
  BY GoroutineStepsAre
<1>2. Len(up[c]) \in Nat /\ up'[c] \in Seq(Requests)
  <2>1. [Next]_vars
    BY DEF Next
  <2>2. LinkTypes /\ LinkTypes'
    BY <2>1, LinkTypesKeep, TypesAre DEF IInv
  <2>3. up[c] \in Seq(Requests) /\ up'[c] \in Seq(Requests)
    BY <2>2 DEF LinkTypes
  <2> QED
    BY <2>3
<1>3. OneFrameLess(c) => \A k \in 1 .. Len(up'[c]) : \E j \in 1 .. Len(up[c]) : up'[c][k] = up[c][j]
  <2> SUFFICES ASSUME OneFrameLess(c), NEW k \in 1 .. Len(up'[c])
               PROVE  \E j \in 1 .. Len(up[c]) : up'[c][k] = up[c][j]
    OBVIOUS
  <2>1. k \in 1 .. Len(up[c]) - 1 /\ k + 1 \in 1 .. Len(up[c])
    BY <1>2 DEF OneFrameLess
  <2> QED
    BY <2>1 DEF OneFrameLess
<1>4. UNCHANGED up => \A k \in 1 .. Len(up'[c]) : \E j \in 1 .. Len(up[c]) : up'[c][k] = up[c][j]
  OBVIOUS
<1>5. up'[c] = <<>> => \A k \in 1 .. Len(up'[c]) : \E j \in 1 .. Len(up[c]) : up'[c][k] = up[c][j]
  OBVIOUS
<1>6. \A k \in 1 .. Len(up'[c]) : \E j \in 1 .. Len(up[c]) : up'[c][k] = up[c][j]
  BY <1>1, <1>3, <1>4, <1>5 DEF GoroutineSteps, Handler
<1>7. HandlePut(c) => 1 \in 1 .. Len(up[c]) /\ IsPut(c, 1) /\ h'[c].ver \in Versions
  BY <1>1 DEF GoroutineSteps, OneFrameLess
<1>8. Busy(c)' => \/ Busy(c) /\ h'[c].ver = h[c].ver
                  \/ HandlePut(c) /\ h'[c].ver = up[c][1].block[1]
  BY <1>1 DEF GoroutineSteps, Handler, Busy, Proceeds
<1> QED
  BY <1>6, <1>7, <1>8

LEMMA LatestGrows ==
  ASSUME IInv, [Next]_vars
  PROVE  /\ Latest \in Nat /\ Latest' \in Nat /\ Latest <= Latest'
         /\ stored \in Nat /\ stored' \in Nat /\ stored <= stored'
<1> USE NowIs DEF vars, server, job, try, link, files, client, others
<1>1. /\ stored \in Versions /\ stored' \in Versions
      /\ ver \in Versions \cup {None} /\ ver' \in Versions \cup {None}
      /\ ver <= stored
  BY TypesAre, WorkerTypesKeep DEF WorkerTypes, IInv, VersionsOfWorker
<1>2. CASE Begin
  BY <1>2, <1>1 DEF Begin, Over, Latest, None
<1>3. CASE List
  BY <1>3, <1>1 DEF List, Latest, None
<1>4. CASE ListFails
  BY <1>4, <1>1 DEF ListFails, Latest, None
<1>5. CASE NoControl
  BY <1>5, <1>1 DEF NoControl, Latest, None
<1>6. CASE Check
  BY <1>6, <1>1 DEF Check, Latest, None
<1>7. CASE Dial
  BY <1>7, <1>1 DEF Dial, Latest, None
<1>8. CASE DialFails
  BY <1>8, <1>1 DEF DialFails, Again, Latest, None
<1>9. CASE Killed
  BY <1>9, <1>1 DEF Killed, Latest, None
<1>10. CASE GiveUp
  BY <1>10, <1>1 DEF GiveUp, Again, Latest, None
<1>11. CASE Put
  BY <1>11, <1>1 DEF Put, Latest, None
<1>12. CASE Resume
  BY <1>12, <1>1 DEF Resume, Latest, None
<1>13. CASE Data
  BY <1>13, <1>1 DEF Data, Latest, None
<1>14. CASE End
  BY <1>14, <1>1 DEF End, Latest, None
<1>15. CASE Final
  BY <1>15, <1>1 DEF Final, Latest, None
<1>16. ASSUME NEW c \in Conns, Handler(c) \/ LocalError(c)
      PROVE  stored <= stored' /\ Latest <= Latest'
  BY <1>16, <1>1, HandlerTouches DEF OnlyItsOwn, Latest, None
<1>17. CASE ClientRestarts
  BY <1>17, <1>1 DEF ClientRestarts, Latest, None
<1>18. CASE Edit
  BY <1>18, <1>1 DEF Edit, Latest, None
<1>19. CASE Download
  BY <1>19, <1>1 DEF Download, Latest, None
<1>20. CASE ServiceLists
  BY <1>20, <1>1 DEF ServiceLists, Latest, None
<1>21. CASE UNCHANGED vars
  BY <1>21, <1>1 DEF Latest, None
<1>22. stored <= stored' /\ Latest <= Latest'
  BY <1>2, <1>3, <1>4, <1>5, <1>6, <1>7, <1>8, <1>9, <1>10, <1>11, <1>12, <1>13, <1>14, <1>15,
     <1>16, <1>17, <1>18, <1>19, <1>20, <1>21 DEF Next, Command
<1> QED
  BY <1>1, <1>22 DEF Latest, None

LEMMA VersionsOfWorkerKeep == IInv /\ [Next]_vars => VersionsOfWorker'
<1> SUFFICES ASSUME IInv, [Next]_vars PROVE VersionsOfWorker'
  OBVIOUS
<1> USE NowIs DEF vars, server, job, try, link, files, client, others
<1>1. /\ VersionsOfWorker /\ WorkerTypes
      /\ stored \in Nat /\ stored' \in Nat /\ stored <= stored' /\ stored # None
  BY TypesAre, LatestGrows DEF IInv, WorkerTypes, None
<1>2. ver \in Nat /\ row \in Nat
  BY <1>1 DEF WorkerTypes, None
<1>3. CASE Begin
  BY <1>3, <1>1, <1>2 DEF Begin, VersionsOfWorker, None
<1>4. CASE List
  BY <1>4, <1>1, <1>2 DEF List, VersionsOfWorker, None
<1>5. CASE ListFails
  BY <1>5, <1>1, <1>2 DEF ListFails, VersionsOfWorker, None
<1>6. CASE NoControl
  BY <1>6, <1>1, <1>2 DEF NoControl, VersionsOfWorker, None
<1>7. CASE Check
  BY <1>7, <1>1, <1>2 DEF Check, VersionsOfWorker, None
<1>8. CASE Dial
  BY <1>8, <1>1, <1>2 DEF Dial, VersionsOfWorker, None
<1>9. CASE DialFails
  BY <1>9, <1>1, <1>2 DEF DialFails, Again, VersionsOfWorker, None
<1>10. CASE Killed
  BY <1>10, <1>1, <1>2 DEF Killed, VersionsOfWorker, None
<1>11. CASE GiveUp
  BY <1>11, <1>1, <1>2 DEF GiveUp, Again, VersionsOfWorker, None
<1>12. CASE Put
  BY <1>12, <1>1, <1>2 DEF Put, VersionsOfWorker, None
<1>13. CASE Resume
  BY <1>13, <1>1, <1>2 DEF Resume, VersionsOfWorker, None
<1>14. CASE Data
  BY <1>14, <1>1, <1>2 DEF Data, VersionsOfWorker, None
<1>15. CASE End
  BY <1>15, <1>1, <1>2 DEF End, VersionsOfWorker, None
<1>16. CASE Final
  BY <1>16, <1>1, <1>2 DEF Final, VersionsOfWorker, None
<1>17. ASSUME NEW c \in Conns, Handler(c) \/ LocalError(c) PROVE VersionsOfWorker'
  BY <1>17, <1>1, HandlerTouches DEF OnlyItsOwn, VersionsOfWorker
<1>18. CASE ClientRestarts
  BY <1>18, <1>1, <1>2 DEF ClientRestarts, VersionsOfWorker, None
<1>19. CASE Edit
  BY <1>19, <1>1, <1>2 DEF Edit, VersionsOfWorker, None
<1>20. CASE Download
  BY <1>20, <1>1, <1>2 DEF Download, VersionsOfWorker, None
<1>21. CASE ServiceLists
  BY <1>21, <1>1, <1>2 DEF ServiceLists, VersionsOfWorker, None
<1>22. CASE UNCHANGED vars
  BY <1>22, <1>1, <1>2 DEF VersionsOfWorker, None
<1> QED
  BY <1>3, <1>4, <1>5, <1>6, <1>7, <1>8, <1>9, <1>10, <1>11, <1>12, <1>13, <1>14, <1>15, <1>16,
     <1>17, <1>18, <1>19, <1>20, <1>21, <1>22 DEF Next, Command

LEMMA VersionsOfClientKeep == IInv /\ [Next]_vars => VersionsOfClient'
<1> SUFFICES ASSUME IInv, [Next]_vars PROVE VersionsOfClient'
  OBVIOUS
<1> USE NowIs DEF vars, server, job, try, link, files, client, others
<1>1. /\ VersionsOfClient /\ TypeOK /\ up \in [Conns -> Seq(Requests)] /\ h \in [Conns -> Handlers]
      /\ Latest \in Nat /\ Latest' \in Nat /\ Latest <= Latest'
  BY TypesAre, LatestGrows DEF IInv, LinkTypes, HandlerTypes
<1>2. /\ meta \in Nat
      /\ \A c \in Conns : h[c].ver \in Nat
      /\ \A c \in Conns : \A i \in 1 .. Len(up[c]) : IsPut(c, i) => up[c][i].block[1] \in Nat
  <2>1. \A c \in Conns : h[c].ver \in Nat
    BY <1>1 DEF Handlers, None
  <2>2. ASSUME NEW c \in Conns, NEW i \in 1 .. Len(up[c]), IsPut(c, i) PROVE up[c][i].block[1] \in Nat
    <3>1. up[c][i] \in Requests
      BY <1>1
    <3> QED
      BY <2>2, <3>1 DEF Requests, IsPut
  <2> QED
    BY <1>1, <2>1, <2>2 DEF TypeOK, None
<1>3. ASSUME UNCHANGED <<h, up, meta>> PROVE VersionsOfClient'
  BY <1>1, <1>2, <1>3 DEF VersionsOfClient, Busy, IsPut
<1>4. CASE Begin
  BY <1>4, <1>3 DEF Begin, Fault
<1>5. CASE List
  BY <1>5, <1>3 DEF List, Fault
<1>6. CASE ListFails
  BY <1>6, <1>3 DEF ListFails, Fault
<1>7. CASE NoControl
  BY <1>7, <1>3 DEF NoControl, Fault
<1>8. CASE Check
  BY <1>8, <1>3 DEF Check, Fault
<1>9. CASE Dial
  <2>1. up' = up /\ meta' = meta /\ \A c \in Conns : h'[c].pc = "idle" \/ h'[c] = h[c]
    BY <1>9, <1>1 DEF Dial, Handlers
  <2>2. \A c \in Conns : Busy(c)' => Busy(c) /\ h'[c] = h[c]
    BY <2>1 DEF Busy
  <2> QED
    BY <1>1, <1>2, <2>1, <2>2 DEF VersionsOfClient, IsPut
<1>10. CASE DialFails
  BY <1>10, <1>3 DEF DialFails, Fault
<1>11. CASE Killed
  BY <1>11, <1>3 DEF Killed, Fault
<1>12. CASE GiveUp
  BY <1>12, <1>3 DEF GiveUp, Fault
<1>13. CASE Put
  <2>1. /\ up'[conns][Len(up[conns]) + 1] = [kind |-> "PUT", block |-> <<stored, 0>>]
        /\ Len(up'[conns]) = Len(up[conns]) + 1 /\ conns \in Conns
        /\ \A k \in 1 .. Len(up[conns]) : up'[conns][k] = up[conns][k]
        /\ \A c \in Conns : c # conns => up'[c] = up[c]
    BY <1>13, SendTouches
  <2>2. Latest' = stored /\ Len(up[conns]) \in Nat
    BY <1>13, <1>1, <2>1 DEF Put, Latest
  <2>3. ASSUME NEW c \in Conns, NEW i \in 1 .. Len(up'[c]), IsPut(c, i)' PROVE up'[c][i].block[1] <= Latest'
    <3>1. CASE c = conns /\ i = Len(up[conns]) + 1
      BY <1>1, <2>1, <2>2, <3>1
    <3>2. CASE ~(c = conns /\ i = Len(up[conns]) + 1)
      <4>1. i \in 1 .. Len(up[c]) /\ up'[c][i] = up[c][i]
        BY <2>1, <2>2, <2>3, <3>2
      <4> QED
        BY <1>1, <1>2, <2>3, <4>1, SMTT(30) DEF VersionsOfClient, IsPut
    <3> QED
      BY <3>1, <3>2
  <2>4. h' = h /\ meta' = meta
    BY <1>13 DEF Put
  <2> QED
    BY <1>1, <1>2, <2>3, <2>4 DEF VersionsOfClient, Busy
<1>14. CASE Resume
  BY <1>14, <1>3 DEF Resume, Fault
<1>15. CASE Data
  <2>3. \A c \in Conns : \A i \in 1 .. Len(up'[c]) : IsPut(c, i)' =>
          i \in 1 .. Len(up[c]) /\ up'[c][i] = up[c][i]
    BY <1>15, SendAddsNoPut
  <2>4. h' = h /\ meta' = meta
    BY <1>15 DEF Data
  <2> QED
    BY <1>1, <1>2, <2>3, <2>4 DEF VersionsOfClient, Busy, IsPut
<1>16. CASE End
  <2>3. \A c \in Conns : \A i \in 1 .. Len(up'[c]) : IsPut(c, i)' =>
          i \in 1 .. Len(up[c]) /\ up'[c][i] = up[c][i]
    BY <1>16, SendAddsNoPut
  <2>4. h' = h /\ meta' = meta
    BY <1>16 DEF End
  <2> QED
    BY <1>1, <1>2, <2>3, <2>4, SMTT(30) DEF VersionsOfClient, Busy, IsPut
<1>17. CASE Final
  BY <1>17, <1>3 DEF Final, Fault
<1>18. ASSUME NEW c \in Conns, Handler(c) \/ LocalError(c) PROVE VersionsOfClient'
  <2>1. OnlyItsOwn(c) /\ Latest' = Latest
    BY <1>18, HandlerTouches DEF OnlyItsOwn, Latest
  <2>2. meta' <= Latest'
    <3>1. meta' \in {meta, None} \/ ((Open(c) \/ LocalError(c)) /\ meta' = h[c].ver)
      BY <1>18 DEF Handler, HandlePut, Open, Receives, Sticks, ReceivesEnd, SizeWrong, Renames,
         SetsTimes, Leaves, Unsupported, LocalError
    <3>2. (Open(c) \/ LocalError(c)) => Busy(c)
      BY DEF Open, LocalError, Busy
    <3> QED
      BY <1>1, <1>2, <2>1, <3>1, <3>2 DEF VersionsOfClient, None
  <2>3. ASSUME NEW d \in Conns, Busy(d)' PROVE h'[d].ver # None /\ h'[d].ver <= Latest'
    <3>1. CASE d # c
      BY <1>1, <2>1, <2>3, <3>1 DEF OnlyItsOwn, VersionsOfClient, Busy
    <3>2. CASE d = c /\ HandlePut(c)
      BY <1>18, <1>1, <2>1, <2>3, <3>2, GoroutineGoesOn, GoroutineStepsAre
         DEF VersionsOfClient, GoroutineSteps, None
    <3>3. CASE d = c /\ ~HandlePut(c)
      BY <1>18, <1>1, <2>1, <2>3, <3>3, GoroutineGoesOn DEF VersionsOfClient
    <3> QED
      BY <3>1, <3>2, <3>3
  <2>4. ASSUME NEW d \in Conns, NEW i \in 1 .. Len(up'[d]), IsPut(d, i)'
        PROVE  up'[d][i].block[1] <= Latest'
    <3>1. \E j \in 1 .. Len(up[d]) : up'[d][i] = up[d][j]
      <4>1. CASE d # c
        BY <2>1, <4>1 DEF OnlyItsOwn
      <4>2. CASE d = c
        BY <1>18, <4>2, GoroutineGoesOn
      <4> QED
        BY <4>1, <4>2
    <3> QED
      BY <1>1, <2>1, <2>4, <3>1 DEF VersionsOfClient, IsPut
  <2> QED
    BY <2>2, <2>3, <2>4 DEF VersionsOfClient
<1>19. CASE ClientRestarts
  <2>1. \A c \in Conns : up'[c] = <<>> /\ h'[c].pc \in {"none", "gone"}
    BY <1>19, <1>1 DEF ClientRestarts, NoHandler
  <2> QED
    BY <1>19, <1>1, <1>2, <2>1 DEF ClientRestarts, VersionsOfClient, Busy
<1>20. CASE Edit
  BY <1>20, <1>3 DEF Edit, Fault
<1>21. CASE Download
  BY <1>21, <1>3 DEF Download, Fault
<1>22. CASE ServiceLists
  BY <1>22, <1>3 DEF ServiceLists, Fault
<1>23. CASE UNCHANGED vars
  BY <1>23, <1>3 DEF Fault
<1> QED
  BY <1>4, <1>5, <1>6, <1>7, <1>8, <1>9, <1>10, <1>11, <1>12, <1>13, <1>14, <1>15, <1>16, <1>17,
     <1>18, <1>19, <1>20, <1>21, <1>22, <1>23 DEF Next, Command

LEMMA SeenByWorkerKeeps == IInv /\ [Next]_vars => SeenByWorker'
<1> SUFFICES ASSUME IInv, [Next]_vars PROVE SeenByWorker'
  OBVIOUS
<1> USE NowIs DEF vars, server, job, try, link, files, client, others
<1>1. SeenByWorker /\ WorkerTypes /\ seen \in [Conns -> Versions \cup {None, Now}]
  BY TypesAre DEF IInv, LinkTypes
<1>2. saw \in Nat /\ row \in Nat /\ listed \in Nat
  BY <1>1 DEF WorkerTypes, None
<1>3. CASE Begin
  BY <1>3, <1>1, <1>2 DEF Begin, SeenByWorker, Running
<1>4. CASE List
  BY <1>4, <1>1, <1>2 DEF List, SeenByWorker, Running
<1>5. CASE ListFails
  BY <1>5, <1>1, <1>2 DEF ListFails, SeenByWorker, Running
<1>6. CASE NoControl
  BY <1>6, <1>1, <1>2 DEF NoControl, SeenByWorker, Running
<1>7. CASE Check
  BY <1>7, <1>1, <1>2 DEF Check, SeenByWorker, Running
<1>8. CASE Dial
  <2>1. conns' \in Conns
    BY <1>8, <1>1, DialIs
  <2>2. seen'[conns'] = saw
    BY <1>8, <1>1, <2>1, DialIs
  <2> QED
    BY <1>8, <1>1, <1>2, <2>2 DEF Dial, SeenByWorker, Running
<1>9. CASE DialFails
  BY <1>9, <1>1, <1>2 DEF DialFails, Again, SeenByWorker, Running
<1>10. CASE Killed
  BY <1>10, <1>1, <1>2 DEF Killed, SeenByWorker, Running
<1>11. CASE GiveUp
  BY <1>11, <1>1, <1>2 DEF GiveUp, Again, SeenByWorker, Running
<1>12. CASE Put
  BY <1>12, <1>1, <1>2 DEF Put, SeenByWorker, Running
<1>13. CASE Resume
  BY <1>13, <1>1, <1>2 DEF Resume, SeenByWorker, Running
<1>14. CASE Data
  BY <1>14, <1>1, <1>2 DEF Data, SeenByWorker, Running
<1>15. CASE End
  BY <1>15, <1>1, <1>2 DEF End, SeenByWorker, Running
<1>16. CASE Final
  BY <1>16, <1>1, <1>2 DEF Final, SeenByWorker, Running
<1>17. ASSUME NEW c \in Conns, Handler(c) \/ LocalError(c) PROVE SeenByWorker'
  BY <1>17, <1>1, HandlerTouches DEF OnlyItsOwn, SeenByWorker, Running
<1>18. CASE ClientRestarts
  BY <1>18, <1>1, <1>2 DEF ClientRestarts, SeenByWorker, Running
<1>19. CASE Edit
  BY <1>19, <1>1, <1>2 DEF Edit, SeenByWorker, Running
<1>20. CASE Download
  BY <1>20, <1>1, <1>2 DEF Download, SeenByWorker, Running
<1>21. CASE ServiceLists
  BY <1>21, <1>1, <1>2 DEF ServiceLists, SeenByWorker, Running
<1>22. CASE UNCHANGED vars
  BY <1>22, <1>1, <1>2 DEF SeenByWorker, Running
<1> QED
  BY <1>3, <1>4, <1>5, <1>6, <1>7, <1>8, <1>9, <1>10, <1>11, <1>12, <1>13, <1>14, <1>15, <1>16,
     <1>17, <1>18, <1>19, <1>20, <1>21, <1>22 DEF Next, Command

LEMMA SeenByClientKeeps == IInv /\ [Next]_vars => SeenByClient'
<1> SUFFICES ASSUME IInv, [Next]_vars PROVE SeenByClient'
  OBVIOUS
<1> USE NowIs DEF vars, server, job, try, link, files, client, others
<1>1. /\ SeenByClient /\ SeenByWorker /\ VersionsOfWorker /\ WorkerTypes /\ Links
      /\ up \in [Conns -> Seq(Requests)] /\ h \in [Conns -> Handlers]
      /\ seen \in [Conns -> Versions \cup {None, Now}]
  BY TypesAre DEF IInv, LinkTypes, HandlerTypes
<1>2. ASSUME UNCHANGED <<force, h, up, seen>> PROVE SeenByClient'
  BY <1>1, <1>2 DEF SeenByClient, Busy, IsPut
<1>3. CASE Begin
  BY <1>3, <1>2 DEF Begin, Fault
<1>4. CASE List
  BY <1>4, <1>2 DEF List, Fault
<1>5. CASE ListFails
  BY <1>5, <1>2 DEF ListFails, Fault
<1>6. CASE NoControl
  BY <1>6, <1>2 DEF NoControl, Fault
<1>7. CASE Check
  BY <1>7, <1>2 DEF Check, Fault
<1>8. CASE Dial
  <2>1. conns' \in Conns /\ conns' = conns + 1 /\ conns \in Nat
    BY <1>8, <1>1, DialIs
  <2>2. /\ up' = up /\ force' = force /\ h'[conns'].pc = "idle" /\ up[conns'] = <<>>
        /\ \A c \in Conns : c # conns' => h'[c] = h[c] /\ seen'[c] = seen[c]
    BY <1>8, <1>1, <2>1 DEF Dial, Handlers, Links
  <2>3. \A c \in Conns : Busy(c)' => Busy(c) /\ h'[c] = h[c] /\ c # conns'
    BY <2>1, <2>2 DEF Busy
  <2>4. \A c \in Conns : \A i \in 1 .. Len(up[c]) : c # conns'
    BY <2>2
  <2>5. \A c \in Conns : Busy(c)' /\ ~force => seen'[c] <= h'[c].ver
    BY <1>1, <2>2, <2>3 DEF SeenByClient
  <2>6. \A c \in Conns : \A i \in 1 .. Len(up[c]) : IsPut(c, i) /\ ~force => seen'[c] <= up[c][i].block[1]
    BY <1>1, <2>2, <2>4 DEF SeenByClient
  <2> QED
    BY <2>2, <2>5, <2>6 DEF SeenByClient, IsPut
<1>9. CASE DialFails
  BY <1>9, <1>2 DEF DialFails, Fault
<1>10. CASE Killed
  BY <1>10, <1>2 DEF Killed, Fault
<1>11. CASE GiveUp
  BY <1>11, <1>2 DEF GiveUp, Fault
<1>12. CASE Put
  <2>1. /\ up'[conns][Len(up[conns]) + 1] = [kind |-> "PUT", block |-> <<stored, 0>>]
        /\ Len(up'[conns]) = Len(up[conns]) + 1 /\ conns \in Conns
        /\ \A k \in 1 .. Len(up[conns]) : up'[conns][k] = up[conns][k]
        /\ \A c \in Conns : c # conns => up'[c] = up[c]
    BY <1>12, SendTouches
  <2>2. Len(up[conns]) \in Nat /\ (~force => seen[conns] <= stored)
    <3>1. row \in Nat /\ stored \in Nat /\ seen[conns] \in Nat
      BY <1>1, <2>1 DEF WorkerTypes, None
    <3> QED
      BY <1>12, <1>1, <2>1, <3>1 DEF Put, SeenByWorker, VersionsOfWorker
  <2>3. ASSUME NEW c \in Conns, NEW i \in 1 .. Len(up'[c]), IsPut(c, i)', ~force
        PROVE  seen[c] <= up'[c][i].block[1]
    <3>1. CASE c = conns /\ i = Len(up[conns]) + 1
      BY <1>1, <2>1, <2>2, <2>3, <3>1
    <3>2. CASE ~(c = conns /\ i = Len(up[conns]) + 1)
      <4>1. i \in 1 .. Len(up[c]) /\ up'[c][i] = up[c][i]
        BY <2>1, <2>2, <2>3, <3>2
      <4> QED
        BY <1>1, <1>2, <2>3, <4>1 DEF SeenByClient, IsPut
    <3> QED
      BY <3>1, <3>2
  <2>4. h' = h /\ seen' = seen /\ force' = force
    BY <1>12 DEF Put
  <2> QED
    BY <1>1, <2>3, <2>4 DEF SeenByClient, Busy
<1>13. CASE Resume
  BY <1>13, <1>2 DEF Resume, Fault
<1>14. CASE Data
  <2>3. \A c \in Conns : \A i \in 1 .. Len(up'[c]) : IsPut(c, i)' =>
          i \in 1 .. Len(up[c]) /\ up'[c][i] = up[c][i]
    BY <1>14, SendAddsNoPut
  <2>4. h' = h /\ seen' = seen /\ force' = force
    BY <1>14 DEF Data
  <2> QED
    BY <1>1, <2>3, <2>4 DEF SeenByClient, Busy, IsPut
<1>15. CASE End
  <2>3. \A c \in Conns : \A i \in 1 .. Len(up'[c]) : IsPut(c, i)' =>
          i \in 1 .. Len(up[c]) /\ up'[c][i] = up[c][i]
    BY <1>15, SendAddsNoPut
  <2>4. h' = h /\ seen' = seen /\ force' = force
    BY <1>15 DEF End
  <2> QED
    BY <1>1, <2>3, <2>4 DEF SeenByClient, Busy, IsPut
<1>16. CASE Final
  BY <1>16, <1>2 DEF Final, Fault
<1>17. ASSUME NEW c \in Conns, Handler(c) \/ LocalError(c) PROVE SeenByClient'
  <2>1. OnlyItsOwn(c) /\ force' = force /\ seen' = seen
    BY <1>17, HandlerTouches DEF OnlyItsOwn
  <2>2. ASSUME NEW d \in Conns, Busy(d)', ~force PROVE seen[d] <= h'[d].ver
    <3>1. CASE d # c
      BY <1>1, <2>1, <2>2, <3>1 DEF OnlyItsOwn, SeenByClient, Busy
    <3>2. CASE d = c /\ HandlePut(c)
      BY <1>17, <1>1, <2>1, <2>2, <3>2, GoroutineGoesOn, GoroutineStepsAre
         DEF SeenByClient, GoroutineSteps
    <3>3. CASE d = c /\ ~HandlePut(c)
      BY <1>17, <1>1, <2>1, <2>2, <3>3, GoroutineGoesOn DEF SeenByClient
    <3> QED
      BY <3>1, <3>2, <3>3
  <2>3. ASSUME NEW d \in Conns, NEW i \in 1 .. Len(up'[d]), IsPut(d, i)', ~force
        PROVE  seen[d] <= up'[d][i].block[1]
    <3>1. \E j \in 1 .. Len(up[d]) : up'[d][i] = up[d][j]
      <4>1. CASE d # c
        BY <2>1, <4>1 DEF OnlyItsOwn
      <4>2. CASE d = c
        BY <1>17, <4>2, GoroutineGoesOn
      <4> QED
        BY <4>1, <4>2
    <3> QED
      BY <1>1, <2>1, <2>3, <3>1 DEF SeenByClient, IsPut
  <2> QED
    BY <2>1, <2>2, <2>3 DEF SeenByClient
<1>18. CASE ClientRestarts
  <2>1. \A c \in Conns : up'[c] = <<>> /\ h'[c].pc \in {"none", "gone"}
    BY <1>18, <1>1 DEF ClientRestarts, NoHandler
  <2> QED
    BY <1>18, <1>1, <2>1 DEF ClientRestarts, SeenByClient, Busy
<1>19. CASE Edit
  BY <1>19, <1>2 DEF Edit, Fault
<1>20. CASE Download
  BY <1>20, <1>2 DEF Download, Fault
<1>21. CASE ServiceLists
  BY <1>21, <1>2 DEF ServiceLists, Fault
<1>22. CASE UNCHANGED vars
  BY <1>22, <1>2 DEF Fault
<1> QED
  BY <1>3, <1>4, <1>5, <1>6, <1>7, <1>8, <1>9, <1>10, <1>11, <1>12, <1>13, <1>14, <1>15, <1>16,
     <1>17, <1>18, <1>19, <1>20, <1>21, <1>22 DEF Next, Command

-----------------------------------------------------------------------------
(* Requests.                                                               *)

\* What closing, or not, does to all connections.
LEMMA ClosedStays ==
  ASSUME IInv, [Next]_vars
  PROVE  \A c \in Conns :
           /\ closed[c] => closed'[c] /\ down'[c] = <<>>
           /\ c # conns => closed'[c] = closed[c]
           /\ ~Live /\ c <= conns => closed[c]
<1> USE DEF vars, server, job, try, link, files, client, others
<1>1. TypeOK /\ Links /\ closed \in [Conns -> BOOLEAN] /\ conns \in Nat /\ \A c \in Conns : c \in Nat /\ c # 0
  BY DEF IInv, TypeOK, Conns
<1>2. ~Live => \A c \in Conns : c <= conns => closed[c]
  BY <1>1 DEF Links
<1>3. closed' = closed \/ (Closes /\ conns \in Conns)
  <2>1. Final \/ GiveUp => conns \in Conns
    BY ConnectionIs DEF Final, GiveUp, Live
  <2>2. Killed => conns = 0 \/ conns \in Conns
    BY <1>1 DEF IInv, TypeOK, Conns
  <2>3. ASSUME NEW c \in Conns, Handler(c) \/ LocalError(c) PROVE closed' = closed
    BY <2>3, HandlerTouches DEF OnlyItsOwn
  <2> QED
    BY <2>1, <2>2, <2>3 DEF Next, Command, Begin, List, ListFails, NoControl, Check, Dial, DialFails,
       Killed, GiveUp, Put, Resume, Data, End, Final, ClientRestarts, Edit, Download, ServiceLists
<1>4. \A c \in Conns : (closed[c] => closed'[c]) /\ (c # conns => closed'[c] = closed[c])
  BY <1>1, <1>3, ClosesIs
<1>5. \A c \in Conns : closed[c] => down'[c] = <<>>
  <2>1. Links'
    BY LinksKeep
  <2> QED
    BY <1>4, <2>1 DEF Links
<1> QED
  BY <1>2, <1>4, <1>5

LEMMA RequestFirstKeeps == IInv /\ [Next]_vars => RequestFirst'
<1> SUFFICES ASSUME IInv, [Next]_vars PROVE RequestFirst'
  OBVIOUS
<1> USE NowIs, BoundsAssumption DEF vars, server, job, try, link, files, client, others
<1>0. \A c \in Conns : c \in Nat /\ c # 0
  BY DEF Conns
<1>1. /\ RequestFirst /\ ConnectionIsFresh /\ TypeOK /\ Links
      /\ up \in [Conns -> Seq(Requests)] /\ h \in [Conns -> Handlers]
      /\ conns \in Nat /\ conns \in 0 .. MaxConn
  BY TypesAre DEF IInv, LinkTypes, HandlerTypes, WorkerTypes
<1>2. \A c \in Conns : \A i \in 1 .. Len(up[c]) : c <= conns
  BY <1>0, <1>1 DEF Links
<1>3. \A c \in Conns : \A i \in 1 .. Len(up[c]) : IsPut(c, i) => closed[c] \/ c = conns
  BY <1>0, <1>1, <1>2 DEF Links
<1>4. \A c \in Conns : closed[c] => closed'[c] /\ down'[c] = <<>>
  BY ClosedStays
\* A step that sends nothing, and leaves a request that is not closed to its
\* attempt.
<1>5. ASSUME UNCHANGED <<up, h>>,
             \A c \in Conns : \A i \in 1 .. Len(up[c]) : IsPut(c, i) /\ ~closed[c] =>
               \/ closed'[c] /\ down'[c] = <<>>
               \/ UNCHANGED <<spc, ver, down>>
      PROVE  RequestFirst'
  <2> SUFFICES ASSUME NEW c \in Conns, NEW i \in 1 .. Len(up[c]), IsPut(c, i)
               PROVE  /\ Len(up[c]) = 1 /\ down'[c] = <<>> /\ h[c].pc \in {"idle", "gone"}
                      /\ closed'[c] \/ (spc' = "resume" /\ up[c][i].block[1] = ver')
    BY <1>5 DEF RequestFirst, IsPut
  <2>1. /\ Len(up[c]) = 1 /\ down[c] = <<>> /\ h[c].pc \in {"idle", "gone"}
        /\ closed[c] \/ (spc = "resume" /\ up[c][i].block[1] = ver)
    BY <1>1 DEF RequestFirst
  <2>2. CASE closed[c]
    <3>1. closed'[c] /\ down'[c] = <<>>
      BY <1>4, <2>2
    <3> QED
      BY <2>1, <3>1
  <2>3. CASE ~closed[c]
    BY <1>5, <2>1, <2>3
  <2> QED
    BY <2>2, <2>3
<1>6. ~Live \/ spc # "resume" => \A c \in Conns : \A i \in 1 .. Len(up[c]) : IsPut(c, i) => closed[c]
  BY <1>1 DEF RequestFirst, Live
<1>7. CASE Begin
  BY <1>7, <1>5, <1>5, <1>6 DEF Begin, Live, Over, Fault
<1>8. CASE List
  BY <1>8, <1>5, <1>5, <1>6 DEF List, Live, Over, Fault
<1>9. CASE ListFails
  BY <1>9, <1>5, <1>5, <1>6 DEF ListFails, Live, Over, Fault
<1>10. CASE NoControl
  BY <1>10, <1>5, <1>5, <1>6 DEF NoControl, Live, Over, Fault
<1>11. CASE Check
  BY <1>11, <1>5, <1>5, <1>6 DEF Check, Live, Over, Fault
<1>12. CASE Dial
  <2>1. \A c \in Conns : h'[c].pc = "idle" \/ h'[c] = h[c]
    BY <1>12, <1>1 DEF Dial, Handlers
  <2>2. \A c \in Conns : \A i \in 1 .. Len(up[c]) : IsPut(c, i) => closed[c]
    BY <1>12, <1>6 DEF Dial
  <2>3. up' = up /\ down' = down /\ closed' = closed
    BY <1>12 DEF Dial
  <2> QED
    BY <1>1, <2>1, <2>2, <2>3 DEF RequestFirst, IsPut
<1>13. CASE DialFails
  BY <1>13, <1>5, <1>5, <1>6 DEF DialFails, Live, Over, Fault
<1>14. CASE Killed
  <2>1. CASE conns = 0
    BY <1>14, <1>0, <1>1, <1>2, <1>5, <2>1 DEF Killed
  <2>2. CASE conns # 0
    <3>1. conns \in Conns /\ Closes
      BY <1>14, <1>1, <2>2 DEF Killed, Conns, TypeOK
    <3>2. closed'[conns] /\ down'[conns] = <<>>
      BY <1>1, <3>1, ClosesIs
    <3> QED
      BY <1>14, <1>3, <1>5, <3>2 DEF Killed
  <2> QED
    BY <2>1, <2>2
<1>15. CASE GiveUp
  <2>1. conns \in Conns /\ Closes
    BY <1>15, ConnectionIs DEF GiveUp, Live
  <2>2. closed'[conns] /\ down'[conns] = <<>>
    BY <1>1, <2>1, ClosesIs
  <2> QED
    BY <1>15, <1>3, <1>5, <2>2 DEF GiveUp
<1>16. CASE Put
  <2>1. /\ up'[conns][Len(up[conns]) + 1] = [kind |-> "PUT", block |-> <<stored, 0>>]
        /\ Len(up'[conns]) = Len(up[conns]) + 1 /\ conns \in Conns
        /\ \A c \in Conns : c # conns => up'[c] = up[c]
    BY <1>16, SendTouches
  <2>2. /\ up[conns] = <<>> /\ Len(up[conns]) = 0
        /\ down[conns] = <<>> /\ h[conns].pc \in {"idle", "gone"}
    BY <1>16, <1>1 DEF Put, ConnectionIsFresh
  <2>3. \A c \in Conns : \A i \in 1 .. Len(up[c]) : IsPut(c, i) => closed[c]
    BY <1>16, <1>6 DEF Put
  <2>4. h' = h /\ down' = down /\ closed' = closed /\ ver' = stored /\ spc' = "resume"
    BY <1>16 DEF Put
  <2> QED
    BY <1>1, <2>1, <2>2, <2>3, <2>4 DEF RequestFirst, IsPut
<1>17. CASE Resume
  <2>1. \A i \in 1 .. Len(up[conns]) : conns \in Conns => ~IsPut(conns, i)
    BY <1>17, <1>1 DEF Resume, Answered, RequestFirst
  <2> QED
    BY <1>17, <1>3, <1>5, <2>1 DEF Resume
<1>18. CASE Data
  <2>1. /\ up'[conns][Len(up[conns]) + 1].kind # "PUT"
        /\ Len(up'[conns]) = Len(up[conns]) + 1 /\ conns \in Conns /\ ~closed[conns]
        /\ \A k \in 1 .. Len(up[conns]) : up'[conns][k] = up[conns][k]
        /\ \A c \in Conns : c # conns => up'[c] = up[c]
    BY <1>18, SendTouches DEF Put, Data, End
  <2>2. Len(up[conns]) \in Nat
    BY <1>1, <2>1
  <2>3. \A c \in Conns : \A i \in 1 .. Len(up[c]) : IsPut(c, i) => closed[c]
    BY <1>18, <1>6 DEF Data
  <2>5. ASSUME NEW c \in Conns, NEW i \in 1 .. Len(up'[c]), IsPut(c, i)'
        PROVE  i \in 1 .. Len(up[c]) /\ up'[c] = up[c]
    <3>1. i \in 1 .. Len(up[c]) /\ IsPut(c, i)
      BY <1>18, <2>5, SendAddsNoPut
    <3>2. closed[c]
      BY <2>3, <3>1
    <3>3. c # conns
      BY <2>1, <3>2
    <3> QED
      BY <2>1, <3>1, <3>3
  <2>6. h' = h /\ down' = down /\ closed' = closed
    BY <1>18 DEF Data
  <2> QED
    BY <1>1, <2>3, <2>5, <2>6 DEF RequestFirst, IsPut
<1>19. CASE End
  <2>1. /\ up'[conns][Len(up[conns]) + 1].kind # "PUT"
        /\ Len(up'[conns]) = Len(up[conns]) + 1 /\ conns \in Conns /\ ~closed[conns]
        /\ \A k \in 1 .. Len(up[conns]) : up'[conns][k] = up[conns][k]
        /\ \A c \in Conns : c # conns => up'[c] = up[c]
    BY <1>19, SendTouches DEF Put, Data, End
  <2>2. Len(up[conns]) \in Nat
    BY <1>1, <2>1
  <2>3. \A c \in Conns : \A i \in 1 .. Len(up[c]) : IsPut(c, i) => closed[c]
    BY <1>19, <1>6 DEF End
  <2>5. ASSUME NEW c \in Conns, NEW i \in 1 .. Len(up'[c]), IsPut(c, i)'
        PROVE  i \in 1 .. Len(up[c]) /\ up'[c] = up[c]
    <3>1. i \in 1 .. Len(up[c]) /\ IsPut(c, i)
      BY <1>19, <2>5, SendAddsNoPut
    <3>2. closed[c]
      BY <2>3, <3>1
    <3>3. c # conns
      BY <2>1, <3>2
    <3> QED
      BY <2>1, <3>1, <3>3
  <2>6. h' = h /\ down' = down /\ closed' = closed
    BY <1>19 DEF End
  <2> QED
    BY <1>1, <2>3, <2>5, <2>6 DEF RequestFirst, IsPut
<1>20. CASE Final
  <2>1. conns \in Conns /\ Closes
    BY <1>20, ConnectionIs DEF Final, Live
  <2>2. closed'[conns] /\ down'[conns] = <<>>
    BY <1>1, <2>1, ClosesIs
  <2> QED
    BY <1>20, <1>3, <1>5, <2>2 DEF Final
<1>21. ASSUME NEW c \in Conns, Handler(c) \/ LocalError(c) PROVE RequestFirst'
  <2>1. OnlyItsOwn(c) /\ spc' = spc /\ ver' = ver /\ closed' = closed
    BY <1>21, HandlerTouches DEF OnlyItsOwn
  <2>2. ASSUME NEW i \in 1 .. Len(up'[c]), IsPut(c, i)'
        PROVE  /\ UNCHANGED <<up, down>> /\ h[c].pc \in {"idle", "gone"}
               /\ h'[c].pc \in {"idle", "gone"}
    <3>1. PICK j \in 1 .. Len(up[c]) : up'[c][i] = up[c][j]
      BY <1>21, GoroutineGoesOn
    <3>2. IsPut(c, j)
      BY <2>2, <3>1 DEF IsPut
    <3>3. j = 1 /\ Len(up[c]) = 1 /\ h[c].pc \in {"idle", "gone"}
      BY <1>1, <3>1, <3>2 DEF RequestFirst
    <3>4. ~OneFrameLess(c)
      BY <2>2, <3>3 DEF OneFrameLess
    <3>5. up'[c] # <<>>
      BY <2>2
    <3> QED
      BY <1>21, <3>3, <3>4, <3>5, GoroutineStepsAre DEF GoroutineSteps, Handler, Proceeds
  <2>3. ASSUME NEW d \in Conns, NEW i \in 1 .. Len(up'[d]), IsPut(d, i)'
        PROVE  up'[d] = up[d] /\ down'[d] = down[d] /\ (h'[d] = h[d] \/ h'[d].pc \in {"idle", "gone"})
    BY <2>1, <2>2, <2>3 DEF OnlyItsOwn
  <2> QED
    BY <1>1, <2>1, <2>3 DEF RequestFirst, IsPut
<1>22. CASE ClientRestarts
  <2>1. \A c \in Conns : up'[c] = <<>>
    BY <1>22 DEF ClientRestarts
  <2> QED
    BY <2>1 DEF RequestFirst
<1>23. CASE Edit
  BY <1>23, <1>5 DEF Edit, Fault
<1>24. CASE Download
  BY <1>24, <1>5 DEF Download, Fault
<1>25. CASE ServiceLists
  BY <1>25, <1>5 DEF ServiceLists, Fault
<1>26. CASE UNCHANGED vars
  BY <1>26, <1>5 DEF Fault
<1> QED
  BY <1>7, <1>8, <1>9, <1>10, <1>11, <1>12, <1>13, <1>14, <1>15, <1>16, <1>17, <1>18, <1>19,
     <1>20, <1>21, <1>22, <1>23, <1>24, <1>25, <1>26 DEF Next, Command

LEMMA ConnectionIsFreshKeeps == IInv /\ [Next]_vars => ConnectionIsFresh'
<1> SUFFICES ASSUME IInv, [Next]_vars PROVE ConnectionIsFresh'
  OBVIOUS
<1> USE NowIs, BoundsAssumption DEF vars, server, job, try, link, files, client, others
<1>1. /\ ConnectionIsFresh /\ TypeOK /\ Links /\ h \in [Conns -> Handlers]
      /\ conns \in Nat /\ (Live => conns \in Conns)
  BY ConnectionIs, TypesAre DEF IInv, HandlerTypes, WorkerTypes
<1>2. CASE Begin
  BY <1>2, <1>1 DEF Begin, ConnectionIsFresh
<1>3. CASE List
  BY <1>3, <1>1 DEF List, ConnectionIsFresh
<1>4. CASE ListFails
  BY <1>4, <1>1 DEF ListFails, ConnectionIsFresh
<1>5. CASE NoControl
  BY <1>5, <1>1 DEF NoControl, ConnectionIsFresh
<1>6. CASE Check
  BY <1>6, <1>1 DEF Check, ConnectionIsFresh
<1>7. CASE Dial
  <2>1. conns' \in Conns /\ conns' = conns + 1
    BY <1>7, <1>1 DEF Dial, Conns
  <2>2. up[conns'] = <<>> /\ down[conns'] = <<>> /\ h'[conns'].pc = "idle"
    BY <1>7, <1>1, <2>1 DEF Dial, Links, Handlers
  <2> QED
    BY <1>7, <2>2 DEF Dial, ConnectionIsFresh
<1>8. CASE DialFails
  BY <1>8, <1>1 DEF DialFails, Again, ConnectionIsFresh
<1>9. CASE Killed
  BY <1>9, <1>1 DEF Killed, ConnectionIsFresh
<1>10. CASE GiveUp
  BY <1>10, <1>1 DEF GiveUp, Again, ConnectionIsFresh
<1>11. CASE Put
  BY <1>11, <1>1 DEF Put, ConnectionIsFresh
<1>12. CASE Resume
  BY <1>12, <1>1 DEF Resume, ConnectionIsFresh
<1>13. CASE Data
  BY <1>13, <1>1 DEF Data, ConnectionIsFresh
<1>14. CASE End
  BY <1>14, <1>1 DEF End, ConnectionIsFresh
<1>15. CASE Final
  BY <1>15, <1>1 DEF Final, ConnectionIsFresh
<1>16. ASSUME NEW c \in Conns, Handler(c) \/ LocalError(c) PROVE ConnectionIsFresh'
  <2> SUFFICES ASSUME spc = "put"
               PROVE  up'[conns] = <<>> /\ down'[conns] = <<>> /\ h'[conns].pc \in {"idle", "gone"}
    BY <1>16, HandlerTouches DEF OnlyItsOwn, ConnectionIsFresh
  <2>1. up[conns] = <<>> /\ down[conns] = <<>> /\ h[conns].pc \in {"idle", "gone"}
    BY <1>1 DEF ConnectionIsFresh
  <2>2. CASE c = conns
    <3>1. ~OneFrameLess(c)
      BY <2>1, <2>2 DEF OneFrameLess
    <3> QED
      BY <1>16, <2>1, <2>2, <3>1, GoroutineStepsAre DEF GoroutineSteps, Handler, Proceeds
  <2>3. CASE c # conns
    BY <1>16, <1>1, <2>1, <2>3, HandlerTouches DEF OnlyItsOwn, Live
  <2> QED
    BY <2>2, <2>3
<1>17. CASE ClientRestarts
  <2>1. \A c \in Conns : up'[c] = <<>> /\ (h[c].pc # "none" => h'[c].pc = "gone")
    BY <1>17, <1>1 DEF ClientRestarts, NoHandler
  <2> QED
    BY <1>17, <1>1, <2>1 DEF ClientRestarts, ConnectionIsFresh, Live
<1>18. CASE Edit
  BY <1>18, <1>1 DEF Edit, ConnectionIsFresh
<1>19. CASE Download
  BY <1>19, <1>1 DEF Download, ConnectionIsFresh
<1>20. CASE ServiceLists
  BY <1>20, <1>1 DEF ServiceLists, ConnectionIsFresh
<1>21. CASE UNCHANGED vars
  BY <1>21, <1>1 DEF ConnectionIsFresh
<1> QED
  BY <1>2, <1>3, <1>4, <1>5, <1>6, <1>7, <1>8, <1>9, <1>10, <1>11, <1>12, <1>13, <1>14, <1>15,
     <1>16, <1>17, <1>18, <1>19, <1>20, <1>21 DEF Next, Command

-----------------------------------------------------------------------------
(* The stream.                                                             *)

LEMMA NextFrame ==
  ASSUME NEW p \in Nat, NEW n \in Nat, NEW i \in 1 .. (n - 1)
  PROVE  i + 1 \in 1 .. n /\ p + (i + 1) = (p + 1) + i
OBVIOUS

LEMMA LastFrame ==
  ASSUME NEW p \in 0..Blocks, NEW n \in Nat, n # 0, p + n <= Blocks + 1, p + 1 > Blocks
  PROVE  p = Blocks /\ n = 1
BY BoundsAssumption

LEMMA StreamGoesOnKeeps == IInv /\ [Next]_vars => StreamGoesOn'
<1> SUFFICES ASSUME IInv, [Next]_vars PROVE StreamGoesOn'
  OBVIOUS
<1> USE NowIs, BoundsAssumption DEF vars, server, job, try, link, files, client, others
<1>0. /\ StreamGoesOn /\ RequestFirst /\ ConnectionIsFresh /\ InStep /\ TypeOK /\ WorkerTypes
      /\ up \in [Conns -> Seq(Requests)] /\ h \in [Conns -> Handlers]
  BY TypesAre DEF IInv, LinkTypes, HandlerTypes
<1>1. /\ \A c \in Conns : Len(up[c]) \in Nat /\ h[c].pos \in 0 .. Blocks
      /\ sent \in Nat /\ sent <= Blocks
  BY <1>0 DEF Handlers, WorkerTypes
<1>2. ASSUME UNCHANGED <<h, up>> PROVE StreamGoesOn'
  BY <1>0, <1>2 DEF StreamGoesOn
<1>3. CASE Begin
  BY <1>3, <1>2 DEF Begin, Fault
<1>4. CASE List
  BY <1>4, <1>2 DEF List, Fault
<1>5. CASE ListFails
  BY <1>5, <1>2 DEF ListFails, Fault
<1>6. CASE NoControl
  BY <1>6, <1>2 DEF NoControl, Fault
<1>7. CASE Check
  BY <1>7, <1>2 DEF Check, Fault
<1>8. CASE Dial
  <2>1. up' = up /\ \A c \in Conns : h'[c].pc = "idle" \/ h'[c] = h[c]
    BY <1>8, <1>0 DEF Dial, Handlers
  <2> QED
    BY <1>0, <2>1 DEF StreamGoesOn
<1>9. CASE DialFails
  BY <1>9, <1>2 DEF DialFails, Fault
<1>10. CASE Killed
  BY <1>10, <1>2 DEF Killed, Fault
<1>11. CASE GiveUp
  BY <1>11, <1>2 DEF GiveUp, Fault
<1>12. CASE Put
  <2>1. h' = h /\ conns \in Conns /\ \A c \in Conns : c # conns => up'[c] = up[c]
    BY <1>12, SendTouches DEF Put
  <2>2. h[conns].pc \in {"idle", "gone"}
    BY <1>12, <1>0 DEF Put, ConnectionIsFresh
  <2> QED
    BY <1>0, <2>1, <2>2 DEF StreamGoesOn
<1>13. CASE Resume
  BY <1>13, <1>2 DEF Resume, Fault
<1>14. CASE Data
  <2>1. /\ up'[conns][Len(up[conns]) + 1] = [kind |-> "DATA", block |-> <<ver, sent + 1>>]
        /\ Len(up'[conns]) = Len(up[conns]) + 1 /\ conns \in Conns /\ ~closed[conns]
        /\ \A k \in 1 .. Len(up[conns]) : up'[conns][k] = up[conns][k]
        /\ \A c \in Conns : c # conns => up'[c] = up[c]
    BY <1>14, SendTouches DEF Put, Data, End
  <2>2. h' = h /\ spc = "data" /\ sent < Blocks
    BY <1>14 DEF Data
  <2>3. ASSUME h[conns].pc \in {"open", "recv"}
        PROVE  /\ h[conns].pos + Len(up'[conns]) <= Blocks + 1
               /\ \A i \in 1 .. Len(up'[conns]) : IsFrame(up'[conns][i], h[conns].ver, h[conns].pos + i)
    <3>1. h[conns].ver = ver /\ sent = h[conns].pos + Len(up[conns])
      BY <1>0, <2>1, <2>2, <2>3 DEF InStep, Agree
    <3>2. h[conns].pos + Len(up'[conns]) = sent + 1
      BY <1>1, <2>1, <3>1
    <3>4. \A i \in 1 .. Len(up[conns]) : IsFrame(up'[conns][i], h[conns].ver, h[conns].pos + i)
      BY <1>0, <2>1, <2>3 DEF StreamGoesOn
    <3>5. ASSUME NEW i \in 1 .. Len(up'[conns])
          PROVE  IsFrame(up'[conns][i], h[conns].ver, h[conns].pos + i)
      <4>1. CASE i = Len(up[conns]) + 1
        <5>1. h[conns].pos + i = sent + 1 /\ up'[conns][i] = [kind |-> "DATA", block |-> <<ver, sent + 1>>]
          BY <1>1, <2>1, <3>1, <4>1
        <5> QED
          BY <1>1, <2>2, <3>1, <5>1 DEF IsFrame
      <4>2. CASE i # Len(up[conns]) + 1
        <5>1. i \in 1 .. Len(up[conns])
          BY <1>1, <2>1, <4>2
        <5> QED
          BY <3>4, <5>1
      <4> QED
        BY <4>1, <4>2
    <3> QED
      BY <1>1, <2>2, <3>2, <3>5
  <2>4. h[conns].pc \notin {"end", "times"}
    BY <1>0, <2>1, <2>2 DEF InStep
  <2> QED
    BY <1>0, <2>1, <2>2, <2>3, <2>4 DEF StreamGoesOn
<1>15. CASE End
  <2>1. /\ up'[conns][Len(up[conns]) + 1] = [kind |-> "END", block |-> Hole]
        /\ Len(up'[conns]) = Len(up[conns]) + 1 /\ conns \in Conns /\ ~closed[conns]
        /\ \A k \in 1 .. Len(up[conns]) : up'[conns][k] = up[conns][k]
        /\ \A c \in Conns : c # conns => up'[c] = up[c]
    BY <1>15, SendTouches DEF Put, Data, End
  <2>2. h' = h /\ spc = "data" /\ sent = Blocks
    BY <1>15 DEF End
  <2>3. ASSUME h[conns].pc \in {"open", "recv"}
        PROVE  /\ h[conns].pos + Len(up'[conns]) <= Blocks + 1
               /\ \A i \in 1 .. Len(up'[conns]) : IsFrame(up'[conns][i], h[conns].ver, h[conns].pos + i)
    <3>1. h[conns].ver = ver /\ sent = h[conns].pos + Len(up[conns])
      BY <1>0, <2>1, <2>2, <2>3 DEF InStep, Agree
    <3>2. h[conns].pos + Len(up'[conns]) = sent + 1
      BY <1>1, <2>1, <3>1
    <3>4. \A i \in 1 .. Len(up[conns]) : IsFrame(up'[conns][i], h[conns].ver, h[conns].pos + i)
      BY <1>0, <2>1, <2>3 DEF StreamGoesOn
    <3>5. ASSUME NEW i \in 1 .. Len(up'[conns])
          PROVE  IsFrame(up'[conns][i], h[conns].ver, h[conns].pos + i)
      <4>1. CASE i = Len(up[conns]) + 1
        <5>1. h[conns].pos + i = sent + 1 /\ up'[conns][i] = [kind |-> "END", block |-> Hole]
          BY <1>1, <2>1, <3>1, <4>1
        <5> QED
          BY <1>1, <2>2, <3>1, <5>1 DEF IsFrame
      <4>2. CASE i # Len(up[conns]) + 1
        <5>1. i \in 1 .. Len(up[conns])
          BY <1>1, <2>1, <4>2
        <5> QED
          BY <3>4, <5>1
      <4> QED
        BY <4>1, <4>2
    <3> QED
      BY <1>1, <2>2, <3>2, <3>5
  <2>4. h[conns].pc \notin {"end", "times"}
    BY <1>0, <2>1, <2>2 DEF InStep
  <2> QED
    BY <1>0, <2>1, <2>2, <2>3, <2>4 DEF StreamGoesOn
<1>16. CASE Final
  BY <1>16, <1>2 DEF Final, Fault
<1>17. ASSUME NEW c \in Conns, Handler(c) \/ LocalError(c) PROVE StreamGoesOn'
  <2>1. OnlyItsOwn(c) /\ GoroutineSteps(c)
    BY <1>17, HandlerTouches, GoroutineStepsAre
  <2>2. ASSUME h'[c].pc \in {"open", "recv"}
        PROVE  /\ h'[c].pos + Len(up'[c]) <= Blocks + 1
               /\ \A i \in 1 .. Len(up'[c]) : IsFrame(up'[c][i], h'[c].ver, h'[c].pos + i)
    <3>1. CASE HandlePut(c)
      <4>1. Len(up[c]) = 1
        BY <1>0, <1>1, <2>1, <3>1 DEF GoroutineSteps, OneFrameLess, RequestFirst
      <4>2. Len(up'[c]) = 0 /\ h'[c].pos \in 0 .. Blocks
        BY <2>1, <3>1, <4>1 DEF GoroutineSteps, OneFrameLess
      <4> QED
        BY <4>2
    <3>2. CASE Open(c)
      BY <1>0, <2>1, <3>2 DEF GoroutineSteps, Proceeds, StreamGoesOn
    <3>3. CASE Receives(c)
      <4>1. /\ h[c].pos + Len(up[c]) <= Blocks + 1
            /\ \A i \in 1 .. Len(up[c]) : IsFrame(up[c][i], h[c].ver, h[c].pos + i)
        BY <1>0, <2>1, <3>3 DEF GoroutineSteps, Proceeds, StreamGoesOn
      <4>2. /\ h'[c].ver = h[c].ver /\ h'[c].pos = h[c].pos + 1 /\ Len(up'[c]) = Len(up[c]) - 1
            /\ \A k \in 1 .. Len(up[c]) - 1 : up'[c][k] = up[c][k + 1]
        BY <2>1, <3>3 DEF GoroutineSteps, Proceeds, OneFrameLess
      <4>3. Len(up[c]) \in Nat /\ h[c].pos \in Nat
        BY <1>1
      <4>4. ASSUME NEW i \in 1 .. Len(up'[c]) PROVE IsFrame(up'[c][i], h'[c].ver, h'[c].pos + i)
        <5>0. i \in 1 .. Len(up[c]) - 1
          BY <4>2
        <5>1. i + 1 \in 1 .. Len(up[c]) /\ h[c].pos + (i + 1) = (h[c].pos + 1) + i
          BY <4>3, <5>0, NextFrame
        <5>2. IsFrame(up[c][i + 1], h[c].ver, h[c].pos + (i + 1))
          BY <4>1, <5>1
        <5>3. up'[c][i] = up[c][i + 1]
          BY <4>2, <5>0
        <5> QED
          BY <4>2, <5>1, <5>2, <5>3
      <4>5. h'[c].pos + Len(up'[c]) <= Blocks + 1
        BY <4>1, <4>2, <4>3, BoundsAssumption
      <4> QED
        BY <4>4, <4>5
    <3> QED
      BY <1>17, <2>1, <2>2, <3>1, <3>2, <3>3 DEF GoroutineSteps, Proceeds, Handler
  <2>3. ASSUME h'[c].pc \in {"end", "times"} PROVE up'[c] = <<>> /\ h'[c].pos = Blocks
    <3>1. CASE ReceivesEnd(c)
      <4>1. /\ h[c].pos + Len(up[c]) <= Blocks + 1 /\ Len(up[c]) # 0
            /\ IsFrame(up[c][1], h[c].ver, h[c].pos + 1) /\ up[c][1].kind = "END"
            /\ h'[c].pos = h[c].pos /\ Len(up'[c]) = Len(up[c]) - 1
        BY <1>0, <1>1, <2>1, <3>1 DEF GoroutineSteps, Proceeds, OneFrameLess, StreamGoesOn
      <4>2. h[c].pos + 1 > Blocks
        BY <1>1, <4>1, SMTT(30) DEF IsFrame
      <4>3. up'[c] \in Seq(Requests)
        BY LinkTypesKeep DEF LinkTypes
      <4>4. Len(up[c]) \in Nat /\ h[c].pos \in 0..Blocks
        BY <1>1
      <4>5. h[c].pos = Blocks /\ Len(up[c]) = 1
        BY <4>1, <4>2, <4>4, LastFrame
      <4>6. Len(up'[c]) = 0
        BY <4>1, <4>5
      <4> QED
        BY <4>1, <4>3, <4>5, <4>6
    <3>2. CASE Renames(c)
      BY <1>0, <2>1, <3>2 DEF GoroutineSteps, Proceeds, StreamGoesOn
    <3> QED
      BY <1>17, <2>1, <2>3, <3>1, <3>2 DEF GoroutineSteps, Proceeds, Handler
  <2>4. \A d \in Conns : d # c => h'[d] = h[d] /\ up'[d] = up[d]
    BY <2>1 DEF OnlyItsOwn
  <2> QED
    BY <1>0, <2>2, <2>3, <2>4 DEF StreamGoesOn
<1>18. CASE ClientRestarts
  <2>1. \A c \in Conns : h'[c].pc \in {"none", "gone"}
    BY <1>18, <1>0 DEF ClientRestarts, NoHandler
  <2> QED
    BY <2>1 DEF StreamGoesOn
<1>19. CASE Edit
  BY <1>19, <1>2 DEF Edit, Fault
<1>20. CASE Download
  BY <1>20, <1>2 DEF Download, Fault
<1>21. CASE ServiceLists
  BY <1>21, <1>2 DEF ServiceLists, Fault
<1>22. CASE UNCHANGED vars
  BY <1>22, <1>2 DEF Fault
<1> QED
  BY <1>3, <1>4, <1>5, <1>6, <1>7, <1>8, <1>9, <1>10, <1>11, <1>12, <1>13, <1>14, <1>15, <1>16,
     <1>17, <1>18, <1>19, <1>20, <1>21, <1>22 DEF Next, Command

-----------------------------------------------------------------------------
(* The worker and the goroutine of its connection.                         *)

LEMMA InStepKeeps == IInv /\ [Next]_vars => InStep'
<1> SUFFICES ASSUME IInv, [Next]_vars PROVE InStep'
  OBVIOUS
<1> USE NowIs, BoundsAssumption DEF vars, server, job, try, link, files, client, others
<1>0. /\ InStep /\ RequestFirst /\ ConnectionIsFresh /\ StreamGoesOn /\ TypeOK /\ WorkerTypes /\ Links
      /\ up \in [Conns -> Seq(Requests)] /\ down \in [Conns -> Seq(Answers)]
      /\ h \in [Conns -> Handlers] /\ Links'
      /\ conns \in Nat /\ conns' \in Nat
  <2>1. WorkerTypes /\ WorkerTypes' /\ LinkTypes /\ HandlerTypes /\ Links'
    BY TypesAre, LinksKeep, WorkerTypesKeep DEF IInv
  <2>2. conns \in Nat
    BY <2>1 DEF WorkerTypes
  <2>3. conns' \in Nat
    BY <2>1 DEF WorkerTypes
  <2>4. InStep /\ RequestFirst /\ ConnectionIsFresh /\ StreamGoesOn /\ TypeOK /\ Links
    BY DEF IInv
  <2>5. up \in [Conns -> Seq(Requests)] /\ down \in [Conns -> Seq(Answers)]
    BY <2>1 DEF LinkTypes
  <2>6. h \in [Conns -> Handlers]
    BY <2>1 DEF HandlerTypes
  <2> QED
    BY <2>1, <2>2, <2>3, <2>4, <2>5, <2>6
<1>1. /\ \A c \in Conns : Len(up[c]) \in Nat /\ Len(down[c]) \in Nat /\ h[c].pos \in 0 .. Blocks
      /\ sent \in Nat /\ sent <= Blocks
  BY <1>0 DEF Handlers, WorkerTypes
<1>2. \A c \in Conns : c \in Nat /\ c # 0
  BY DEF Conns
\* Without a connection there is nothing to agree on.
<1>3. ASSUME ~Live' PROVE InStep'
  <2>1. \A c \in Conns : h'[c].pc = "none" \/ closed'[c]
    BY <1>0, <1>2, <1>3 DEF Links
  <2>2. \A c \in Conns : down'[c] = <<>>
    BY <1>0, <1>2, <1>3 DEF Links
  <2> QED
    BY <2>1, <2>2 DEF InStep
<1>4. ASSUME UNCHANGED <<h, up, down, closed, spc, ver, sent>> PROVE InStep'
  BY <1>0, <1>4 DEF InStep, Agree
\* Whose connection it is.
<1>5. \A c \in Conns : ~closed[c] /\ h[c].pc # "none" => c = conns
  BY <1>0, <1>2 DEF Links
<1>6. CASE Begin
  BY <1>6, <1>3 DEF Begin, Live, Fault
<1>7. CASE List
  BY <1>7, <1>3 DEF List, Live, Fault
<1>8. CASE ListFails
  BY <1>8, <1>3 DEF ListFails, Live, Fault
<1>9. CASE NoControl
  BY <1>9, <1>3 DEF NoControl, Live, Fault
<1>10. CASE Check
  BY <1>10, <1>3 DEF Check, Live, Fault
<1>11. CASE Dial
  <2>1. \A c \in Conns : h'[c].pc = "idle" \/ h'[c] = h[c]
    BY <1>11, <1>0 DEF Dial, Handlers
  <2>2. \A c \in Conns : h[c].pc # "none" => closed[c]
    BY <1>11, <1>0, <1>5 DEF Dial, Links, Live
  <2>3. \A c \in Conns : down[c] = <<>>
    BY <1>11, <1>0, <1>2 DEF Dial, Links, Live
  <2>4. down' = down /\ closed' = closed
    BY <1>11 DEF Dial
  <2> QED
    BY <2>1, <2>2, <2>3, <2>4 DEF InStep
<1>12. CASE DialFails
  BY <1>12, <1>3 DEF DialFails, Live, Again, Fault
<1>13. CASE Killed
  BY <1>13, <1>3 DEF Killed, Live, Fault
<1>14. CASE GiveUp
  BY <1>14, <1>3 DEF GiveUp, Live, Again, Fault
<1>15. CASE Put
  <2>1. h' = h /\ down' = down /\ closed' = closed /\ conns \in Conns
    BY <1>15, SendTouches DEF Put
  <2>2. h[conns].pc \in {"idle", "gone"}
    BY <1>15, <1>0 DEF Put, ConnectionIsFresh
  <2>3. \A c \in Conns : ~closed[c] => h[c].pc \in {"none", "idle", "gone"}
    BY <1>5, <2>2
  <2>4. \A c \in Conns : \A i \in 1 .. Len(down[c]) : down[c][i].kind # "OK"
    BY <1>15, <1>0 DEF Put, InStep
  <2> QED
    BY <2>1, <2>3, <2>4 DEF InStep
<1>16. CASE Resume
  <2>1. conns \in Conns /\ down[conns] # <<>> /\ Receive /\ spc = "resume" /\ spc' = "data"
    BY <1>16, ConnectionIs DEF Resume, Live, Answered
  <2>2. UNCHANGED <<h, up, closed, ver>>
    BY <1>16 DEF Resume
  <2>3. /\ Len(down'[conns]) = Len(down[conns]) - 1 /\ Head(down[conns]) = down[conns][1]
        /\ \A k \in 1 .. Len(down[conns]) - 1 : down'[conns][k] = down[conns][k + 1]
        /\ \A d \in Conns : d # conns => down'[d] = down[d]
    BY <1>0, <2>1, ReceiveIs
  <2>4. ASSUME NEW c \in Conns, NEW i \in 1 .. Len(down'[c]), down'[c][i].kind = "OK" PROVE FALSE
    <3>1. CASE c = conns
      <4>1. i + 1 \in 1 .. Len(down[c]) /\ down'[c][i] = down[c][i + 1]
        BY <1>1, <2>3, <3>1
      <4> QED
        BY <1>0, <2>1, <2>4, <4>1 DEF InStep
    <3>2. CASE c # conns
      BY <1>0, <2>1, <2>3, <2>4, <3>2 DEF InStep
    <3> QED
      BY <3>1, <3>2
  <2>5. ASSUME NEW c \in Conns, ~closed[c], h[c].pc \in {"open", "recv"}
        PROVE  h[c].ver = ver /\ sent' = h[c].pos + Len(up[c])
    <3>1. c = conns /\ h[c].ver = ver /\ up[c] = <<>>
          /\ down[c] = <<[kind |-> "RESUME", offset |-> h[c].pos]>>
      BY <1>0, <1>5, <2>1, <2>5 DEF InStep, Agree
    <3>2. Head(down[conns]).offset = h[c].pos
      BY <2>3, <3>1
    <3>3. sent' = h[c].pos
      BY <1>16, <1>1, <3>2 DEF Resume
    <3> QED
      BY <1>1, <3>1, <3>3
  <2>6. \A c \in Conns : ~closed[c] => h[c].pc \notin {"end", "times"}
    BY <1>0, <2>1 DEF InStep
  <2> QED
    BY <2>1, <2>2, <2>4, <2>5, <2>6 DEF InStep, Agree
<1>17. CASE Data
  <2>1. /\ Len(up'[conns]) = Len(up[conns]) + 1 /\ conns \in Conns
        /\ \A c \in Conns : c # conns => up'[c] = up[c]
    BY <1>17, SendTouches
  <2>2. UNCHANGED <<h, down, closed, ver>> /\ spc = "data" /\ spc' = "data" /\ sent' = sent + 1
    BY <1>17 DEF Data
  <2>3. \A c \in Conns : ~closed[c] => h[c].pc \notin {"end", "times"}
    BY <1>0, <2>2 DEF InStep
  <2>4. \A c \in Conns : ~closed[c] /\ h[c].pc \in {"open", "recv"} =>
          c = conns /\ h[c].ver = ver /\ sent = h[c].pos + Len(up[c])
    BY <1>0, <1>5, <2>2 DEF InStep, Agree
  <2>5. \A c \in Conns : \A i \in 1 .. Len(down[c]) : down[c][i].kind # "OK"
    BY <1>0, <2>2 DEF InStep
  <2>6. \A c \in Conns : ~closed[c] /\ h[c].pc \in {"open", "recv"} => Agree(c)'
    <3> SUFFICES ASSUME NEW c \in Conns, ~closed[c], h[c].pc \in {"open", "recv"} PROVE Agree(c)'
      OBVIOUS
    <3>1. c = conns /\ h[c].ver = ver /\ sent = h[c].pos + Len(up[c])
      BY <2>4
    <3>2. h[c].pos + Len(up'[c]) = sent + 1
      BY <1>1, <2>1, <3>1
    <3> QED
      BY <2>2, <3>1, <3>2 DEF Agree
  <2> QED
    BY <2>2, <2>3, <2>5, <2>6 DEF InStep
<1>18. CASE End
  <2>1. /\ Len(up'[conns]) = Len(up[conns]) + 1 /\ conns \in Conns
        /\ \A c \in Conns : c # conns => up'[c] = up[c]
    BY <1>18, SendTouches
  <2>2. UNCHANGED <<h, down, closed, ver>> /\ spc = "data" /\ spc' = "final" /\ sent = Blocks /\ sent' = sent
    BY <1>18 DEF End
  <2>3. \A c \in Conns : ~closed[c] => h[c].pc \notin {"end", "times"}
    BY <1>0, <2>2 DEF InStep
  <2>4. \A c \in Conns : ~closed[c] /\ h[c].pc \in {"open", "recv"} =>
          c = conns /\ h[c].ver = ver /\ sent = h[c].pos + Len(up[c])
    BY <1>0, <1>5, <2>2 DEF InStep, Agree
  <2>5. \A c \in Conns : \A i \in 1 .. Len(down[c]) : down[c][i].kind # "OK"
    BY <1>0, <2>2 DEF InStep
  <2>6. \A c \in Conns : ~closed[c] /\ h[c].pc \in {"open", "recv"} => Agree(c)'
    <3> SUFFICES ASSUME NEW c \in Conns, ~closed[c], h[c].pc \in {"open", "recv"} PROVE Agree(c)'
      OBVIOUS
    <3>1. c = conns /\ h[c].ver = ver /\ sent = h[c].pos + Len(up[c])
      BY <2>4
    <3>2. h[c].pos + Len(up'[c]) = sent + 1
      BY <1>1, <2>1, <3>1
    <3> QED
      BY <2>2, <3>1, <3>2 DEF Agree
  <2> QED
    BY <2>2, <2>3, <2>5, <2>6 DEF InStep
<1>19. CASE Final
  BY <1>19, <1>3 DEF Final, Live, Fault
<1>20. ASSUME NEW c \in Conns, Handler(c) \/ LocalError(c) PROVE InStep'
  <2>1. OnlyItsOwn(c) /\ GoroutineSteps(c) /\ UNCHANGED <<closed, spc, ver, sent>>
    BY <1>20, HandlerTouches, GoroutineStepsAre DEF OnlyItsOwn
  <2>2. ASSUME ~closed[c], h'[c].pc \in {"open", "recv"} PROVE Agree(c)'
    <3>1. CASE HandlePut(c)
      <4>1. /\ h'[c].ver = up[c][1].block[1] /\ IsPut(c, 1) /\ Len(up'[c]) = Len(up[c]) - 1
            /\ Len(up[c]) \in Nat \ {0}
        BY <2>1, <3>1 DEF GoroutineSteps, OneFrameLess
      <4>2. Len(up[c]) = 1 /\ down[c] = <<>> /\ spc = "resume" /\ up[c][1].block[1] = ver
        BY <1>0, <2>2, <4>1 DEF RequestFirst
      <4>3. down'[c] = <<[kind |-> "RESUME", offset |-> h'[c].pos]>>
        BY <2>1, <2>2, <3>1, <4>2 DEF GoroutineSteps, OneAnswerMore
      <4>4. up'[c] \in Seq(Requests)
        BY LinkTypesKeep DEF LinkTypes
      <4>5. up'[c] = <<>>
        BY <4>1, <4>2, <4>4
      <4> QED
        BY <2>1, <4>1, <4>2, <4>3, <4>5 DEF Agree
    <3>2. CASE Open(c)
      BY <1>0, <2>1, <2>2, <3>2 DEF GoroutineSteps, Proceeds, InStep, Agree
    <3>3. CASE Receives(c)
      <4>1. /\ h'[c].ver = h[c].ver /\ h'[c].pos = h[c].pos + 1 /\ Len(up'[c]) = Len(up[c]) - 1
            /\ Len(up[c]) # 0 /\ h[c].pc = "recv"
        BY <2>1, <3>3 DEF GoroutineSteps, Proceeds, OneFrameLess
      <4>2. Agree(c) /\ up[c] # <<>>
        BY <1>0, <2>2, <4>1 DEF InStep
      <4>3. Len(up[c]) \in Nat /\ h[c].pos \in Nat
        BY <1>1
      <4>4. h'[c].pos + Len(up'[c]) = h[c].pos + Len(up[c])
        BY <4>1, <4>3, SMTT(30)
      <4> QED
        BY <2>1, <4>1, <4>2, <4>4 DEF Agree
    <3> QED
      BY <1>20, <2>1, <2>2, <3>1, <3>2, <3>3 DEF GoroutineSteps, Proceeds, Handler
  <2>3. ASSUME ~closed[c], h'[c].pc \in {"end", "times"} PROVE spc = "final" /\ h'[c].ver = ver
    <3>1. CASE ReceivesEnd(c)
      <4>1. /\ h'[c].ver = h[c].ver /\ Len(up[c]) # 0 /\ h[c].pc = "recv" /\ up[c][1].kind = "END"
        BY <1>1, <2>1, <3>1 DEF GoroutineSteps, Proceeds, OneFrameLess
      <4>2. Agree(c) /\ up[c] # <<>>
        BY <1>0, <2>3, <4>1 DEF InStep
      <4>3. IsFrame(up[c][1], h[c].ver, h[c].pos + 1)
        BY <1>0, <1>1, <4>1 DEF StreamGoesOn
      <4>4. h[c].pos + 1 > Blocks
        BY <1>1, <4>1, <4>3 DEF IsFrame
      <4>5. spc # "data"
        BY <1>1, <4>1, <4>2, <4>4 DEF Agree
      <4> QED
        BY <4>1, <4>2, <4>5 DEF Agree
    <3>2. CASE Renames(c)
      BY <1>0, <2>1, <2>3, <3>2 DEF GoroutineSteps, Proceeds, InStep
    <3> QED
      BY <1>20, <2>1, <2>3, <3>1, <3>2 DEF GoroutineSteps, Proceeds, Handler
  <2>4. ASSUME NEW i \in 1 .. Len(down'[c]), down'[c][i].kind = "OK" PROVE spc = "final"
    <3>1. CASE closed[c]
      BY <1>0, <2>1, <2>4, <3>1 DEF OnlyItsOwn, InStep
    <3>2. CASE i \in 1 .. Len(down[c]) /\ down'[c][i] = down[c][i]
      BY <1>0, <2>4, <3>2 DEF InStep
    <3>3. CASE SetsTimes(c) /\ ~closed[c]
      BY <1>0, <2>1, <3>3 DEF GoroutineSteps, InStep
    <3>4. CASE ~closed[c] /\ ~SetsTimes(c) /\ ~(i \in 1 .. Len(down[c]) /\ down'[c][i] = down[c][i])
      <4>1. down' # down
        BY <3>4
      <4>2. OneAnswerMore(c, Bad) \/ OneAnswerMore(c, [kind |-> "RESUME", offset |-> h'[c].pos])
        BY <1>20, <2>1, <3>4, <4>1 DEF GoroutineSteps, Handler
      <4>3. i = Len(down[c]) + 1
        BY <1>1, <3>4, <4>2 DEF OneAnswerMore
      <4>4. down'[c][i].kind \in {"BAD", "RESUME"}
        BY <3>4, <4>2, <4>3 DEF OneAnswerMore, Bad
      <4> QED
        BY <2>4, <4>4
    <3> QED
      BY <3>1, <3>2, <3>3, <3>4
  <2>5. \A d \in Conns : d # c => h'[d] = h[d] /\ up'[d] = up[d] /\ down'[d] = down[d]
    BY <2>1 DEF OnlyItsOwn
  <2>6. \A d \in Conns : ~closed[d] /\ h'[d].pc \in {"open", "recv"} => Agree(d)'
    BY <1>0, <2>1, <2>2, <2>5 DEF InStep, Agree
  <2> QED
    BY <1>0, <2>1, <2>3, <2>4, <2>5, <2>6 DEF InStep
<1>21. CASE ClientRestarts
  <2>1. \A c \in Conns : h'[c].pc \in {"none", "gone"}
    BY <1>21, <1>0 DEF ClientRestarts, NoHandler
  <2>2. UNCHANGED <<down, closed, spc>>
    BY <1>21 DEF ClientRestarts
  <2> QED
    BY <1>0, <2>1, <2>2 DEF InStep
<1>22. CASE Edit
  BY <1>22, <1>4 DEF Edit, Fault
<1>23. CASE Download
  BY <1>23, <1>4 DEF Download, Fault
<1>24. CASE ServiceLists
  BY <1>24, <1>4 DEF ServiceLists, Fault
<1>25. CASE UNCHANGED vars
  BY <1>25, <1>4 DEF Fault
<1> QED
  BY <1>6, <1>7, <1>8, <1>9, <1>10, <1>11, <1>12, <1>13, <1>14, <1>15, <1>16, <1>17, <1>18, <1>19,
     <1>20, <1>21, <1>22, <1>23, <1>24, <1>25 DEF Next, Command

-----------------------------------------------------------------------------
(* How long the queues get.                                                *)

LEMMA CountsAre ==
  ASSUME IInv, [Next]_vars
  PROVE  /\ \A c \in Conns :
              /\ Ups(c) \in Nat /\ Downs(c) \in Nat /\ Owes(c) \in {0, 1}
              /\ Pending(c) \in Nat /\ Pending(c) = Ups(c) + Downs(c) + Owes(c)
              /\ Ups(c)' \in Nat /\ Downs(c)' \in Nat /\ Owes(c)' \in {0, 1}
              /\ Pending(c)' \in Nat /\ Pending(c)' = Ups(c)' + Downs(c)' + Owes(c)'
         /\ sent \in Nat /\ sent <= Blocks /\ sent' \in Nat
<1>1. \A c \in Conns :
        /\ Len(up[c]) \in Nat /\ Len(up'[c]) \in Nat
        /\ Len(down[c]) \in Nat /\ Len(down'[c]) \in Nat
  BY LinkTypesKeep, TypesAre DEF LinkTypes, IInv
<1>2. \A c \in Conns : Ups(c) \in Nat /\ Downs(c) \in Nat /\ Ups(c)' \in Nat /\ Downs(c)' \in Nat
  BY <1>1 DEF Ups, Downs
<1>3. \A c \in Conns : Owes(c) \in {0, 1} /\ Owes(c)' \in {0, 1}
  BY DEF Owes
<1>4. \A c \in Conns :
        /\ Pending(c) \in Nat /\ Pending(c) = Ups(c) + Downs(c) + Owes(c)
        /\ Pending(c)' \in Nat /\ Pending(c)' = Ups(c)' + Downs(c)' + Owes(c)'
  BY <1>2, <1>3 DEF Pending
<1>5. sent \in Nat /\ sent <= Blocks /\ sent' \in Nat
  BY TypesAre, WorkerTypesKeep, BoundsAssumption DEF IInv, WorkerTypes
<1> QED
  BY <1>2, <1>3, <1>4, <1>5

Sends == {"resume", "data", "final"}

\* A goroutine has no more answers to give than before, but for a request.
LEMMA PendingIs ==
  ASSUME IInv, NEW c \in Conns, Handler(c) \/ LocalError(c)
  PROVE  /\ Ups(c)' <= Ups(c)
         /\ ~closed[c] => Pending(c)' <= Pending(c) \/ (HandlePut(c) /\ Pending(c)' = Pending(c) + 1)
         /\ OneFrameLess(c) => Ups(c)' = Ups(c) - 1
<1>1. /\ Ups(c) \in Nat /\ Downs(c) \in Nat /\ Ups(c)' \in Nat /\ Downs(c)' \in Nat
      /\ Pending(c) = Ups(c) + Downs(c) + Owes(c) /\ Pending(c)' = Ups(c)' + Downs(c)' + Owes(c)'
  BY CountsAre DEF Next
<1>2. OneFrameLess(c) => Ups(c)' = Ups(c) - 1
  BY DEF OneFrameLess, Ups
<1>3. ~closed[c] => \A x : OneAnswerMore(c, x) => Downs(c)' = Downs(c) + 1
  BY DEF OneAnswerMore, Downs
<1>4. /\ up'[c] = <<>> => Ups(c)' = 0
      /\ up' = up => Ups(c)' = Ups(c)
      /\ down' = down => Downs(c)' = Downs(c)
  BY DEF Ups, Downs
<1>5. /\ Owes(c) = IF h[c].pc \in {"open", "recv", "end", "times"} THEN 1 ELSE 0
      /\ Owes(c)' = IF h'[c].pc \in {"open", "recv", "end", "times"} THEN 1 ELSE 0
  BY DEF Owes
<1>6. GoroutineSteps(c)
  BY GoroutineStepsAre
<1>7. CASE HandlePut(c)
  BY <1>1, <1>2, <1>3, <1>4, <1>5, <1>6, <1>7 DEF GoroutineSteps, Proceeds
<1>8. CASE Open(c)
  BY <1>1, <1>2, <1>3, <1>4, <1>5, <1>6, <1>8 DEF GoroutineSteps, Proceeds
<1>9. CASE Receives(c)
  BY <1>1, <1>2, <1>3, <1>4, <1>5, <1>6, <1>9 DEF GoroutineSteps, Proceeds
<1>10. CASE Sticks(c)
  BY <1>1, <1>2, <1>3, <1>4, <1>5, <1>6, <1>10 DEF GoroutineSteps, Proceeds
<1>11. CASE ReceivesEnd(c)
  BY <1>1, <1>2, <1>3, <1>4, <1>5, <1>6, <1>11 DEF GoroutineSteps, Proceeds
<1>12. CASE SizeWrong(c)
  BY <1>1, <1>2, <1>3, <1>4, <1>5, <1>6, <1>12 DEF GoroutineSteps, Proceeds
<1>13. CASE Renames(c)
  BY <1>1, <1>2, <1>3, <1>4, <1>5, <1>6, <1>13 DEF GoroutineSteps, Proceeds
<1>14. CASE SetsTimes(c)
  BY <1>1, <1>2, <1>3, <1>4, <1>5, <1>6, <1>14 DEF GoroutineSteps, Proceeds
<1>15. CASE Leaves(c)
  <2>1. h'[c].pc = "gone" /\ up'[c] = <<>> /\ down' = down
    BY <1>6, <1>15 DEF GoroutineSteps
  <2>2. Ups(c)' = 0 /\ Owes(c)' = 0 /\ Downs(c)' = Downs(c)
    BY <1>4, <1>5, <2>1
  <2>3. Owes(c) >= 0 /\ Owes(c) \in Nat
    BY <1>5
  <2> QED
    BY <1>1, <1>2, <2>2, <2>3
<1>16. CASE Unsupported(c)
  BY <1>1, <1>2, <1>3, <1>4, <1>5, <1>6, <1>16 DEF GoroutineSteps, Proceeds
<1>17. CASE LocalError(c)
  BY <1>1, <1>2, <1>3, <1>4, <1>5, <1>6, <1>17 DEF GoroutineSteps, Proceeds
<1> QED
  BY <1>2, <1>7, <1>8, <1>9, <1>10, <1>11, <1>12, <1>13, <1>14, <1>15, <1>16, <1>17 DEF Handler

LEMMA LengthsKeep == IInv /\ [Next]_vars => Lengths'
<1> SUFFICES ASSUME IInv, [Next]_vars PROVE Lengths'
  OBVIOUS
<1> USE BoundsAssumption DEF vars, server, job, try, link, files, client, others
<1>0. /\ Lengths /\ RequestFirst /\ ConnectionIsFresh /\ Links /\ TypeOK
      /\ up \in [Conns -> Seq(Requests)] /\ h \in [Conns -> Handlers]
  BY TypesAre DEF IInv, LinkTypes, HandlerTypes
<1>1. /\ \A c \in Conns :
           /\ Ups(c) \in Nat /\ Downs(c) \in Nat /\ Owes(c) \in {0, 1}
           /\ Pending(c) \in Nat /\ Pending(c) = Ups(c) + Downs(c) + Owes(c)
           /\ Ups(c)' \in Nat /\ Downs(c)' \in Nat /\ Owes(c)' \in {0, 1}
           /\ Pending(c)' \in Nat /\ Pending(c)' = Ups(c)' + Downs(c)' + Owes(c)'
      /\ sent \in Nat /\ sent <= Blocks /\ sent' \in Nat
  BY CountsAre
\* What has not changed.
<1>2. /\ \A c \in Conns : h'[c] = h[c] => Owes(c)' = Owes(c)
      /\ \A c \in Conns : up'[c] = up[c] => Ups(c)' = Ups(c) /\ Asked(c)' = Asked(c)
      /\ \A c \in Conns : down'[c] = down[c] => Downs(c)' = Downs(c)
  BY DEF Owes, Ups, Downs, Asked, IsPut
<1>3. \A c \in Conns : up[c] = <<>> => Ups(c) = 0
  BY DEF Ups
<1>4. spc \in Sends \/ Live => conns \in Conns
  BY ConnectionIs DEF Live, Sends
<1>5. ASSUME up' = up, spc' \notin Sends PROVE Lengths'
  BY <1>0, <1>2, <1>5 DEF Lengths, Sends
<1>6. ASSUME UNCHANGED <<h, up, down, spc, sent, conns>> PROVE Lengths'
  BY <1>0, <1>1, <1>2, <1>4, <1>6 DEF Lengths, Sends
<1>7. CASE Begin
  BY <1>7, <1>5 DEF Begin, Sends, Fault
<1>8. CASE List
  BY <1>8, <1>5 DEF List, Sends, Fault
<1>9. CASE ListFails
  BY <1>9, <1>5 DEF ListFails, Sends, Fault
<1>10. CASE NoControl
  BY <1>10, <1>5 DEF NoControl, Sends, Fault
<1>11. CASE Check
  BY <1>11, <1>5 DEF Check, Sends, Fault
<1>12. CASE Dial
  BY <1>12, <1>5 DEF Dial, Sends, Fault
<1>13. CASE DialFails
  BY <1>13, <1>5 DEF DialFails, Sends, Again, Fault
<1>14. CASE Killed
  BY <1>14, <1>5 DEF Killed, Sends, Fault
<1>15. CASE GiveUp
  BY <1>15, <1>5 DEF GiveUp, Sends, Again, Fault
<1>16. CASE Put
  <2>1. /\ conns \in Conns /\ Len(up'[conns]) = Len(up[conns]) + 1 /\ spc = "put"
        /\ \A c \in Conns : c # conns => up'[c] = up[c]
    BY <1>16, SendTouches DEF Put
  <2>2. h' = h /\ down' = down /\ conns' = conns /\ spc' = "resume"
    BY <1>16 DEF Put
  <2>3. up[conns] = <<>> /\ down[conns] = <<>> /\ h[conns].pc \in {"idle", "gone"}
    BY <1>0, <2>1 DEF ConnectionIsFresh
  <2>4. Len(up'[conns]) = 1
    BY <2>1, <2>3
  <2>5. ASSUME NEW c \in Conns, c = conns PROVE Ups(c)' = 1 /\ Pending(c)' = 1
    <3>1. Ups(c)' = 1
      BY <2>4, <2>5 DEF Ups
    <3>2. Downs(c)' = 0
      BY <2>2, <2>3, <2>5 DEF Downs
    <3>3. Owes(c)' = 0
      BY <2>2, <2>3, <2>5 DEF Owes
    <3> QED
      BY <1>1, <3>1, <3>2, <3>3
  <2>6. \A c \in Conns : Ups(c)' <= Blocks + 2
    BY <1>0, <1>2, <2>1, <2>5 DEF Lengths
  <2> QED
    BY <2>1, <2>2, <2>5, <2>6 DEF Lengths
<1>17. CASE Resume
  <2>1. conns \in Conns /\ down[conns] # <<>> /\ Receive /\ spc = "resume" /\ spc' = "data"
    BY <1>17, ConnectionIs DEF Resume, Live, Answered
  <2>2. h' = h /\ up' = up /\ conns' = conns
    BY <1>17 DEF Resume
  <2>3. Len(down'[conns]) = Len(down[conns]) - 1
    BY <1>0, <2>1, ReceiveIs
  <2>4. ASSUME NEW c \in Conns, c = conns PROVE Ups(c)' <= 1 /\ Pending(c)' <= 1
    <3>1. Downs(c)' = Downs(c) - 1
      BY <2>3, <2>4 DEF Downs
    <3>2. Ups(c) <= 1 /\ Pending(c) <= 2
      BY <1>0, <2>1, <2>4 DEF Lengths
    <3> QED
      BY <1>1, <1>2, <2>2, <3>1, <3>2
  <2> QED
    BY <1>0, <1>1, <1>2, <2>1, <2>2, <2>4 DEF Lengths
<1>18. CASE Data
  <2>1. /\ conns \in Conns /\ Len(up'[conns]) = Len(up[conns]) + 1 /\ spc = "data"
        /\ \A c \in Conns : c # conns => up'[c] = up[c]
    BY <1>18, SendTouches DEF Data
  <2>2. h' = h /\ down' = down /\ conns' = conns /\ spc' = "data" /\ sent' = sent + 1 /\ sent < Blocks
    BY <1>18 DEF Data
  <2>3. Ups(conns) <= sent + 1 /\ Pending(conns) <= sent + 2
    BY <1>0, <2>1 DEF Lengths
  <2>4. ASSUME NEW c \in Conns, c = conns PROVE Ups(c)' = Ups(c) + 1 /\ Pending(c)' = Pending(c) + 1
    <3>1. Ups(c)' = Ups(c) + 1
      BY <2>1, <2>4 DEF Ups
    <3> QED
      BY <1>1, <1>2, <2>2, <3>1
  <2>5. \A c \in Conns : Ups(c)' <= Blocks + 2
    <3> SUFFICES ASSUME NEW c \in Conns PROVE Ups(c)' <= Blocks + 2
      OBVIOUS
    <3>1. CASE c # conns
      BY <1>0, <1>2, <2>1, <3>1 DEF Lengths
    <3>2. CASE c = conns
      <4>1. Ups(c) <= Blocks + 1 /\ Ups(c) \in Nat
        BY <1>1, <2>2, <2>3, <3>2
      <4> QED
        BY <2>4, <3>2, <4>1
    <3> QED
      BY <3>1, <3>2
  <2> QED
    BY <1>1, <2>1, <2>2, <2>3, <2>4, <2>5, SMTT(30) DEF Lengths
<1>19. CASE End
  <2>1. /\ conns \in Conns /\ Len(up'[conns]) = Len(up[conns]) + 1 /\ spc = "data"
        /\ \A c \in Conns : c # conns => up'[c] = up[c]
    BY <1>19, SendTouches DEF End
  <2>2. h' = h /\ down' = down /\ conns' = conns /\ spc' = "final" /\ sent = Blocks
    BY <1>19 DEF End
  <2>3. Ups(conns) <= sent + 1 /\ Pending(conns) <= sent + 2
    BY <1>0, <2>1 DEF Lengths
  <2>4. ASSUME NEW c \in Conns, c = conns PROVE Ups(c)' = Ups(c) + 1 /\ Pending(c)' = Pending(c) + 1
    <3>1. Ups(c)' = Ups(c) + 1
      BY <2>1, <2>4 DEF Ups
    <3> QED
      BY <1>1, <1>2, <2>2, <3>1
  <2>5. \A c \in Conns : Ups(c)' <= Blocks + 2
    <3> SUFFICES ASSUME NEW c \in Conns PROVE Ups(c)' <= Blocks + 2
      OBVIOUS
    <3>1. CASE c # conns
      BY <1>0, <1>2, <2>1, <3>1 DEF Lengths
    <3>2. CASE c = conns
      <4>1. Ups(c) <= Blocks + 1 /\ Ups(c) \in Nat
        BY <1>1, <2>2, <2>3, <3>2
      <4> QED
        BY <2>4, <3>2, <4>1
    <3> QED
      BY <3>1, <3>2
  <2> QED
    BY <1>1, <2>1, <2>2, <2>3, <2>4, <2>5 DEF Lengths
<1>20. CASE Final
  BY <1>20, <1>5 DEF Final, Sends, Fault
<1>21. ASSUME NEW c \in Conns, Handler(c) \/ LocalError(c) PROVE Lengths'
  <2>1. OnlyItsOwn(c) /\ spc' = spc /\ sent' = sent /\ conns' = conns
    BY <1>21, HandlerTouches DEF OnlyItsOwn
  <2>2. \A d \in Conns : d # c => h'[d] = h[d] /\ up'[d] = up[d] /\ down'[d] = down[d]
    BY <2>1 DEF OnlyItsOwn
  <2>3. /\ Ups(c)' <= Ups(c)
        /\ ~closed[c] => Pending(c)' <= Pending(c) \/ (HandlePut(c) /\ Pending(c)' = Pending(c) + 1)
        /\ OneFrameLess(c) => Ups(c)' = Ups(c) - 1
    BY <1>21, PendingIs
  <2>4. \A d \in Conns : Ups(d)' <= Blocks + 2
    <3> SUFFICES ASSUME NEW d \in Conns PROVE Ups(d)' <= Blocks + 2
      OBVIOUS
    <3>1. Ups(d) <= Blocks + 2 /\ Ups(d) \in Nat /\ Ups(d)' \in Nat
      BY <1>0, <1>1 DEF Lengths
    <3>2. d # c => Ups(d)' = Ups(d)
      BY <1>2, <2>2
    <3> QED
      BY <2>3, <3>1, <3>2
  <2>5. CASE spc \notin Sends
    BY <2>1, <2>4, <2>5 DEF Lengths, Sends
  <2>6. CASE spc \in Sends /\ c # conns
    <3>1. conns \in Conns /\ h'[conns] = h[conns] /\ up'[conns] = up[conns] /\ down'[conns] = down[conns]
      BY <1>4, <2>2, <2>6
    <3>2. Ups(conns)' = Ups(conns) /\ Pending(conns)' = Pending(conns) /\ Asked(conns)' = Asked(conns)
      BY <1>1, <1>2, <2>1, <3>1
    <3> QED
      BY <1>0, <2>1, <2>4, <3>2 DEF Lengths
  <2>7. CASE spc \in Sends /\ c = conns
    <3>1. ~closed[c]
      BY <2>7, ConnectionIs DEF Live, Sends
    <3>2. Asked(c)' => Asked(c)
      BY <1>21, GoroutineGoesOn DEF Asked, IsPut
    <3>3. CASE HandlePut(c)
      <4>1. IsPut(c, 1) /\ 1 \in 1 .. Len(up[c]) /\ OneFrameLess(c)
        BY <1>21, <3>3, GoroutineStepsAre, GoroutineGoesOn DEF GoroutineSteps
      <4>2. Len(up[c]) = 1 /\ spc = "resume" /\ Asked(c)
        BY <1>0, <3>1, <4>1 DEF RequestFirst, Asked
      <4>3. Pending(c) <= 1 /\ Ups(c) = 1 /\ Ups(c)' = 0 /\ ~Asked(c)'
        <5>1. Pending(c) <= 1
          BY <1>0, <2>7, <4>2 DEF Lengths
        <5>2. Ups(c) = 1
          BY <4>2 DEF Ups
        <5>3. Len(up'[c]) = 0
          BY <4>1, <4>2 DEF OneFrameLess
        <5>4. ~Asked(c)'
          BY <5>3 DEF Asked
        <5> QED
          BY <2>3, <4>1, <5>1, <5>2, <5>4
      <4>4. Ups(c)' <= 1 /\ Pending(c)' <= 2
        BY <1>1, <2>3, <3>1, <4>3
      <4> QED
        BY <2>1, <2>4, <2>7, <4>2, <4>3, <4>4 DEF Lengths
    <3>4. CASE ~HandlePut(c)
      <4>1. Pending(c)' <= Pending(c)
        BY <2>3, <3>1, <3>4
      <4>2. /\ spc = "resume" => Ups(c)' <= 1 /\ Pending(c)' <= 2
            /\ spc = "resume" /\ Asked(c)' => Pending(c)' <= 1
            /\ spc = "data" => Ups(c)' <= sent + 1 /\ Pending(c)' <= sent + 2
            /\ spc = "final" => Pending(c)' <= Blocks + 3
        BY <1>0, <1>1, <2>3, <2>7, <3>2, <4>1 DEF Lengths
      <4> QED
        BY <2>1, <2>4, <2>7, <4>2 DEF Lengths
    <3> QED
      BY <3>3, <3>4
  <2> QED
    BY <2>5, <2>6, <2>7
<1>22. CASE ClientRestarts
  <2>1. \A c \in Conns : h'[c].pc \in {"none", "gone"} /\ up'[c] = <<>>
    BY <1>22, <1>0 DEF ClientRestarts, NoHandler
  <2>2. down' = down /\ spc' = spc /\ sent' = sent /\ conns' = conns
    BY <1>22 DEF ClientRestarts
  <2>3. \A c \in Conns : Ups(c)' = 0 /\ Owes(c)' = 0 /\ ~Asked(c)'
    BY <2>1 DEF Ups, Owes, Asked
  <2>4. \A c \in Conns : Pending(c)' <= Pending(c)
    BY <1>1, <1>2, <2>2, <2>3
  <2> QED
    BY <1>0, <1>1, <1>4, <2>2, <2>3, <2>4 DEF Lengths, Sends
<1>23. CASE Edit
  BY <1>23, <1>6 DEF Edit, Fault
<1>24. CASE Download
  BY <1>24, <1>6 DEF Download, Fault
<1>25. CASE ServiceLists
  BY <1>25, <1>6 DEF ServiceLists, Fault
<1>26. CASE UNCHANGED vars
  BY <1>26, <1>6 DEF Fault
<1> QED
  BY <1>7, <1>8, <1>9, <1>10, <1>11, <1>12, <1>13, <1>14, <1>15, <1>16, <1>17, <1>18, <1>19,
     <1>20, <1>21, <1>22, <1>23, <1>24, <1>25, <1>26 DEF Next, Command

\* The types, with the length of the queues.
LEMMA TypeOKKeeps == IInv /\ [Next]_vars => TypeOK'
<1> SUFFICES ASSUME IInv, [Next]_vars PROVE TypeOK'
  OBVIOUS
<1> USE BoundsAssumption
<1>1. WorkerTypes' /\ FlagTypes' /\ LinkTypes' /\ FileTypes' /\ HandlerTypes'
  BY WorkerTypesKeep, FlagTypesKeep, LinkTypesKeep, FileTypesKeep, HandlerTypesKeep
<1>2. Links' /\ Lengths' /\ ConnectionIsFresh'
  BY LinksKeep, LengthsKeep, ConnectionIsFreshKeeps
<1>3. /\ conns \in Nat /\ conns' \in Nat /\ sent' \in Nat /\ sent' <= Blocks
      /\ \A c \in Conns : c \in Nat
  BY <1>1, TypesAre DEF IInv, WorkerTypes, Conns
<1>4. ASSUME NEW c \in Conns PROVE Len(up'[c]) <= Blocks + 2 /\ Len(down'[c]) <= Blocks + 3
  <2>1. Len(up'[c]) <= Blocks + 2
    BY <1>2 DEF Lengths, Ups
  <2>2. CASE down'[c] = <<>>
    <3>1. Len(down'[c]) = 0
      BY <2>2
    <3> QED
      BY <2>1, <3>1
  <2>3. CASE down'[c] # <<>>
    <3>1. c = conns' /\ Live' /\ spc' # "put"
      <4>1. ~(c > conns') /\ ~closed'[c]
        BY <1>2, <2>3 DEF Links
      <4>2. ~(c < conns')
        BY <1>2, <4>1 DEF Links
      <4>3. c = conns' /\ conns' # 0
        BY <1>3, <4>1, <4>2 DEF Conns
      <4>4. Live'
        BY <1>2, <4>1, <4>3 DEF Links
      <4>5. spc' # "put"
        BY <1>2, <2>3, <4>3 DEF ConnectionIsFresh
      <4> QED
        BY <4>3, <4>4, <4>5
    <3>2. Pending(c)' <= Blocks + 3
      <4>1. Pending(c)' \in Nat
        BY CountsAre
      <4>2. spc' \in Sends
        BY <3>1 DEF Live, Sends
      <4>3. Pending(c)' <= 2 \/ Pending(c)' <= sent' + 2 \/ Pending(c)' <= Blocks + 3
        BY <1>2, <3>1, <4>2 DEF Lengths, Sends
      <4> QED
        BY <1>3, <4>1, <4>3
    <3>3. Downs(c)' <= Pending(c)'
      BY CountsAre
    <3>4. Downs(c)' <= Blocks + 3
      BY <3>2, <3>3, CountsAre
    <3>5. Len(down'[c]) <= Blocks + 3
      BY <3>4 DEF Downs
    <3> QED
      BY <2>1, <3>5
  <2> QED
    BY <2>2, <2>3
<1> QED
  BY <1>1, <1>4, TypeOKIs DEF TypeOK, WorkerTypes, FlagTypes, LinkTypes, FileTypes, HandlerTypes, Files

-----------------------------------------------------------------------------
(* What a step does to the client as a whole.                              *)

\* A step that is none of the client's and of its user's.
Elsewhere == Begin \/ Command \/ ListFails \/ NoControl \/ Killed \/ Download \/ ServiceLists
             \/ UNCHANGED vars

\* It starts a goroutine at most.
Beside ==
  /\ UNCHANGED <<inode, full, part, meta, overlap>>
  /\ \A c \in Conns : h'[c] = h[c] \/ (h[c].pc = "none" /\ h'[c].pc = "idle")

LEMMA ElsewhereIs == ASSUME IInv, Elsewhere PROVE Beside
<1> USE DEF vars, server, job, try, link, files, client, others
<1>1. h \in [Conns -> Handlers] /\ Links /\ conns \in Nat
  BY DEF IInv, TypeOK
<1>2. CASE Begin
  BY <1>2 DEF Begin, Beside
<1>3. CASE List
  BY <1>3 DEF List, Beside
<1>4. CASE ListFails
  BY <1>4 DEF ListFails, Beside
<1>5. CASE NoControl
  BY <1>5 DEF NoControl, Beside
<1>6. CASE Check
  BY <1>6 DEF Check, Beside
<1>7. CASE Dial
  <2>1. conns' = conns + 1 /\ h' = [h EXCEPT ![conns'] = [@ EXCEPT !.pc = "idle"]]
    BY <1>7 DEF Dial
  <2>2. \A c \in Conns : h'[c] = h[c] \/ (c = conns + 1 /\ h'[c].pc = "idle")
    BY <1>1, <2>1 DEF Handlers
  <2>3. \A c \in Conns : c = conns + 1 => h[c].pc = "none"
    BY <1>1 DEF Links
  <2> QED
    BY <1>7, <2>2, <2>3 DEF Dial, Beside
<1>8. CASE DialFails
  BY <1>8 DEF DialFails, Beside
<1>9. CASE Killed
  BY <1>9 DEF Killed, Beside
<1>10. CASE GiveUp
  BY <1>10 DEF GiveUp, Beside
<1>11. CASE Put
  BY <1>11 DEF Put, Beside
<1>12. CASE Resume
  BY <1>12 DEF Resume, Beside
<1>13. CASE Data
  BY <1>13 DEF Data, Beside
<1>14. CASE End
  BY <1>14 DEF End, Beside
<1>15. CASE Final
  BY <1>15 DEF Final, Beside
<1>16. CASE Download
  BY <1>16 DEF Download, Beside
<1>17. CASE ServiceLists
  BY <1>17 DEF ServiceLists, Beside
<1>18. CASE UNCHANGED vars
  BY <1>18 DEF Beside
<1> QED
  BY <1>2, <1>3, <1>4, <1>5, <1>6, <1>7, <1>8, <1>9, <1>10, <1>11, <1>12, <1>13, <1>14, <1>15,
     <1>16, <1>17, <1>18 DEF Elsewhere, Command

LEMMA StepsAre ==
  ASSUME IInv, [Next]_vars
  PROVE  \/ Elsewhere /\ Beside
         \/ \E c \in Conns : Handler(c) \/ LocalError(c)
         \/ ClientRestarts
         \/ Edit
  BY ElsewhereIs DEF Next, Elsewhere

LEMMA BesideIs ==
  ASSUME IInv, [Next]_vars, Beside
  PROVE  /\ PartSize' = PartSize /\ Mtime' = Mtime
         /\ \A c \in Conns : Busy(c)' => Busy(c)
         /\ \A c \in Conns : Busy(c) => h'[c] = h[c]
<1>1. \A c \in Conns : Busy(c)' => Busy(c)
  BY DEF Beside, Busy
<1>2. \A c \in Conns : Busy(c) => h'[c] = h[c]
  BY DEF Beside, Busy
<1>3. PartSize' = PartSize /\ Mtime' = Mtime
  BY DEF Beside, PartSize, Mtime
<1> QED
  BY <1>1, <1>2, <1>3

\* A closed connection gets no frames any more.
LEMMA ClosedIsEmpty ==
  ASSUME IInv, [Next]_vars, NEW c \in Conns, closed[c], up[c] = <<>>
  PROVE  up'[c] = <<>>
<1> USE DEF vars, server, job, try, link, files, client, others
<1>1. CASE Put \/ Data \/ End
  BY <1>1, SendTouches
<1>2. ASSUME NEW d \in Conns, Handler(d) \/ LocalError(d) PROVE up'[c] = <<>>
  <2>1. CASE d # c
    BY <1>2, <2>1, HandlerTouches DEF OnlyItsOwn
  <2>2. CASE d = c
    <3>1. Ups(c)' <= Ups(c) /\ Ups(c)' \in Nat
      BY <1>2, <2>2, PendingIs, CountsAre
    <3>2. up'[c] \in Seq(Requests)
      BY LinkTypesKeep DEF LinkTypes
    <3>3. Len(up'[c]) = 0
      <4>1. Ups(c) = 0
        BY DEF Ups
      <4>2. Ups(c)' = 0
        BY <3>1, <4>1
      <4> QED
        BY <4>2 DEF Ups
    <3> QED
      BY <3>2, <3>3
  <2> QED
    BY <2>1, <2>2
<1>3. CASE ClientRestarts
  BY <1>3 DEF ClientRestarts
<1>4. CASE up' = up
  BY <1>4
<1>5. CASE Begin
  BY <1>5 DEF Begin
<1>6. CASE List
  BY <1>6 DEF List
<1>7. CASE ListFails
  BY <1>7 DEF ListFails
<1>8. CASE NoControl
  BY <1>8 DEF NoControl
<1>9. CASE Check
  BY <1>9 DEF Check
<1>10. CASE Dial
  BY <1>10 DEF Dial
<1>11. CASE DialFails
  BY <1>11 DEF DialFails
<1>12. CASE Killed
  BY <1>12 DEF Killed
<1>13. CASE GiveUp
  BY <1>13 DEF GiveUp
<1>14. CASE Resume
  BY <1>14 DEF Resume
<1>15. CASE Final
  BY <1>15 DEF Final
<1>16. CASE Download
  BY <1>16 DEF Download
<1>17. CASE ServiceLists
  BY <1>17 DEF ServiceLists
<1>18. CASE Edit
  BY <1>18 DEF Edit
<1>19. CASE UNCHANGED vars
  BY <1>19
<1> QED
  BY <1>1, <1>2, <1>3, <1>4, <1>5, <1>6, <1>7, <1>8, <1>9, <1>10, <1>11, <1>12, <1>13, <1>14,
     <1>15, <1>16, <1>17, <1>18, <1>19 DEF Next, Command

LEMMA HasNoMoreStays ==
  ASSUME IInv, [Next]_vars, NEW c \in Conns, HasNoMore(c), h'[c].pc \in {"open", "recv"}
  PROVE  HasNoMore(c)'
<1>1. closed'[c] /\ up'[c] = <<>>
  BY ClosedStays, ClosedIsEmpty DEF HasNoMore
<1> QED
  BY <1>1 DEF HasNoMore

\* A step of a goroutine that another one is busy beside changes no file.
LEMMA AloneIs ==
  ASSUME IInv, NEW c \in Conns, Handler(c) \/ LocalError(c), ~overlap'
  PROVE  /\ ~overlap
         /\ \A d \in Conns : d # c => h'[d] = h[d] /\ (Busy(d)' <=> Busy(d)) /\ (HasNoMore(d)' <=> HasNoMore(d))
         /\ \A d \in Conns : d # c /\ Busy(d) =>
              ~Busy(c) /\ ~Busy(c)' /\ UNCHANGED <<inode, full, part, meta>>
<1> USE DEF link, files, client
<1>1. OnlyItsOwn(c) /\ h \in [Conns -> Handlers] /\ OneBusy
  BY HandlerTouches DEF IInv, TypeOK
<1>2. HandlePut(c) => \A d \in Conns : d # c => ~Busy(d)
  BY DEF HandlePut
<1>3. ~overlap
  <2>1. CASE HandlePut(c)
    BY <2>1 DEF HandlePut
  <2>2. CASE Open(c)
    BY <2>2 DEF Open
  <2>3. CASE Receives(c)
    BY <2>3 DEF Receives
  <2>4. CASE Sticks(c)
    BY <2>4 DEF Sticks
  <2>5. CASE ReceivesEnd(c)
    BY <2>5 DEF ReceivesEnd
  <2>6. CASE SizeWrong(c)
    BY <2>6 DEF SizeWrong
  <2>7. CASE Renames(c)
    BY <2>7 DEF Renames
  <2>8. CASE SetsTimes(c)
    BY <2>8 DEF SetsTimes
  <2>9. CASE Leaves(c)
    BY <2>9 DEF Leaves
  <2>10. CASE Unsupported(c)
    BY <2>10 DEF Unsupported
  <2>11. CASE LocalError(c)
    BY <2>11 DEF LocalError
  <2> QED
    BY <2>1, <2>2, <2>3, <2>4, <2>5, <2>6, <2>7, <2>8, <2>9, <2>10, <2>11 DEF Handler
<1>4. \A d \in Conns : d # c =>
        h'[d] = h[d] /\ (Busy(d)' <=> Busy(d)) /\ (HasNoMore(d)' <=> HasNoMore(d))
  BY <1>1 DEF OnlyItsOwn, Busy, HasNoMore
<1>5. ASSUME NEW d \in Conns, d # c, Busy(d)
      PROVE  ~Busy(c) /\ ~Busy(c)' /\ UNCHANGED <<inode, full, part, meta>>
  <2>1. ~Busy(c) /\ ~HandlePut(c)
    BY <1>1, <1>3, <1>5, <1>2 DEF OneBusy
  <2>2. ~Busy(c)'
    BY <2>1, GoroutineGoesOn
  <2>3. Leaves(c) \/ Unsupported(c)
    <3>1. GoroutineSteps(c)
      BY GoroutineStepsAre
    <3> QED
      BY <2>1, <3>1 DEF GoroutineSteps, Proceeds, Handler, Busy
  <2> QED
    BY <2>1, <2>2, <2>3 DEF Leaves, Unsupported
<1> QED
  BY <1>3, <1>4, <1>5

LEMMA OneBusyKeeps == IInv /\ [Next]_vars => OneBusy'
<1> SUFFICES ASSUME IInv, [Next]_vars, ~overlap', NEW c \in Conns, NEW d \in Conns, Busy(c)', Busy(d)'
             PROVE  c = d
  BY DEF OneBusy
<1>1. OneBusy /\ h \in [Conns -> Handlers]
  BY DEF IInv, TypeOK
<1>2. CASE Beside
  BY <1>1, <1>2, BesideIs DEF OneBusy, Beside
<1>3. ASSUME NEW e \in Conns, Handler(e) \/ LocalError(e) PROVE c = d
  BY <1>1, <1>3, AloneIs DEF OneBusy
<1>4. CASE ClientRestarts
  BY <1>1, <1>4 DEF ClientRestarts, NoHandler, Busy
<1>5. CASE Edit
  BY <1>1, <1>5 DEF Edit, OneBusy, Busy
<1> QED
  BY <1>2, <1>3, <1>4, <1>5, StepsAre

LEMMA PartIsNotFullKeeps == IInv /\ [Next]_vars => PartIsNotFull'
<1> SUFFICES ASSUME IInv, [Next]_vars PROVE PartIsNotFull'
  OBVIOUS
<1> USE DEF files, client
<1>1. PartIsNotFull /\ TypeOK
  BY DEF IInv
<1>2. CASE Beside
  BY <1>1, <1>2 DEF PartIsNotFull, Beside
<1>3. ASSUME NEW c \in Conns, Handler(c) \/ LocalError(c) PROVE PartIsNotFull'
  <2>1. CASE HandlePut(c)
    BY <1>1, <2>1 DEF HandlePut, PartIsNotFull
  <2>2. CASE Open(c)
    BY <1>1, <2>2, OpenIs DEF Open, PartIsNotFull
  <2>3. CASE Receives(c)
    BY <1>1, <2>3 DEF Receives, PartIsNotFull
  <2>4. CASE Sticks(c)
    BY <1>1, <2>4 DEF Sticks, PartIsNotFull
  <2>5. CASE ReceivesEnd(c)
    BY <1>1, <2>5 DEF ReceivesEnd, PartIsNotFull
  <2>6. CASE SizeWrong(c)
    BY <1>1, <2>6 DEF SizeWrong, PartIsNotFull
  <2>7. CASE Renames(c)
    BY <1>1, <2>7 DEF Renames, PartIsNotFull
  <2>8. CASE SetsTimes(c)
    BY <1>1, <2>8 DEF SetsTimes, PartIsNotFull
  <2>9. CASE Leaves(c)
    BY <1>1, <2>9 DEF Leaves, PartIsNotFull
  <2>10. CASE Unsupported(c)
    BY <1>1, <2>10 DEF Unsupported, PartIsNotFull
  <2>11. CASE LocalError(c)
    BY <1>1, <2>11 DEF LocalError, PartIsNotFull
  <2> QED
    BY <1>3, <2>1, <2>2, <2>3, <2>4, <2>5, <2>6, <2>7, <2>8, <2>9, <2>10, <2>11 DEF Handler
<1>4. CASE ClientRestarts
  BY <1>1, <1>4 DEF ClientRestarts, PartIsNotFull
<1>5. CASE Edit
  <2>1. full' = NewInode /\ part' = part
    BY <1>5 DEF Edit
  <2> QED
    BY <1>1, <2>1, NewInodeIs DEF Unused, PartIsNotFull
<1> QED
  BY <1>2, <1>3, <1>4, <1>5, StepsAre

-----------------------------------------------------------------------------
(* The .part of a busy goroutine.                                          *)

\* Its length, and the inode the goroutine has open.
LEMMA PartOfKeeps ==
  ASSUME IInv, NEW c \in Conns, Handler(c) \/ LocalError(c), ~overlap'
  PROVE  PartOf(c)'
<1> USE DEF files, client
<1>1. TypeOK /\ h \in [Conns -> Handlers] /\ GoroutineSteps(c) /\ PartOf(c)
  BY AloneIs, GoroutineStepsAre DEF IInv, TypeOK, PartOfBusy
<1>2. CASE HandlePut(c)
  <2> DEFINE v == Head(up[c]).block[1]
             changed == PartSize > 0 /\ (meta # v \/ PartSize > Blocks)
             resume == IF changed THEN 0 ELSE PartSize
  <2>1. /\ IF changed THEN part' = None /\ meta' = None ELSE UNCHANGED <<part, meta>>
        /\ h' = [h EXCEPT ![c] = [@ EXCEPT !.pc = "open", !.ver = v, !.pos = resume]]
        /\ UNCHANGED inode
    BY <1>2 DEF HandlePut
  <2>2. h'[c].pc = "open" /\ h'[c].ver = v /\ h'[c].pos = resume
    BY <1>1, <2>1 DEF Handlers
  <2>3. CASE changed
    BY <2>1, <2>2, <2>3 DEF PartOf, PartSize
  <2>4. CASE ~changed
    <3>1. part' = part /\ meta' = meta /\ inode' = inode /\ h'[c].pos = PartSize
      BY <2>1, <2>2, <2>4
    <3>2. PartSize' = PartSize
      BY <3>1 DEF PartSize
    <3>3. PartSize > 0 => meta = v
      BY <2>4
    <3> QED
      BY <2>2, <3>1, <3>2, <3>3 DEF PartOf
  <2> QED
    BY <2>3, <2>4
<1>3. CASE Open(c)
  <2>1. /\ part' # None /\ h'[c].fd = part' /\ inode'[part'].mtime = Now
        /\ Len(inode'[part'].data) = h[c].pos
    BY <1>3, OpenIs
  <2>2. h'[c].pc = "recv" /\ h'[c].pos = h[c].pos
    BY <1>1, <1>3 DEF GoroutineSteps, Proceeds
  <2> QED
    BY <2>1, <2>2 DEF PartOf, PartSize
<1>4. CASE Receives(c)
  <2>1. /\ h[c].pc = "recv" /\ h'[c].pc = "recv" /\ h'[c].pos = h[c].pos + 1
    BY <1>1, <1>4 DEF GoroutineSteps, Proceeds
  <2>2. h'[c].fd = h[c].fd /\ part' = part
    BY <1>1, <1>4 DEF Receives, Handlers
  <2>3. part # None /\ part = h[c].fd /\ Len(inode[part].data) = h[c].pos
    BY <1>1, <2>1 DEF PartOf, PartSize
  <2>4. Len(inode'[part].data) = h[c].pos + 1 /\ inode'[part].mtime = Now
    BY <1>4, <2>3, ReceivesIs
  <2> QED
    BY <2>1, <2>2, <2>3, <2>4 DEF PartOf, PartSize
<1>5. CASE ReceivesEnd(c)
  <2>1. h[c].pc = "recv" /\ h'[c].pc = "end" /\ h'[c].pos = h[c].pos
    BY <1>1, <1>5 DEF GoroutineSteps, Proceeds
  <2>2. h'[c].fd = h[c].fd /\ UNCHANGED <<inode, part>>
    BY <1>1, <1>5 DEF ReceivesEnd, Step, Handlers
  <2> QED
    BY <1>1, <2>1, <2>2 DEF PartOf, PartSize
<1> QED
  BY <1>1, <1>2, <1>3, <1>4, <1>5 DEF GoroutineSteps, Proceeds, Handler, PartOf

\* What is received is the next block of the version.
LEMMA ReceivesOwn ==
  ASSUME IInv, NEW c \in Conns, Receives(c), ~overlap'
  PROVE  Begins(h[c].ver)' /\ meta' = meta /\ meta <= h[c].ver /\ h'[c].ver = h[c].ver
<1> USE BoundsAssumption DEF files, client
<1>0. /\ TypeOK /\ h \in [Conns -> Handlers] /\ GoroutineSteps(c) /\ ~overlap
      /\ PartOf(c) /\ OwnBlocks(c) /\ StreamGoesOn /\ h[c].pos \in 0 .. Blocks
  <2>1. TypeOK /\ h \in [Conns -> Handlers] /\ h[c].pos \in 0 .. Blocks
    BY DEF IInv, TypeOK, Handlers
  <2>2. GoroutineSteps(c) /\ ~overlap
    BY AloneIs, GoroutineStepsAre DEF Handler
  <2> QED
    BY <2>1, <2>2 DEF IInv, PartOfBusy, PartIsOwn
<1>1. /\ h[c].pc = "recv" /\ h'[c].pc = "recv" /\ h'[c].ver = h[c].ver /\ h[c].pos < Blocks
      /\ OneFrameLess(c)
  BY <1>0 DEF GoroutineSteps, Proceeds
<1>2. part' = part /\ meta' = meta /\ up[c] # <<>>
  BY DEF Receives, Reads
<1>3. part # None /\ part = h[c].fd /\ Len(inode[part].data) = h[c].pos /\ PartSize = h[c].pos
  BY <1>0, <1>1 DEF PartOf, PartSize
<1>4. Begins(h[c].ver) /\ meta <= h[c].ver
  BY <1>0, <1>1, <1>2 DEF OwnBlocks, HasNoMore
<1>5. IsFrame(up[c][1], h[c].ver, h[c].pos + 1)
  BY <1>0, <1>1 DEF StreamGoesOn, OneFrameLess
<1>6. up[c][1].block = <<h[c].ver, h[c].pos + 1>>
  BY <1>0, <1>1, <1>5 DEF IsFrame
<1>7. /\ Len(inode'[part].data) = h[c].pos + 1
      /\ \A k \in 1 .. h[c].pos : inode'[part].data[k] = inode[part].data[k]
      /\ inode'[part].data[h[c].pos + 1] = <<h[c].ver, h[c].pos + 1>>
  BY <1>3, <1>6, ReceivesIs
<1>8. \A k \in 1 .. h[c].pos + 1 : inode'[part].data[k] = <<h[c].ver, k>>
  <2> SUFFICES ASSUME NEW k \in 1 .. h[c].pos + 1 PROVE inode'[part].data[k] = <<h[c].ver, k>>
    OBVIOUS
  <2>1. CASE k = h[c].pos + 1
    BY <1>7, <2>1
  <2>2. CASE k # h[c].pos + 1
    <3>1. k \in 1 .. h[c].pos
      BY <1>0, <2>2
    <3> QED
      BY <1>3, <1>4, <1>7, <3>1 DEF Begins
  <2> QED
    BY <2>1, <2>2
<1>9. Begins(h[c].ver)'
  BY <1>1, <1>2, <1>3, <1>7, <1>8 DEF Begins, PartSize
<1> QED
  BY <1>1, <1>2, <1>4, <1>9

\* Its blocks.
LEMMA OwnBlocksKeep ==
  ASSUME IInv, NEW c \in Conns, Handler(c) \/ LocalError(c), ~overlap'
  PROVE  OwnBlocks(c)'
<1> USE DEF files, client
<1>0. [Next]_vars
  BY DEF Next
<1>1. /\ TypeOK /\ h \in [Conns -> Handlers] /\ GoroutineSteps(c) /\ ~overlap
      /\ PartOf(c) /\ OwnBlocks(c) /\ StreamGoesOn /\ VersionsOfClient /\ RequestFirst /\ MetaTells
      /\ OnlyItsOwn(c) /\ PartSize \in Nat /\ meta \in Nat /\ h[c].pos \in 0 .. Blocks
  <2>1. TypeOK /\ h \in [Conns -> Handlers] /\ PartSize \in Nat
    BY PartSizeIs DEF IInv, TypeOK
  <2>2. meta \in Nat /\ h[c].pos \in 0 .. Blocks
    BY <2>1, NowIs DEF TypeOK, Handlers, None
  <2>3. GoroutineSteps(c) /\ OnlyItsOwn(c) /\ ~overlap
    BY AloneIs, GoroutineStepsAre, HandlerTouches
  <2>4. StreamGoesOn /\ VersionsOfClient /\ RequestFirst /\ MetaTells /\ PartOf(c) /\ OwnBlocks(c)
    BY <2>3 DEF IInv, PartOfBusy, PartIsOwn
  <2> QED
    BY <2>1, <2>2, <2>3, <2>4
<1> USE BoundsAssumption
<1>2. CASE HandlePut(c)
  <2> DEFINE v == Head(up[c]).block[1]
             changed == PartSize > 0 /\ (meta # v \/ PartSize > Blocks)
  <2>1. /\ IF changed THEN part' = None /\ meta' = None ELSE UNCHANGED <<part, meta>>
        /\ UNCHANGED inode /\ up[c] # <<>>
    BY <1>2 DEF HandlePut, Reads
  <2>2. /\ h'[c].ver \in Versions /\ h'[c].ver = v /\ v = up[c][1].block[1] /\ IsPut(c, 1)
        /\ h'[c].pc = "open" /\ OneFrameLess(c)
    BY <1>1, <1>2, <2>1, ReadsIs DEF GoroutineSteps
  <2>3. v \in Nat /\ v # None
    BY <2>2, NowIs DEF None
  <2>4. CASE changed
    <3>1. PartSize' = 0 /\ meta' = 0
      BY <2>1, <2>4 DEF PartSize, None
    <3>2. Begins(h[c].ver)' /\ meta' <= h'[c].ver
      BY <2>2, <2>3, <3>1 DEF Begins
    <3> QED
      BY <3>2 DEF OwnBlocks
  <2>5. CASE ~changed
    <3>1. part' = part /\ meta' = meta /\ inode' = inode /\ PartSize' = PartSize
      BY <2>1, <2>5 DEF PartSize
    <3>2. SUFFICES ASSUME ~HasNoMore(c)' PROVE Begins(h[c].ver)' /\ meta' <= h'[c].ver
      BY DEF OwnBlocks
    <3>3. Len(up[c]) = 1 /\ (closed[c] \/ (spc = "resume" /\ up[c][1].block[1] = ver))
      BY <1>1, <2>2 DEF RequestFirst, OneFrameLess
    <3>4. up'[c] = <<>>
      <4>1. up'[c] \in Seq(Requests)
        BY <1>0, LinkTypesKeep DEF LinkTypes
      <4>2. Len(up'[c]) = 0
        BY <2>2, <3>3 DEF OneFrameLess
      <4> QED
        BY <4>1, <4>2
    <3>5. ~closed[c]
      BY <1>1, <2>2, <3>2, <3>4 DEF HasNoMore, OnlyItsOwn
    <3>6. Latest = v
      BY <2>2, <3>3, <3>5 DEF Latest
    <3>7. meta <= v
      BY <1>1, <3>6 DEF VersionsOfClient
    <3>8. Begins(v)
      <4>1. CASE PartSize = 0
        BY <4>1 DEF Begins
      <4>2. CASE PartSize # 0
        <5>1. meta = v
          BY <1>1, <2>5, <4>2
        <5> QED
          BY <1>1, <2>3, <3>6, <5>1 DEF MetaTells
      <4> QED
        BY <4>1, <4>2
    <3> QED
      BY <2>2, <3>1, <3>7, <3>8 DEF Begins
  <2> QED
    BY <2>4, <2>5
<1>3. CASE Open(c)
  <2>1. SUFFICES ASSUME ~HasNoMore(c)' PROVE Begins(h[c].ver)' /\ meta' <= h'[c].ver
    BY DEF OwnBlocks
  <2>2. /\ h[c].pc = "open" /\ h'[c].pc = "recv" /\ h'[c].ver = h[c].ver /\ up' = up
        /\ closed' = closed /\ meta' \in {h[c].ver, meta, None}
    BY <1>1, <1>3 DEF GoroutineSteps, Proceeds, OnlyItsOwn, Open
  <2>3. ~HasNoMore(c)
    BY <2>1, <2>2 DEF HasNoMore
  <2>4. Begins(h[c].ver) /\ meta <= h[c].ver /\ PartSize = h[c].pos
    BY <1>1, <2>2, <2>3 DEF OwnBlocks, PartOf
  <2>5. /\ part' # None /\ Len(inode'[part'].data) = h[c].pos
        /\ \A k \in 1 .. h[c].pos : inode'[part'].data[k] = inode[part].data[k]
    BY <1>1, <1>3, <2>4, OpenIs
  <2>6. h[c].ver \in Nat
    BY <1>1, NowIs DEF Handlers, None
  <2>7. Begins(h[c].ver)'
    BY <2>2, <2>4, <2>5 DEF Begins, PartSize
  <2> QED
    BY <2>2, <2>4, <2>6, <2>7 DEF None
<1>4. CASE Receives(c)
  BY <1>4, ReceivesOwn DEF OwnBlocks
<1>5. CASE ReceivesEnd(c)
  <2>1. h[c].pc = "recv" /\ h'[c].ver = h[c].ver /\ up[c] # <<>>
    BY <1>1, <1>5 DEF GoroutineSteps, Proceeds, ReceivesEnd, Reads
  <2>2. UNCHANGED <<inode, part, meta>>
    BY <1>5 DEF ReceivesEnd
  <2>3. Begins(h[c].ver) /\ meta <= h[c].ver
    BY <1>1, <2>1 DEF OwnBlocks, HasNoMore
  <2> QED
    BY <2>1, <2>2, <2>3 DEF OwnBlocks, Begins, PartSize
<1> QED
  BY <1>1, <1>2, <1>3, <1>4, <1>5 DEF GoroutineSteps, Proceeds, Handler, OwnBlocks

\* The file it gets the name of.
LEMMA FileOfKeeps ==
  ASSUME IInv, NEW c \in Conns, Handler(c) \/ LocalError(c), ~overlap'
  PROVE  FileOf(c)'
<1> USE DEF files, client
<1>1. /\ TypeOK /\ h \in [Conns -> Handlers] /\ GoroutineSteps(c) /\ ~overlap
      /\ PartOf(c) /\ OwnBlocks(c) /\ StreamGoesOn /\ VersionsOfClient
  BY AloneIs, GoroutineStepsAre DEF IInv, TypeOK, PartOfBusy, PartIsOwn
<1>2. CASE Renames(c)
  <2>1. h[c].pc = "end" /\ h'[c].ver = h[c].ver /\ full' = part /\ inode' = inode /\ PartSize = Blocks
        /\ part # None
    BY <1>1, <1>2 DEF GoroutineSteps, Proceeds, Renames
  <2>2. h[c].ver \in Versions
    <3>1. h[c] \in Handlers /\ Busy(c)
      BY <1>1, <2>1 DEF Busy
    <3> QED
      BY <1>1, <3>1 DEF VersionsOfClient, Handlers
  <2>3. part \in Inodes /\ inode[part].data \in Seq(Block) /\ Len(inode[part].data) = Blocks
    BY <1>1, <2>1, PartSizeIs
  <2>4. \A k \in 1 .. Blocks : inode[part].data[k] = <<h[c].ver, k>>
    BY <1>1, <2>1 DEF OwnBlocks, HasNoMore, Begins
  <2>5. inode[part].data = Content(h[c].ver)
    BY <2>2, <2>3, <2>4, ContentOf
  <2>6. inode[part].mtime = Now /\ inode[part] \in Files
    BY <1>1, <2>1, <2>3, TypesAre DEF PartOf, FileTypes
  <2>7. inode[part] = [data |-> Content(h[c].ver), mtime |-> Now]
    BY <2>5, <2>6 DEF Files
  <2> QED
    BY <2>1, <2>7 DEF FileOf
<1> QED
  BY <1>1, <1>2 DEF GoroutineSteps, Proceeds, Handler, FileOf

\* A user's write leaves the .part alone.
LEMMA EditIs ==
  ASSUME IInv, Edit
  PROVE  /\ UNCHANGED <<server, link, part, meta, h, overlap>> /\ PartSize' = PartSize
         /\ \A w : Begins(w)' <=> Begins(w)
         /\ full' # None /\ inode' \in [Inodes -> Files]
         /\ \E v \in Versions : v > stored /\ inode'[full'] = Copy(v)
<1>1. TypeOK /\ inode \in [Inodes -> Files] /\ NewInode \in Inodes /\ NewInode # part
  BY TypesAre, NewInodeIs DEF IInv, FileTypes, Unused
<1>2. PICK v \in Versions : /\ v > stored /\ full' = NewInode
                           /\ inode' = [inode EXCEPT ![NewInode] = Copy(v)]
  BY DEF Edit
<1>3. UNCHANGED <<server, link, part, meta, h, overlap>>
  BY DEF Edit
<1>4. inode'[NewInode] = Copy(v) /\ inode' \in [Inodes -> Files]
  BY <1>1, <1>2, ContentIs
<1>5. part # None => part \in Inodes /\ inode'[part] = inode[part]
  BY <1>1, <1>2 DEF TypeOK
<1>6. PartSize' = PartSize
  BY <1>3, <1>5 DEF PartSize
<1>7. \A w : Begins(w)' <=> Begins(w)
  <2>1. CASE part = None
    <3>1. PartSize = 0
      BY <2>1 DEF PartSize
    <3> QED
      BY <1>6, <3>1 DEF Begins
  <2>2. CASE part # None
    BY <1>3, <1>5, <1>6, <2>2 DEF Begins
  <2> QED
    BY <2>1, <2>2
<1>8. full' # None
  BY <1>2, <1>1 DEF Inodes, None
<1> QED
  BY <1>2, <1>3, <1>4, <1>6, <1>7, <1>8

LEMMA OwnKeeps == IInv /\ [Next]_vars => PartOfBusy' /\ PartIsOwn' /\ RenamedIsOwn'
<1> SUFFICES ASSUME IInv, [Next]_vars, ~overlap', NEW c \in Conns
             PROVE  PartOf(c)' /\ OwnBlocks(c)' /\ FileOf(c)'
  BY DEF PartOfBusy, PartIsOwn, RenamedIsOwn
<1> USE DEF files, client, link
<1>1. TypeOK /\ h \in [Conns -> Handlers]
  BY DEF IInv, TypeOK
<1>2. ASSUME ~Busy(c)' PROVE PartOf(c)' /\ OwnBlocks(c)' /\ FileOf(c)'
  BY <1>2 DEF Busy, PartOf, OwnBlocks, FileOf
<1>3. ~overlap => PartOf(c) /\ OwnBlocks(c) /\ FileOf(c)
  BY DEF IInv, PartOfBusy, PartIsOwn, RenamedIsOwn
<1>4. ASSUME h'[c] = h[c], UNCHANGED <<inode, full, part, meta>>, ~overlap
      PROVE  PartOf(c)' /\ OwnBlocks(c)' /\ FileOf(c)'
  <2>1. PartSize' = PartSize /\ \A w : Begins(w)' <=> Begins(w)
    BY <1>4 DEF PartSize, Begins
  <2>2. h[c].pc \in {"open", "recv", "end"} /\ ~HasNoMore(c)' => ~HasNoMore(c)
    BY <1>4, HasNoMoreStays DEF HasNoMore
  <2>3. PartOf(c)'
    BY <1>3, <1>4, <2>1 DEF PartOf
  <2>4. OwnBlocks(c)'
    BY <1>3, <1>4, <2>1, <2>2 DEF OwnBlocks
  <2>5. FileOf(c)'
    BY <1>3, <1>4 DEF FileOf
  <2> QED
    BY <2>3, <2>4, <2>5
<1>5. CASE Beside
  BY <1>2, <1>4, <1>5, BesideIs DEF Beside
<1>6. ASSUME NEW d \in Conns, Handler(d) \/ LocalError(d)
      PROVE  PartOf(c)' /\ OwnBlocks(c)' /\ FileOf(c)'
  <2>1. CASE d = c
    BY <1>6, <2>1, PartOfKeeps, OwnBlocksKeep, FileOfKeeps
  <2>2. CASE d # c
    BY <1>2, <1>4, <1>6, <2>2, AloneIs
  <2> QED
    BY <2>1, <2>2
<1>7. CASE ClientRestarts
  <2>1. h'[c].pc \in {"none", "gone"}
    BY <1>7 DEF ClientRestarts, NoHandler
  <2> QED
    BY <1>2, <2>1 DEF Busy
<1>8. CASE Edit
  <2>1. /\ UNCHANGED <<part, meta, h, stored, ver, spc, up, closed, overlap>> /\ PartSize' = PartSize
        /\ \A w : Begins(w)' <=> Begins(w)
    BY <1>8, EditIs DEF server, try
  <2>2. ~overlap
    BY <2>1
  <2>3. part # None => part \in Inodes /\ inode'[part] = inode[part]
    <3>1. part # None => part \in Inodes /\ part # NewInode
      BY <1>1, NewInodeIs DEF Unused, TypeOK
    <3>2. inode \in [Inodes -> Files] /\ \A i \in Inodes : i # NewInode => inode'[i] = inode[i]
      BY <1>1, <1>8, TypesAre DEF Edit, FileTypes
    <3> QED
      BY <3>1, <3>2
  <2>4. PartOf(c)'
    BY <1>3, <2>1, <2>2, <2>3 DEF PartOf
  <2>5. OwnBlocks(c)'
    BY <1>3, <2>1, <2>2 DEF OwnBlocks, HasNoMore
  <2>6. ASSUME h[c].pc = "times" PROVE FileOf(c)'
    <3>1. PICK v \in Versions : v > stored /\ inode'[full'] = Copy(v)
      BY <1>8, EditIs
    <3>2. h[c].ver <= Latest /\ ver <= stored
      BY <2>6 DEF IInv, VersionsOfClient, VersionsOfWorker, Busy
    <3>3. v > h[c].ver
      <4>1. v \in Nat /\ stored \in Nat /\ ver \in Nat /\ h[c].ver \in Nat
        BY <1>1, NowIs DEF TypeOK, None, Handlers
      <4> QED
        BY <3>1, <3>2, <4>1 DEF Latest
    <3> QED
      BY <2>1, <3>1, <3>3 DEF FileOf
  <2> QED
    BY <2>1, <2>4, <2>5, <2>6 DEF FileOf
<1> QED
  BY <1>5, <1>6, <1>7, <1>8, StepsAre

-----------------------------------------------------------------------------
(* The file, and what is told of it.                                       *)

LEMMA MetaTellsKeeps == IInv /\ [Next]_vars => MetaTells'
<1> SUFFICES ASSUME IInv, [Next]_vars, ~overlap', meta' # None
             PROVE  meta' < Latest' \/ (PartSize' <= Blocks /\ Begins(meta)')
  BY DEF MetaTells
<1> USE BoundsAssumption DEF files, client
<1>1. TypeOK /\ h \in [Conns -> Handlers] /\ MetaTells /\ PartSize \in Nat /\ VersionsOfClient
  BY PartSizeIs DEF IInv, TypeOK
<1>2. /\ Latest \in Nat /\ Latest' \in Nat /\ Latest <= Latest'
      /\ meta \in Nat /\ \A c \in Conns : h[c].ver \in Nat /\ h[c].pos \in 0 .. Blocks
  <2>1. Latest \in Nat /\ Latest' \in Nat /\ Latest <= Latest'
    BY LatestGrows
  <2>2. meta \in Nat
    BY <1>1, NowIs DEF TypeOK, None
  <2>3. \A c \in Conns : h[c].ver \in Nat /\ h[c].pos \in 0 .. Blocks
    BY <1>1, NowIs DEF Handlers, None
  <2> QED
    BY <2>1, <2>2, <2>3
<1>3. ASSUME meta' = meta, PartSize' = PartSize, \A w : Begins(w)' <=> Begins(w), ~overlap
      PROVE  meta' < Latest' \/ (PartSize' <= Blocks /\ Begins(meta)')
  BY <1>1, <1>2, <1>3 DEF MetaTells
<1>4. ASSUME UNCHANGED <<inode, part>> PROVE PartSize' = PartSize /\ \A w : Begins(w)' <=> Begins(w)
  BY <1>4 DEF PartSize, Begins
<1>5. CASE Beside
  BY <1>3, <1>4, <1>5 DEF Beside
<1>6. ASSUME NEW c \in Conns, Handler(c) \/ LocalError(c)
      PROVE  meta' < Latest' \/ (PartSize' <= Blocks /\ Begins(meta)')
  <2>1. /\ GoroutineSteps(c) /\ OnlyItsOwn(c) /\ ~overlap /\ PartOf(c) /\ OwnBlocks(c)
    BY <1>6, AloneIs, GoroutineStepsAre, HandlerTouches DEF IInv, PartOfBusy, PartIsOwn
  <2>2. Latest' = Latest
    BY <2>1 DEF OnlyItsOwn, server, try, job, Latest
  <2>3. Busy(c) => h[c].ver <= Latest
    BY <1>1 DEF VersionsOfClient
  \* The note of a goroutine that opens what there is.
  <2>4. h[c].pc = "open" /\ h[c].ver = Latest => PartSize <= Blocks /\ Begins(h[c].ver)
    <3> SUFFICES ASSUME h[c].pc = "open", h[c].ver = Latest PROVE PartSize <= Blocks /\ Begins(h[c].ver)
      OBVIOUS
    <3>1. PartSize = h[c].pos /\ (h[c].pos > 0 => meta = h[c].ver) /\ h[c].ver # None
      BY <1>1, <2>1 DEF PartOf, VersionsOfClient, Busy
    <3>2. CASE PartSize = 0
      BY <3>2 DEF Begins
    <3>3. CASE PartSize # 0
      BY <1>1, <1>2, <2>1, <3>1, <3>3 DEF MetaTells
    <3> QED
      BY <3>2, <3>3
  <2>5. CASE HandlePut(c)
    <3>1. UNCHANGED <<part, meta, inode>>
      BY <2>5 DEF HandlePut
    <3> QED
      BY <1>3, <1>4, <2>1, <3>1
  <2>6. CASE Open(c)
    <3>1. h[c].pc = "open" /\ meta' \in {h[c].ver, meta, None}
      BY <2>6 DEF Open
    <3>2. PartSize = h[c].pos
      BY <2>1, <3>1 DEF PartOf
    <3>3. /\ part' # None /\ Len(inode'[part'].data) = h[c].pos
          /\ \A k \in 1 .. h[c].pos : inode'[part'].data[k] = inode[part].data[k]
      BY <1>1, <2>6, <3>2, OpenIs
    <3>4. PartSize' = PartSize /\ \A w : Begins(w)' <=> Begins(w)
      BY <3>2, <3>3 DEF PartSize, Begins
    <3>5. CASE meta' = meta
      BY <1>3, <2>1, <3>4, <3>5
    <3>6. CASE meta' = h[c].ver
      <4>1. h[c].ver < Latest \/ h[c].ver = Latest
        BY <1>2, <2>3, <3>1 DEF Busy
      <4>2. CASE h[c].ver = Latest
        <5>1. PartSize <= Blocks /\ Begins(h[c].ver)
          BY <2>4, <3>1, <4>2
        <5>2. PartSize' <= Blocks /\ Begins(meta)'
          BY <3>4, <3>6, <5>1 DEF Begins
        <5> QED
          BY <5>2
      <4> QED
        BY <2>2, <3>6, <4>1, <4>2
    <3> QED
      BY <3>1, <3>5, <3>6
  <2>7. CASE Receives(c)
    <3>1. h[c].pc = "recv" /\ meta' = meta /\ up[c] # <<>>
      BY <2>7 DEF Receives, Reads
    <3>2. meta <= h[c].ver /\ h[c].ver <= Latest
      BY <2>1, <2>3, <3>1 DEF OwnBlocks, HasNoMore, Busy
    <3>3. CASE meta < Latest
      BY <2>2, <3>1, <3>3
    <3>4. CASE ~(meta < Latest)
      <4>1. meta = h[c].ver
        BY <1>2, <3>2, <3>4
      <4>2. PartOf(c)' /\ h'[c].pc = "recv" /\ h'[c].pos \in 0 .. Blocks
        BY <1>2, <2>1, <2>7, PartOfKeeps DEF GoroutineSteps, Proceeds, Handler
      <4>3. PartSize' <= Blocks
        BY <4>2 DEF PartOf
      <4>4. Begins(meta)'
        BY <2>7, <3>1, <4>1, ReceivesOwn DEF Begins
      <4> QED
        BY <4>3, <4>4
    <3> QED
      BY <3>3, <3>4
  <2>8. CASE SizeWrong(c) \/ SetsTimes(c)
    BY <2>8 DEF SizeWrong, SetsTimes
  <2>9. CASE Renames(c)
    <3>1. part' = None /\ meta' = meta
      BY <2>9 DEF Renames
    <3>2. PartSize' = 0
      BY <3>1 DEF PartSize
    <3>3. Begins(meta)'
      BY <3>2 DEF Begins
    <3> QED
      BY <3>2, <3>3
  <2>10. CASE Sticks(c) \/ ReceivesEnd(c) \/ Leaves(c) \/ Unsupported(c)
    <3>1. UNCHANGED <<inode, part, meta>>
      BY <2>10 DEF Sticks, ReceivesEnd, Leaves, Unsupported
    <3> QED
      BY <1>3, <1>4, <2>1, <3>1
  <2>11. CASE LocalError(c)
    <3>1. UNCHANGED <<inode, part>> /\ (meta' = meta \/ (h[c].pc = "open" /\ meta' = h[c].ver))
      BY <2>11 DEF LocalError
    <3>2. CASE meta' = meta
      BY <1>3, <1>4, <2>1, <3>1, <3>2
    <3>3. CASE h[c].pc = "open" /\ meta' = h[c].ver
      <4>1. h[c].ver < Latest \/ h[c].ver = Latest
        BY <1>2, <2>3, <3>3 DEF Busy
      <4>2. CASE h[c].ver = Latest
        BY <1>4, <2>4, <3>1, <3>3, <4>2 DEF Begins
      <4> QED
        BY <2>2, <3>3, <4>1, <4>2
    <3> QED
      BY <3>1, <3>2, <3>3
  <2> QED
    BY <1>6, <2>5, <2>6, <2>7, <2>8, <2>9, <2>10, <2>11 DEF Handler
<1>7. CASE ClientRestarts
  BY <1>3, <1>4, <1>7 DEF ClientRestarts
<1>8. CASE Edit
  <2>1. /\ UNCHANGED <<part, meta, overlap>> /\ PartSize' = PartSize
        /\ \A w : Begins(w)' <=> Begins(w)
    BY <1>8, EditIs
  <2> QED
    BY <1>3, <2>1
<1> QED
  BY <1>5, <1>6, <1>7, <1>8, StepsAre

\* Whether a success is told.
Told == \E c \in Conns : \E i \in 1 .. Len(down[c]) : down[c][i].kind = "OK"

LEMMA ToldIsFinal ==
  /\ IInv /\ Told => spc = "final"
  /\ IInv /\ [Next]_vars /\ Told' => spc' = "final"
<1>1. IInv /\ Told => spc = "final"
  BY DEF IInv, InStep, Told
<1>2. InStep' /\ Told' => spc' = "final"
  BY DEF InStep, Told
<1> QED
  BY <1>1, <1>2, InStepKeeps

\* But by the client a success is not made up.
LEMMA NoNewSuccess ==
  ASSUME IInv, [Next]_vars, Elsewhere, Succeeds'
  PROVE  Succeeds /\ ver' = ver
<1> USE DEF vars, server, job, try, link, files, client, others
<1>1. /\ Succeeds <=> spc = "ok" \/ Told
      /\ Succeeds' <=> spc' = "ok" \/ Told'
  BY DEF Succeeds, Told
<1>2. Succeeds' => spc' \in {"ok", "final"}
  BY <1>1, ToldIsFinal
<1>3. ASSUME down' = down, spc' = spc, ver' = ver PROVE Succeeds /\ ver' = ver
  BY <1>3 DEF Succeeds
<1>4. CASE Begin
  BY <1>2, <1>4 DEF Begin
<1>5. CASE List
  BY <1>2, <1>5 DEF List
<1>6. CASE ListFails
  BY <1>2, <1>6 DEF ListFails
<1>7. CASE NoControl
  BY <1>2, <1>7 DEF NoControl
<1>8. CASE Check
  BY <1>2, <1>8 DEF Check
<1>9. CASE Dial
  BY <1>2, <1>9 DEF Dial
<1>10. CASE DialFails
  BY <1>2, <1>10 DEF DialFails, Again
<1>11. CASE Killed
  BY <1>2, <1>11 DEF Killed
<1>12. CASE GiveUp
  BY <1>2, <1>12 DEF GiveUp, Again
<1>13. CASE Put
  BY <1>2, <1>13 DEF Put
<1>14. CASE Resume
  BY <1>2, <1>14 DEF Resume
<1>15. CASE Data
  BY <1>2, <1>15 DEF Data
<1>16. CASE End
  <2>1. down' = down /\ spc = "data" /\ spc' = "final"
    BY <1>16 DEF End
  <2>2. ~Told
    BY <2>1, ToldIsFinal
  <2>3. ~Told'
    BY <2>1, <2>2 DEF Told
  <2> QED
    BY <1>1, <2>1, <2>3
<1>17. CASE Final
  <2>1. conns \in Conns /\ down[conns] # <<>> /\ Head(down[conns]).kind = "OK" /\ ver' = ver
    BY <1>17, ConnectionIs DEF Final, Answered, Live
  <2>2. down[conns] \in Seq(Answers)
    BY <2>1 DEF IInv, TypeOK
  <2>3. 1 \in 1 .. Len(down[conns]) /\ down[conns][1].kind = "OK"
    BY <2>1, <2>2, TailIs
  <2> QED
    BY <1>1, <2>1, <2>3 DEF Told
<1>18. CASE Download
  BY <1>3, <1>18 DEF Download
<1>19. CASE ServiceLists
  BY <1>3, <1>19 DEF ServiceLists
<1>20. CASE UNCHANGED vars
  BY <1>3, <1>20
<1> QED
  BY <1>4, <1>5, <1>6, <1>7, <1>8, <1>9, <1>10, <1>11, <1>12, <1>13, <1>14, <1>15, <1>16, <1>17,
     <1>18, <1>19, <1>20 DEF Elsewhere, Command

\* Nobody is about to replace the file.
Still == \A c \in Conns : Busy(c) => HasNoMore(c)

\* What went wrong stays counted.
LEMMA FaultsGrow ==
  ASSUME IInv, [Next]_vars
  PROVE  faults \in Nat /\ faults' \in Nat /\ faults <= faults'
<1> USE DEF vars, server, job, try, link, files, client, others
<1>1. faults \in Nat
  BY BoundsAssumption DEF IInv, TypeOK
<1> DEFINE Counts == faults' = faults \/ Fault
<1>2. ASSUME Elsewhere PROVE Counts
  <2>1. CASE Begin \/ Download \/ UNCHANGED vars
    BY <2>1 DEF Begin, Download
  <2>2. CASE ListFails \/ NoControl \/ Killed \/ ServiceLists
    BY <2>2 DEF ListFails, NoControl, Killed, ServiceLists
  <2>3. CASE List \/ Check \/ Dial \/ DialFails \/ GiveUp
    BY <2>3 DEF List, Check, Dial, DialFails, GiveUp
  <2>4. CASE Put \/ Resume \/ Data \/ End \/ Final
    BY <2>4 DEF Put, Resume, Data, End, Final
  <2> QED
    BY <1>2, <2>1, <2>2, <2>3, <2>4 DEF Elsewhere, Command
<1>3. ASSUME NEW c \in Conns, Handler(c) \/ LocalError(c) PROVE Counts
  BY <1>3 DEF Handler, HandlePut, Open, Receives, Sticks, ReceivesEnd, SizeWrong, Renames,
     SetsTimes, Leaves, Unsupported, LocalError
<1>4. ASSUME ClientRestarts \/ Edit PROVE Counts
  BY <1>4 DEF ClientRestarts, Edit
<1>5. Counts
  BY <1>2, <1>3, <1>4, StepsAre
<1> QED
  BY <1>1, <1>5 DEF Fault

\* What is told stays true while the file is as it was.
LEMMA AsToldStays ==
  ASSUME IInv, [Next]_vars, AsTold, ver' = ver, full' = full, inode'[full] = inode[full]
  PROVE  AsTold'
<1>1. Mtime' = Mtime
  BY DEF Mtime
<1>2. faults > 0 => faults' > 0
  BY FaultsGrow
<1>3. PICK v \in Versions :
        /\ inode[full].data = Content(v)
        /\ \/ v = ver /\ Mtime = ver
           \/ v = ver /\ Mtime = Now /\ faults > 0
           \/ v > ver /\ Mtime \in {v, ver}
  BY DEF AsTold
<1> QED
  BY <1>1, <1>2, <1>3 DEF AsTold

\* What SetsTimes leaves, whether Chtimes fails or not.
LEMMA TimesAreTold ==
  ASSUME IInv, NEW c \in Conns, SetsTimes(c), h[c].pc = "times", h[c].ver = ver, ver \in Versions,
         ~overlap
  PROVE  full' = full /\ full # None /\ AsTold'
<1>1. /\ full # None /\ full' = full /\ ver' = ver
      /\ \/ inode[full] = [data |-> Content(ver), mtime |-> Now]
         \/ \E v \in Versions : v > ver /\ inode[full] = Copy(v)
      /\ \/ inode' = [inode EXCEPT ![full].mtime = ver]
         \/ inode' = inode /\ Fault
  <2>1. full # None /\ FileOf(c)
    BY DEF IInv, RenamedExists, RenamedIsOwn
  <2>2. full' = full /\ ver' = ver
    BY DEF SetsTimes, server, try
  <2>3. \/ inode' = [inode EXCEPT ![full].mtime = ver]
        \/ inode' = inode /\ Fault
    BY DEF SetsTimes
  <2> QED
    BY <2>1, <2>2, <2>3 DEF FileOf
<1>2. full \in Inodes /\ inode \in [Inodes -> Files] /\ faults \in Nat
  <2>1. TypeOK
    BY DEF IInv
  <2>2. faults \in Nat
    BY <2>1, BoundsAssumption DEF TypeOK
  <2> QED
    BY <1>1, <2>1, <2>2, TypesAre DEF FileTypes
<1>3. PICK v \in Versions :
        /\ inode[full].data = Content(v)
        /\ \/ v = ver /\ inode[full].mtime = Now
           \/ v > ver /\ inode[full].mtime = v
  <2>1. CASE inode[full] = [data |-> Content(ver), mtime |-> Now]
    <3>1. inode[full].data = Content(ver) /\ inode[full].mtime = Now
      BY <2>1
    <3> QED
      BY <3>1
  <2>2. ASSUME NEW v \in Versions, v > ver, inode[full] = Copy(v)
        PROVE  inode[full].data = Content(v) /\ v > ver /\ inode[full].mtime = v
    BY <2>2, ContentIs
  <2> QED
    BY <1>1, <2>1, <2>2
<1>4. CASE inode' = [inode EXCEPT ![full].mtime = ver]
  <2>1. inode'[full] = [inode[full] EXCEPT !.mtime = ver]
    BY <1>2, <1>4
  <2>2. inode'[full].data = inode[full].data /\ inode'[full].mtime = ver
    BY <1>2, <2>1 DEF Files
  <2>3. Mtime' = ver
    BY <1>1, <2>2 DEF Mtime
  <2>4. inode'[full'].data = Content(v)
    BY <1>1, <1>3, <2>2
  <2> QED
    BY <1>1, <1>3, <2>3, <2>4 DEF AsTold
<1>5. CASE inode' = inode /\ Fault
  <2>1. faults' > 0
    BY <1>2, <1>5 DEF Fault
  <2>2. Mtime' = inode[full].mtime /\ inode'[full'].data = Content(v)
    BY <1>1, <1>3, <1>5 DEF Mtime
  <2> QED
    BY <1>1, <1>3, <2>1, <2>2 DEF AsTold
<1> QED
  BY <1>1, <1>4, <1>5

\* A goroutine with nothing more to read leaves it as it is.
LEMMA StillStays ==
  ASSUME IInv, NEW c \in Conns, Handler(c) \/ LocalError(c), ~overlap', Succeeds
  PROVE  /\ full' = full /\ inode'[full] = inode[full] /\ spc' = spc /\ ver' = ver
         /\ Busy(c)' => HasNoMore(c)'
         /\ ~SetsTimes(c)
<1> USE DEF files, client
<1>1. /\ TypeOK /\ GoroutineSteps(c) /\ OnlyItsOwn(c) /\ ~overlap /\ full # None /\ Still
      /\ RequestFirst
  BY AloneIs, GoroutineStepsAre, HandlerTouches DEF IInv, SuccessIsTrue, Still
<1>2. spc' = spc /\ ver' = ver /\ closed' = closed
  BY <1>1 DEF OnlyItsOwn, server, try
<1>3. spc # "resume"
  BY ToldIsFinal DEF Succeeds, Told
<1>4. h[c].pc \in {"end", "times"} => FALSE
  BY <1>1 DEF Still, Busy, HasNoMore
<1>5. h[c].pc = "recv" => up[c] = <<>>
  BY <1>1 DEF Still, Busy, HasNoMore
<1>6. CASE HandlePut(c)
  <2>1. full' = full /\ inode' = inode
    BY <1>6 DEF HandlePut
  <2>2. IsPut(c, 1) /\ 1 \in 1 .. Len(up[c]) /\ OneFrameLess(c) /\ h'[c].pc = "open"
    BY <1>1, <1>6, GoroutineGoesOn DEF GoroutineSteps
  <2>3. Len(up[c]) = 1 /\ closed[c]
    BY <1>1, <1>3, <2>2 DEF RequestFirst
  <2>4. up'[c] = <<>>
    <3>1. up'[c] \in Seq(Requests)
      BY LinkTypesKeep DEF LinkTypes, Next
    <3>2. Len(up'[c]) = 0
      BY <2>2, <2>3 DEF OneFrameLess
    <3> QED
      BY <3>1, <3>2
  <2> QED
    BY <1>1, <1>2, <1>4, <2>1, <2>2, <2>3, <2>4 DEF HasNoMore, GoroutineSteps
<1>7. CASE Open(c)
  <2>1. full' = full /\ part' # full
    <3>1. full' = full
      BY <1>7 DEF Open
    <3>2. part' # None /\ PartIsNotFull'
      BY <1>7, OpenIs, PartIsNotFullKeeps DEF Next, Handler
    <3> QED
      BY <3>1, <3>2 DEF PartIsNotFull
  <2>2. full \in Inodes
    BY <1>1 DEF TypeOK
  <2>3. inode'[full] = inode[full]
    BY <1>7, <2>1, <2>2, OpenIs
  <2>4. h[c].pc = "open" /\ h'[c].pc = "recv" /\ up' = up
    BY <1>1, <1>7 DEF GoroutineSteps, Proceeds
  <2>5. HasNoMore(c)
    BY <1>1, <2>4 DEF Still, Busy
  <2> QED
    BY <1>2, <1>4, <1>1, <2>1, <2>3, <2>4, <2>5 DEF HasNoMore, GoroutineSteps
<1>8. CASE Receives(c)
  BY <1>1, <1>5, <1>8 DEF GoroutineSteps, Proceeds, Receives, Reads
<1>9. CASE Sticks(c)
  BY <1>1, <1>5, <1>9 DEF GoroutineSteps, Proceeds, Sticks, Reads
<1>10. CASE ReceivesEnd(c)
  BY <1>1, <1>5, <1>10 DEF GoroutineSteps, Proceeds, ReceivesEnd, Reads
<1>11. CASE SizeWrong(c)
  BY <1>1, <1>4, <1>11 DEF GoroutineSteps
<1>12. CASE Renames(c)
  BY <1>1, <1>4, <1>12 DEF GoroutineSteps, Proceeds
<1>13. CASE SetsTimes(c)
  BY <1>1, <1>4, <1>13 DEF GoroutineSteps
<1>14. CASE Leaves(c) \/ Unsupported(c) \/ LocalError(c)
  <2>1. full' = full /\ inode' = inode
    BY <1>14 DEF Leaves, Unsupported, LocalError
  <2>2. ~Busy(c)'
    BY <1>1, <1>14 DEF GoroutineSteps, Busy
  <2>3. ~SetsTimes(c)
    BY <1>1, <1>4 DEF GoroutineSteps
  <2> QED
    BY <1>2, <2>1, <2>2, <2>3
<1> QED
  BY <1>6, <1>7, <1>8, <1>9, <1>10, <1>11, <1>12, <1>13, <1>14 DEF Handler

\* Only the end of handlePut makes a success up.
LEMMA SuccessIsTold ==
  ASSUME IInv, NEW c \in Conns, Handler(c) \/ LocalError(c), ~Succeeds, Succeeds'
  PROVE  SetsTimes(c) /\ ~closed[c]
<1>1. OnlyItsOwn(c) /\ GoroutineSteps(c) /\ Len(down[c]) \in Nat
  BY HandlerTouches, GoroutineStepsAre DEF IInv, TypeOK
<1>2. spc' = spc
  BY <1>1 DEF OnlyItsOwn, server
<1>3. PICK d \in Conns : \E i \in 1 .. Len(down'[d]) : down'[d][i].kind = "OK"
  BY <1>2 DEF Succeeds
<1>4. PICK i \in 1 .. Len(down'[d]) : down'[d][i].kind = "OK"
  BY <1>3
<1>5. ~(i \in 1 .. Len(down[d]) /\ down'[d][i] = down[d][i])
  BY <1>4 DEF Succeeds
<1>6. d = c /\ ~closed[c] /\ down' # down
  BY <1>1, <1>5 DEF OnlyItsOwn
<1>7. ASSUME NEW a, OneAnswerMore(c, a), a.kind # "OK" PROVE FALSE
  <2>1. i = Len(down[c]) + 1
    BY <1>1, <1>5, <1>6, <1>7 DEF OneAnswerMore
  <2> QED
    BY <1>4, <1>6, <1>7, <2>1 DEF OneAnswerMore
<1>8. /\ ~OneAnswerMore(c, Bad)
      /\ ~OneAnswerMore(c, [kind |-> "RESUME", offset |-> h'[c].pos])
  BY <1>7 DEF Bad
<1> QED
  BY <1>1, <1>6, <1>8 DEF GoroutineSteps, Handler

LEMMA SuccessIsTrueKeeps == IInv /\ [Next]_vars => SuccessIsTrue'
<1> SUFFICES ASSUME IInv, [Next]_vars, ~overlap', Succeeds'
             PROVE  full' # None /\ AsTold' /\ Still'
  BY DEF SuccessIsTrue, Still
<1> USE DEF vars, server, job, try, link, files, client, others
<1>1. TypeOK /\ h \in [Conns -> Handlers] /\ (~overlap /\ Succeeds => full # None /\ AsTold /\ Still)
  BY DEF IInv, TypeOK, SuccessIsTrue, Still
<1>2. CASE Elsewhere /\ Beside
  <2>1. Succeeds /\ ver' = ver
    BY <1>2, NoNewSuccess
  <2>2. ~overlap /\ UNCHANGED <<inode, full>>
    BY <1>2 DEF Beside
  <2>3. full' # None /\ AsTold'
    BY <1>1, <2>1, <2>2, AsToldStays
  <2>4. Still'
    <3> SUFFICES ASSUME NEW c \in Conns, Busy(c)' PROVE HasNoMore(c)'
      BY DEF Still
    <3>1. Busy(c) /\ h'[c] = h[c]
      BY <1>2, BesideIs
    <3>2. HasNoMore(c)
      BY <1>1, <2>1, <2>2, <3>1 DEF Still
    <3> QED
      BY <3>1, <3>2, HasNoMoreStays DEF HasNoMore
  <2> QED
    BY <2>3, <2>4
<1>3. ASSUME NEW c \in Conns, Handler(c) \/ LocalError(c) PROVE full' # None /\ AsTold' /\ Still'
  <2>1. ~overlap /\ OnlyItsOwn(c) /\ GoroutineSteps(c)
    BY <1>3, AloneIs, HandlerTouches, GoroutineStepsAre
  <2>2. CASE Succeeds
    <3>1. /\ full' = full /\ inode'[full] = inode[full] /\ ver' = ver
          /\ Busy(c)' => HasNoMore(c)'
      BY <1>3, <2>2, StillStays
    <3>2. full' # None /\ AsTold'
      BY <1>1, <2>1, <2>2, <3>1, AsToldStays
    <3>3. \A d \in Conns : d # c /\ Busy(d)' => HasNoMore(d)'
      BY <1>1, <1>3, <2>1, <2>2, AloneIs DEF Still
    <3> QED
      BY <3>1, <3>2, <3>3 DEF Still
  <2>3. CASE ~Succeeds
    <3>1. SetsTimes(c) /\ ~closed[c]
      BY <1>3, <2>3, SuccessIsTold
    <3>2. h[c].pc = "times" /\ h'[c].pc = "idle" /\ spc = "final" /\ h[c].ver = ver
      BY <2>1, <3>1 DEF GoroutineSteps, IInv, InStep
    <3>3. ver \in Versions
      BY <1>1, <3>2 DEF TypeOK, IInv, VersionsOfWorker
    <3>4. full' # None /\ AsTold'
      BY <2>1, <3>1, <3>2, <3>3, TimesAreTold
    <3>5. \A d \in Conns : ~Busy(d)'
      BY <1>3, <3>2, AloneIs DEF Busy
    <3> QED
      BY <3>4, <3>5 DEF Still
  <2> QED
    BY <2>2, <2>3
<1>4. CASE ClientRestarts
  <2>1. UNCHANGED <<inode, full, spc, ver, down, overlap>>
    BY <1>4 DEF ClientRestarts
  <2>2. Succeeds /\ ~overlap
    BY <2>1 DEF Succeeds
  <2>3. \A c \in Conns : ~Busy(c)'
    BY <1>4 DEF ClientRestarts, Busy, NoHandler
  <2> QED
    BY <1>1, <2>1, <2>2, <2>3, AsToldStays DEF Still
<1>5. CASE Edit
  <2>1. /\ UNCHANGED <<server, link, h, overlap>> /\ full' # None
        /\ \E v \in Versions : v > stored /\ inode'[full'] = Copy(v)
    BY <1>5, EditIs
  <2>2. Succeeds /\ ~overlap
    BY <2>1 DEF Succeeds
  <2>3. PICK v \in Versions : v > stored /\ inode'[full'] = Copy(v)
    BY <2>1
  <2>4. Mtime' = v
    BY <2>1, <2>3 DEF Mtime, Copy
  <2>5. v > ver'
    <3>1. v \in Nat /\ stored \in Nat /\ ver \in Nat /\ ver <= stored
      BY <1>1, <2>3, NowIs DEF TypeOK, None, IInv, VersionsOfWorker
    <3> QED
      BY <2>1, <2>3, <3>1
  <2>6. AsTold'
    BY <2>3, <2>4, <2>5 DEF AsTold, Copy
  <2>7. Still'
    BY <1>1, <2>1, <2>2 DEF Still, Busy, HasNoMore
  <2> QED
    BY <2>1, <2>6, <2>7
<1> QED
  BY <1>2, <1>3, <1>4, <1>5, StepsAre

LEMMA ReplacedAtOnceKeeps == IInv /\ [Next]_vars => ReplacedAtOnce'
<1> SUFFICES ASSUME IInv, [Next]_vars, ~overlap', full' # None PROVE Complete(full)'
  BY DEF ReplacedAtOnce
<1> USE DEF files, client
<1>1. TypeOK /\ h \in [Conns -> Handlers] /\ (~overlap /\ full # None => Complete(full))
  BY DEF IInv, TypeOK, ReplacedAtOnce
<1>2. ASSUME full' = full, inode'[full] = inode[full], ~overlap PROVE Complete(full)'
  BY <1>1, <1>2 DEF Complete
<1>3. CASE Beside
  BY <1>2, <1>3 DEF Beside
<1>4. ASSUME NEW c \in Conns, Handler(c) \/ LocalError(c) PROVE Complete(full)'
  <2>1. ~overlap /\ GoroutineSteps(c) /\ PartOf(c)
    BY <1>4, AloneIs, GoroutineStepsAre DEF IInv, PartOfBusy
  <2>2. PartIsNotFull /\ PartIsNotFull'
    BY PartIsNotFullKeeps DEF IInv
  <2>3. CASE Open(c)
    <3>1. full' = full /\ part' # None
      BY <2>3, OpenIs DEF Open
    <3>2. full \in Inodes /\ full # part'
      BY <1>1, <2>2, <3>1 DEF TypeOK, PartIsNotFull
    <3>3. inode'[full] = inode[full]
      BY <2>3, <3>2, OpenIs
    <3> QED
      BY <1>2, <2>1, <3>1, <3>3
  <2>4. CASE Receives(c)
    <3>1. full' = full /\ h[c].pc = "recv"
      BY <2>4 DEF Receives
    <3>2. full \in Inodes /\ full # h[c].fd
      BY <1>1, <2>1, <2>2, <3>1 DEF TypeOK, PartIsNotFull, PartOf
    <3>3. inode'[full] = inode[full]
      BY <2>4, <3>2, ReceivesIs
    <3> QED
      BY <1>2, <2>1, <3>1, <3>3
  <2>5. CASE Renames(c)
    <3>1. h[c].pc = "end" /\ h'[c].pc = "times" /\ h'[c].ver = h[c].ver
      BY <2>1, <2>5 DEF GoroutineSteps, Proceeds
    <3>2. h[c].ver \in Versions
      <4>1. h[c] \in Handlers /\ h[c].ver # None
        BY <1>1, <3>1 DEF IInv, VersionsOfClient, Busy
      <4> QED
        BY <4>1 DEF Handlers
    <3>3. \/ inode'[full'] = [data |-> Content(h[c].ver), mtime |-> Now]
          \/ \E v \in Versions : inode'[full'] = Copy(v)
      BY <3>1, OwnKeeps DEF RenamedIsOwn, FileOf
    <3>4. \E v \in Versions : inode'[full'].data = Content(v)
      <4>1. CASE inode'[full'] = [data |-> Content(h[c].ver), mtime |-> Now]
        <5>1. inode'[full'].data = Content(h[c].ver)
          BY <4>1
        <5> QED
          BY <3>2, <5>1
      <4>2. CASE \E v \in Versions : inode'[full'] = Copy(v)
        BY <4>2, ContentIs
      <4> QED
        BY <3>3, <4>1, <4>2
    <3> QED
      BY <3>4 DEF Complete
  <2>6. CASE SetsTimes(c)
    <3>1. /\ full' = full
          /\ inode' = [inode EXCEPT ![full].mtime = h[c].ver] \/ inode' = inode
      BY <2>6 DEF SetsTimes
    <3>2. full \in Inodes /\ inode \in [Inodes -> Files]
      BY <1>1, <3>1, TypesAre DEF TypeOK, FileTypes
    <3>3. inode'[full].data = inode[full].data
      BY <3>1, <3>2 DEF Files
    <3> QED
      BY <1>1, <2>1, <3>1, <3>3 DEF Complete
  <2>7. CASE ~(Open(c) \/ Receives(c) \/ Renames(c) \/ SetsTimes(c))
    <3>1. full' = full /\ inode' = inode
      BY <1>4, <2>7 DEF Handler, HandlePut, Sticks, ReceivesEnd, SizeWrong, Leaves, Unsupported,
         LocalError
    <3> QED
      BY <1>2, <2>1, <3>1
  <2> QED
    BY <2>3, <2>4, <2>5, <2>6, <2>7
<1>5. CASE ClientRestarts
  BY <1>2, <1>5 DEF ClientRestarts
<1>6. CASE Edit
  <2>1. PICK v \in Versions : inode'[full'] = Copy(v)
    BY <1>6, EditIs
  <2>2. inode'[full'].data = Content(v)
    BY <2>1 DEF Copy
  <2> QED
    BY <2>2 DEF Complete
<1> QED
  BY <1>3, <1>4, <1>5, <1>6, StepsAre

-----------------------------------------------------------------------------
(* The invariant, and what follows.                                        *)

LEMMA NextIInv == IInv /\ [Next]_vars => IInv'
  BY TypeOKKeeps, LinksKeep, RenamedExistsKeeps, VersionsOfWorkerKeep, VersionsOfClientKeep,
     SeenByWorkerKeeps, SeenByClientKeeps, RequestFirstKeeps, ConnectionIsFreshKeeps,
     StreamGoesOnKeeps, InStepKeeps, LengthsKeep, OneBusyKeeps, PartIsNotFullKeeps, OwnKeeps,
     MetaTellsKeeps, SuccessIsTrueKeeps, ReplacedAtOnceKeeps DEF IInv

LEMMA Invariance == Spec => []IInv
  BY InitIInv, NextIInv, PTL DEF Spec

(* Every variable keeps its type: attempts stay within RETRY_COUNT, no     *)
(* offset passes the end of the file, and no connection holds more than    *)
(* the frames of one stream and an answer for each (sendRestoreFile,       *)
(* handlePut).                                                             *)
THEOREM RestoreTypes == Spec => []TypeOK
<1>1. IInv => TypeOK
  BY DEF IInv
<1> QED
  BY <1>1, Invariance, PTL

(* A file that is reported as restored has the content that was sent, or a *)
(* newer one a user has written, after any breaks, retries and changes of  *)
(* the stored version, as long as no goroutine left over by an earlier     *)
(* attempt was busy beside another (restoreWorker, handlePut).  Its time   *)
(* is the one that was sent, or that of the user's write, but for the time *)
(* of the rename when Chtimes has failed unnoticed; a user's write between *)
(* the rename and Chtimes gets the time that was sent.                     *)
THEOREM RestoredAsSent == Spec => []RestoredIsSent
<1>1. IInv => RestoredIsSent
  BY DEF IInv, SuccessIsTrue, Succeeds, RestoredIsSent, AsTold
<1> QED
  BY <1>1, Invariance, PTL

(* The client's file is a whole version at all times (handlePut: .part,    *)
(* rename).                                                                *)
THEOREM AlwaysComplete == Spec => []ReplacedAtOnce
<1>1. IInv => ReplacedAtOnce
  BY DEF IInv
<1> QED
  BY <1>1, Invariance, PTL

(* What a goroutine resumes is of the version it has been asked for, even  *)
(* if the stored version has changed between the attempts and .meta was    *)
(* not written (handlePut: .meta).                                         *)
THEOREM ResumesOwnVersion == Spec => []ResumesSameVersion
<1>1. IInv => ResumesSameVersion
  <2> SUFFICES ASSUME IInv, NEW c \in Conns, h[c].pc = "open", h[c].pos > 0, ~HasNoMore(c), ~overlap
               PROVE  part # None /\ \A i \in 1 .. h[c].pos : inode[part].data[i] = <<h[c].ver, i>>
    BY DEF ResumesSameVersion
  <2>1. PartSize = h[c].pos /\ Begins(h[c].ver)
    BY DEF IInv, PartOfBusy, PartOf, PartIsOwn, OwnBlocks
  <2>2. part # None
    BY <2>1 DEF PartSize
  <2> QED
    BY <2>1, <2>2 DEF Begins
<1> QED
  BY <1>1, Invariance, PTL

(* Without -force the file the check has seen in the list is not replaced  *)
(* by an older one, however late the goroutine gets to it and whatever run *)
(* of the command has asked for it (restoreWorker, handlePut).             *)
THEOREM NewerIsKept == Spec => NewerKept
<1>1. IInv => \A c \in Conns : Replaces(h[c].ver) /\ h[c].pc = "end" /\ ~force
                              => inode[full].mtime # seen[c]
  <2> SUFFICES ASSUME IInv, NEW c \in Conns, Replaces(h[c].ver), h[c].pc = "end", ~force
               PROVE  inode[full].mtime # seen[c]
    OBVIOUS
  <2>1. seen[c] <= h[c].ver
    BY DEF IInv, SeenByClient, Busy
  <2>2. inode[full].mtime > h[c].ver /\ inode[full].mtime \in Nat
    BY NowIs DEF Replaces
  <2>3. seen[c] \in Nat /\ h[c].ver \in Nat
    <3>1. seen[c] \in Versions \cup {None, Now}
      BY DEF IInv, TypeOK
    <3>2. h[c] \in Handlers
      BY DEF IInv, TypeOK
    <3>3. h[c].ver \in Nat
      BY <3>2, NowIs DEF Handlers, None
    <3> QED
      BY <3>1, <3>3, NowIs DEF None
  <2> QED
    BY <2>1, <2>2, <2>3
<1> QED
  BY <1>1, Invariance, PTL DEF NewerKept

=============================================================================
