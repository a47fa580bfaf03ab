---------------------------- MODULE SessionProofs ----------------------------
(***************************************************************************)
(* Proofs about module Session: what is known of the content of a stored   *)
(* file when answers do not name their requests.  The invariant tells      *)
(* three kinds of attempts apart.  One that is not behind has the rest of  *)
(* its own answer before it, frame by frame; one that is behind has a      *)
(* coherent answer of some file before it, and what it stores is of that   *)
(* file; of a delta transfer that is behind nothing is known but the size. *)
(***************************************************************************)
EXTENDS Session, SequenceTheorems, TLAPS

Headers == {"resp", "delta"}
Inside == {"data", "keep", "end"}

\* A queue has only what the comparison found to differ, and the worker's
\* file is one of it.
TasksDiffer == \A p \in tasks : ~Unchanged(p)
WorkerHasTask == cur # None => cur \in tasks

\* Answers stay together: a frame inside of one follows a frame of the same
\* file.
Follows(f, g) == g.kind \in Inside => f.kind \in Headers \cup {"data", "keep"} /\ g.block[1] = f.block[1]
Coherent == \A i \in 1 .. Len(wire) - 1 : Follows(wire[i], wire[i + 1])
HeadersNameFiles == \A i \in 1 .. Len(wire) : wire[i].kind \in Headers => wire[i].block[1] \in Paths

\* The attempt has an answer, and reads on from it.
Answering == pc \in {"open", "stream", "verify"}
ReadsOn ==
  pc \in {"open", "stream"} /\ wire # <<>> /\ wire[1].kind \in Inside => wire[1].block[1] = resp

\* An attempt that is behind has taken an answer that is not its own.
BehindTakes == Answering /\ behind => (IF delta THEN "delta" ELSE "resp") \in taken[cur]

\* The .meta file of the attempt.
MetaOfAttempt == Answering => meta[cur] = IF delta THEN None ELSE resp

\* A .part with a .meta has blocks of the file that .meta is about.
MetaTells ==
  \A p \in Paths : "delta" \notin taken[p] /\ meta[p] # None =>
    \A k \in 1 .. Len(part[p]) : part[p][k][1] = meta[p]

\* A sequence of blocks is a beginning of a file.
Own(p, s) == \A k \in 1 .. Len(s) : s[k] = <<p, k>>
OwnParts == \A p \in Paths : taken[p] = {} => Own(p, part[p])
OwnDelta == delta /\ ~behind /\ pc \in {"stream", "verify"} => Own(cur, part[cur])

\* What an attempt that is not behind has before it is the rest of its own
\* answer: the frame i has the block At(i).
Base == IF delta /\ pc # "stream" THEN 0 ELSE Len(part[cur])
At(i) == Base + i - (IF pc = "sent" THEN 1 ELSE 0)
IsRest(f, k) ==
  /\ f.kind \in Headers => f.block[1] = cur
  /\ f.kind = "data" => f.block = <<cur, k>>
  /\ f.kind = "keep" => target[cur][k] = <<cur, k>>
Aligned ==
  /\ ~behind /\ pc \in {"sent", "open", "stream"} => \A i \in 1 .. Len(wire) : IsRest(wire[i], At(i))
  /\ ~behind /\ Answering => resp = cur

IInv ==
  /\ TypeOK
  /\ TasksDiffer /\ WorkerHasTask
  /\ Coherent /\ HeadersNameFiles /\ ReadsOn
  /\ BehindTakes /\ MetaOfAttempt /\ MetaTells
  /\ OwnParts /\ OwnDelta /\ Aligned
  /\ UnchangedIsStored

-----------------------------------------------------------------------------
(* Sequences.                                                              *)

\* A function on 1 .. n is a sequence of length n.
LEMMA FunIsSeq ==
  ASSUME NEW S, NEW n \in Nat, NEW f \in [1 .. n -> S]
  PROVE  f \in Seq(S) /\ Len(f) = n
<1>1. f \in Seq(S)
  BY SeqDef
<1>2. 1 .. Len(f) = 1 .. n /\ Len(f) \in Nat
  BY <1>1, LenProperties
<1> QED
  BY <1>1, <1>2

\* What Append does.
LEMMA AppendIs ==
  ASSUME NEW S, NEW s \in Seq(S), NEW e \in S
  PROVE  /\ Append(s, e) \in Seq(S) /\ Len(Append(s, e)) = Len(s) + 1
         /\ \A k \in 1 .. Len(s) : Append(s, e)[k] = s[k]
         /\ Append(s, e)[Len(s) + 1] = e
  OBVIOUS

LEMMA FileIs ==
  ASSUME NEW p \in Paths
  PROVE  /\ File(p) \in Seq(Blocks) /\ Len(File(p)) = Size[p]
         /\ \A k \in 1 .. Size[p] : File(p)[k] = <<p, k>>
<1> USE PathsArePositive, SizesAreNat
<1>1. File(p) \in [1 .. Size[p] -> Blocks]
  BY DEF File, Blocks
<1>2. Size[p] \in Nat
  OBVIOUS
<1>3. File(p) \in Seq(Blocks) /\ Len(File(p)) = Size[p]
  BY <1>1, <1>2, FunIsSeq
<1> QED
  BY <1>3 DEF File

LEMMA OldCopyIs == \A p \in Paths : OldCopy(p) \in Seq(Blocks)
<1> TAKE p \in Paths
<1>1. <<p, None>> \in Blocks
  BY PathsArePositive DEF None, Blocks
<1>2. File(p) \in [1 .. Size[p] -> Blocks] /\ Size[p] \in Nat
  BY PathsArePositive, SizesAreNat DEF File, Blocks
<1>3. [File(p) EXCEPT ![Size[p]] = <<p, None>>] \in [1 .. Size[p] -> Blocks]
  BY <1>1, <1>2
<1>4. [File(p) EXCEPT ![Size[p]] = <<p, None>>] \in Seq(Blocks)
  BY <1>2, <1>3, FunIsSeq
<1> QED
  BY <1>4, EmptySeq DEF OldCopy, NoFile

-----------------------------------------------------------------------------
(* The client's answers.                                                   *)

\* An answer begins with a header or an error, stays together, and has the
\* block after the .part first.
AnswerFits(a, del) ==
  /\ a \in Seq(Frames) /\ a # <<>>
  /\ a[1].kind \notin Inside
  /\ \A i \in 1 .. Len(a) - 1 : Follows(a[i], a[i + 1])
  /\ \A i \in 1 .. Len(a) : IsRest(a[i], (IF del THEN 0 ELSE Len(part[cur])) + i - 1)

LEMMA FrameIs ==
  \A kind \in Kinds, p, k \in Nat :
    /\ Frame(kind, p, k) \in Frames
    /\ Frame(kind, p, k).kind = kind /\ Frame(kind, p, k).block = <<p, k>>
  BY DEF Frame, Frames, Blocks

\* Joining two sequences of frames.
LEMMA ConcatIs ==
  \A s, t \in Seq(Frames) :
    /\ s \o t \in Seq(Frames) /\ Len(s \o t) = Len(s) + Len(t)
    /\ \A i \in 1 .. Len(s) : (s \o t)[i] = s[i]
    /\ \A i \in 1 .. Len(t) : (s \o t)[Len(s) + i] = t[i]
  OBVIOUS

\* The stream of blocks from k on, and its end.
LEMMA StreamIs ==
  ASSUME NEW p \in Paths, NEW k \in 1 .. Size[p] + 1, NEW keep \in BOOLEAN
  PROVE  /\ Stream(p, k, keep) \in Seq(Frames) /\ Len(Stream(p, k, keep)) = Size[p] - k + 2
         /\ \A i \in 1 .. Size[p] - k + 1 :
              /\ Stream(p, k, keep)[i].kind \in {"data", "keep"}
              /\ Stream(p, k, keep)[i].block = <<p, k + i - 1>>
              /\ Stream(p, k, keep)[i].kind = "keep" => target[p][k + i - 1] = <<p, k + i - 1>>
         /\ Stream(p, k, keep)[Size[p] - k + 2] = Frame("end", p, 0)
<1> DEFINE n == Size[p] - k + 1
           B == [i \in 1 .. n |->
                   IF keep /\ k + i - 1 <= Len(target[p]) /\ target[p][k + i - 1] = File(p)[k + i - 1]
                   THEN Frame("keep", p, k + i - 1) ELSE Data(p, k + i - 1)]
           E == <<Frame("end", p, 0)>>
<1>0. n \in Nat /\ Size[p] \in Nat /\ p \in Nat
  BY SizesAreNat, PathsArePositive
<1>1. \A i \in 1 .. n : k + i - 1 \in Nat /\ k + i - 1 \in 1 .. Size[p]
  BY <1>0
<1>2. \A i \in 1 .. n :
        /\ B[i] \in Frames /\ B[i].kind \in {"data", "keep"} /\ B[i].block = <<p, k + i - 1>>
        /\ B[i].kind = "keep" => target[p][k + i - 1] = <<p, k + i - 1>>
  <2> TAKE i \in 1 .. n
  <2>1. File(p)[k + i - 1] = <<p, k + i - 1>>
    BY <1>1, FileIs
  <2>2. \/ B[i] = Frame("keep", p, k + i - 1) /\ target[p][k + i - 1] = <<p, k + i - 1>>
        \/ B[i] = Frame("data", p, k + i - 1)
    BY <2>1 DEF Data
  <2>3. k + i - 1 \in Nat /\ "keep" \in Kinds /\ "data" \in Kinds
    BY <1>1 DEF Kinds
  <2>4. CASE B[i] = Frame("keep", p, k + i - 1) /\ target[p][k + i - 1] = <<p, k + i - 1>>
    <3> HIDE DEF B
    <3> QED
      BY <2>3, <2>4, <1>0, FrameIs
  <2>5. CASE B[i] = Frame("data", p, k + i - 1)
    <3> HIDE DEF B
    <3>1. B[i] \in Frames /\ B[i].kind = "data" /\ B[i].block = <<p, k + i - 1>>
      BY <2>3, <2>5, <1>0, FrameIs
    <3> QED
      BY <3>1
  <2> QED
    BY <2>2, <2>4, <2>5
<1>3. B \in Seq(Frames) /\ Len(B) = n
  <2>1. B \in [1 .. n -> Frames]
    BY <1>2
  <2> QED
    BY <2>1, <1>0, FunIsSeq
<1>4. Frame("end", p, 0) \in Frames
  BY <1>0, FrameIs DEF Kinds
<1>5. E \in Seq(Frames) /\ Len(E) = 1 /\ E[1] = Frame("end", p, 0)
  BY <1>4
<1>6. Stream(p, k, keep) = B \o E
  BY DEF Stream
<1>n. n = Size[p] - k + 1 /\ n + 1 = Size[p] - k + 2
  BY <1>0
<1> HIDE DEF B, E, n
<1>7. /\ B \o E \in Seq(Frames) /\ Len(B \o E) = n + 1
      /\ \A i \in 1 .. n : (B \o E)[i] = B[i]
      /\ (B \o E)[n + 1] = E[1]
  <2>1. /\ B \o E \in Seq(Frames) /\ Len(B \o E) = Len(B) + Len(E)
        /\ \A i \in 1 .. Len(B) : (B \o E)[i] = B[i]
        /\ \A i \in 1 .. Len(E) : (B \o E)[Len(B) + i] = E[i]
    BY <1>3, <1>5, ConcatIs, Zenon
  <2> QED
    BY <2>1, <1>3, <1>5
<1>8. /\ Stream(p, k, keep) \in Seq(Frames) /\ Len(Stream(p, k, keep)) = n + 1
      /\ \A i \in 1 .. n :
           /\ Stream(p, k, keep)[i].kind \in {"data", "keep"}
           /\ Stream(p, k, keep)[i].block = <<p, k + i - 1>>
           /\ Stream(p, k, keep)[i].kind = "keep" => target[p][k + i - 1] = <<p, k + i - 1>>
      /\ Stream(p, k, keep)[n + 1] = Frame("end", p, 0)
  BY <1>2, <1>5, <1>6, <1>7
<1> QED
  BY <1>8, <1>n

\* A header with such a stream behind it.
LEMMA HeaderAndStream ==
  ASSUME TypeOK, cur \in Paths, NEW keep \in BOOLEAN, NEW h \in Headers, NEW del \in BOOLEAN,
         NEW k \in 1 .. Size[cur] + 1, k = IF del THEN 1 ELSE Len(part[cur]) + 1
  PROVE  AnswerFits(<<Frame(h, cur, 0)>> \o Stream(cur, k, keep), del)
<1> DEFINE H == <<Frame(h, cur, 0)>>
           S == Stream(cur, k, keep)
           a == H \o S
           n == Size[cur] - k + 1
<1>0. n \in Nat /\ cur \in Nat /\ h \in Kinds
  BY SizesAreNat, PathsArePositive DEF Headers, Kinds
<1>n. n = Size[cur] - k + 1 /\ n + 1 = Size[cur] - k + 2
  BY <1>0, SizesAreNat
<1> HIDE DEF n
<1>1. H \in Seq(Frames) /\ Len(H) = 1 /\ H[1].kind = h /\ H[1].block = <<cur, 0>>
  BY <1>0, FrameIs
<1>2. /\ S \in Seq(Frames) /\ Len(S) = n + 1
      /\ \A i \in 1 .. n :
           /\ S[i].kind \in {"data", "keep"} /\ S[i].block = <<cur, k + i - 1>>
           /\ S[i].kind = "keep" => target[cur][k + i - 1] = <<cur, k + i - 1>>
      /\ S[n + 1].kind = "end" /\ S[n + 1].block = <<cur, 0>>
  <2>1. /\ S \in Seq(Frames) /\ Len(S) = Size[cur] - k + 2
        /\ \A i \in 1 .. Size[cur] - k + 1 :
             /\ S[i].kind \in {"data", "keep"} /\ S[i].block = <<cur, k + i - 1>>
             /\ S[i].kind = "keep" => target[cur][k + i - 1] = <<cur, k + i - 1>>
        /\ S[Size[cur] - k + 2] = Frame("end", cur, 0)
    BY StreamIs
  <2> HIDE DEF S
  <2>2. Frame("end", cur, 0).kind = "end" /\ Frame("end", cur, 0).block = <<cur, 0>>
    BY <1>0, FrameIs DEF Kinds
  <2> QED
    BY <2>1, <2>2, <1>n
<1> HIDE DEF H, S
<1>3. /\ a \in Seq(Frames) /\ Len(a) = n + 2 /\ a[1] = H[1]
      /\ \A i \in 1 .. n + 1 : a[i + 1] = S[i]
  <2>1. /\ a \in Seq(Frames) /\ Len(a) = Len(H) + Len(S)
        /\ \A i \in 1 .. Len(H) : a[i] = H[i]
        /\ \A i \in 1 .. Len(S) : a[Len(H) + i] = S[i]
    BY <1>1, <1>2, ConcatIs, Zenon
  <2> HIDE DEF a
  <2> QED
    BY <2>1, <1>0, <1>1, <1>2
<1> HIDE DEF a
<1>4. \A i \in 1 .. n + 2 :
        /\ i = 1 => a[i].kind = h /\ a[i].block = <<cur, 0>>
        /\ i \in 2 .. n + 1 =>
             /\ a[i].kind \in {"data", "keep"} /\ a[i].block = <<cur, k + i - 2>>
             /\ a[i].kind = "keep" => target[cur][k + i - 2] = <<cur, k + i - 2>>
        /\ i = n + 2 => a[i].kind = "end" /\ a[i].block = <<cur, 0>>
  <2> TAKE i \in 1 .. n + 2
  <2>1. CASE i = 1
    BY <2>1, <1>0, <1>1, <1>3
  <2>2. CASE i \in 2 .. n + 2
    <3>1. i - 1 \in 1 .. n + 1 /\ a[i] = S[i - 1]
      BY <2>2, <1>0, <1>3
    <3> QED
      BY <3>1, <2>2, <1>0, <1>2
  <2> QED
    BY <2>1, <2>2, <1>0
<1>5. \A i \in 1 .. Len(a) - 1 : Follows(a[i], a[i + 1])
  <2> TAKE i \in 1 .. Len(a) - 1
  <2>1. i \in 1 .. n + 1 /\ i + 1 \in 1 .. n + 2
    BY <1>0, <1>3
  <2>2. a[i].kind \in Headers \cup {"data", "keep"} /\ a[i].block[1] = cur
    BY <2>1, <1>0, <1>4
  <2>3. a[i + 1].block[1] = cur
    BY <2>1, <1>0, <1>4
  <2> QED
    BY <2>2, <2>3 DEF Follows
<1>6. \A i \in 1 .. Len(a) : IsRest(a[i], (IF del THEN 0 ELSE Len(part[cur])) + i - 1)
  <2> TAKE i \in 1 .. Len(a)
  <2>1. (IF del THEN 0 ELSE Len(part[cur])) + i - 1 = k + i - 2
    BY <1>0, <1>3 DEF TypeOK
  <2>2. IsRest(a[i], k + i - 2)
    BY <1>0, <1>3, <1>4 DEF IsRest, Headers
  <2> QED
    BY <2>1, <2>2
<1>7. a # <<>> /\ a[1].kind \notin Inside
  BY <1>0, <1>3, <1>4 DEF Headers, Inside
<1> QED
  BY <1>3, <1>5, <1>6, <1>7 DEF AnswerFits, a, H, S

LEMMA ErrorFits ==
  ASSUME TypeOK, NEW del \in BOOLEAN
  PROVE  /\ AnswerFits(Error, del)
         /\ Error \in Seq(Frames) /\ Len(Error) = 1 /\ Error[1].kind = "error"
<1>1. Frame("error", None, 0) \in Frames /\ Frame("error", None, 0).kind = "error"
  BY FrameIs DEF Kinds, None
<1>2. Error \in Seq(Frames) /\ Len(Error) = 1 /\ Error[1].kind = "error"
  BY <1>1 DEF Error
<1> QED
  BY <1>2 DEF AnswerFits, IsRest, Inside, Headers

LEMMA WholeAnswerFits ==
  ASSUME TypeOK, cur \in Paths, delta' \in BOOLEAN
  PROVE  AnswerFits(Answer, delta')
<1>0. Len(part[cur]) \in Nat /\ Size[cur] \in Nat
  BY SizesAreNat DEF TypeOK
<1>1. CASE delta'
  <2>1. 1 \in 1 .. Size[cur] + 1 /\ "delta" \in Headers
    BY <1>0 DEF Headers
  <2>2. AnswerFits(<<Frame("delta", cur, 0)>> \o Stream(cur, 1, TRUE), TRUE)
    BY <2>1, HeaderAndStream
  <2> QED
    BY <1>1, <2>2 DEF Answer
<1>2. CASE ~delta' /\ Len(part[cur]) > Size[cur]
  BY <1>2, ErrorFits DEF Answer
<1>3. CASE ~delta' /\ Len(part[cur]) <= Size[cur]
  <2>1. Len(part[cur]) + 1 \in 1 .. Size[cur] + 1 /\ "resp" \in Headers
    BY <1>0, <1>3 DEF Headers
  <2>2. AnswerFits(<<Frame("resp", cur, 0)>> \o Stream(cur, Len(part[cur]) + 1, FALSE), FALSE)
    BY <2>1, HeaderAndStream
  <2>3. delta' = FALSE /\ ~(Len(part[cur]) > Size[cur])
    BY <1>0, <1>3
  <2> QED
    BY <2>2, <2>3 DEF Answer
<1> QED
  BY <1>0, <1>1, <1>2, <1>3

\* A beginning of an answer.
LEMMA BeginningFits ==
  ASSUME TypeOK, NEW del \in BOOLEAN, NEW a, AnswerFits(a, del), NEW n \in 1 .. Len(a) - 1
  PROVE  AnswerFits(SubSeq(a, 1, n), del) /\ Len(SubSeq(a, 1, n)) = n
<1>0. a \in Seq(Frames) /\ Len(a) \in Nat
  BY DEF AnswerFits
<1>1. \A i \in 1 .. n : a[i] \in Frames
  BY <1>0, ElementOfSeq
<1>2. /\ SubSeq(a, 1, n) \in Seq(Frames) /\ Len(SubSeq(a, 1, n)) = n
      /\ \A i \in 1 .. n : SubSeq(a, 1, n)[i] = a[i]
  <2>1. n \in Int /\ 1 \in Int /\ 1 <= n
    BY <1>0
  <2> QED
    BY <2>1, <1>1, SubSeqProperties
<1> DEFINE b == SubSeq(a, 1, n)
<1> HIDE DEF b
<1>3. b \in Seq(Frames) /\ Len(b) = n /\ \A i \in 1 .. n : b[i] = a[i]
  BY <1>2 DEF b
<1>4. \A i \in 1 .. Len(b) - 1 : Follows(b[i], b[i + 1])
  <2> TAKE i \in 1 .. Len(b) - 1
  <2>1. i \in 1 .. n /\ i + 1 \in 1 .. n /\ i \in 1 .. Len(a) - 1
    BY <1>0, <1>3
  <2> QED
    BY <2>1, <1>3 DEF AnswerFits
<1>5. \A i \in 1 .. Len(b) : IsRest(b[i], (IF del THEN 0 ELSE Len(part[cur])) + i - 1)
  <2> TAKE i \in 1 .. Len(b)
  <2>1. i \in 1 .. n /\ i \in 1 .. Len(a)
    BY <1>0, <1>3
  <2> QED
    BY <2>1, <1>3 DEF AnswerFits
<1>6. b # <<>> /\ b[1].kind \notin Inside
  BY <1>0, <1>3 DEF AnswerFits
<1>7. AnswerFits(b, del) /\ Len(b) = n
  BY <1>3, <1>4, <1>5, <1>6 DEF AnswerFits
<1> QED
  BY <1>7 DEF b

\* A frame that is not of a stream, behind an answer.
LEMMA AppendedFits ==
  ASSUME TypeOK, NEW del \in BOOLEAN, NEW a, AnswerFits(a, del), NEW e \in Seq(Frames),
         Len(e) = 1, e[1].kind \in {"error", "eof"}
  PROVE  AnswerFits(a \o e, del)
<1>0. a \in Seq(Frames) /\ Len(a) \in Nat /\ Len(a) >= 1
  BY DEF AnswerFits
<1> DEFINE b == a \o e
<1>1. /\ b \in Seq(Frames) /\ Len(b) = Len(a) + Len(e)
      /\ \A i \in 1 .. Len(a) : b[i] = a[i]
      /\ \A i \in 1 .. Len(e) : b[Len(a) + i] = e[i]
  BY <1>0, ConcatIs, Zenon
<1> HIDE DEF b
<1>2. Len(b) = Len(a) + 1 /\ b[Len(a) + 1] = e[1]
  BY <1>0, <1>1
<1>3. \A i \in 1 .. Len(b) - 1 : Follows(b[i], b[i + 1])
  <2> TAKE i \in 1 .. Len(b) - 1
  <2>1. CASE i = Len(a)
    <3>1. b[i + 1].kind \notin Inside
      BY <2>1, <1>2 DEF Inside
    <3> QED
      BY <3>1 DEF Follows
  <2>2. CASE i # Len(a)
    <3>1. i \in 1 .. Len(a) /\ i + 1 \in 1 .. Len(a) /\ i \in 1 .. Len(a) - 1
      BY <2>2, <1>0, <1>2
    <3> QED
      BY <3>1, <1>1 DEF AnswerFits
  <2> QED
    BY <2>1, <2>2
<1>4. \A i \in 1 .. Len(b) : IsRest(b[i], (IF del THEN 0 ELSE Len(part[cur])) + i - 1)
  <2> TAKE i \in 1 .. Len(b)
  <2>1. CASE i = Len(a) + 1
    BY <2>1, <1>2 DEF IsRest, Headers
  <2>2. CASE i # Len(a) + 1
    <3>1. i \in 1 .. Len(a)
      BY <2>2, <1>0, <1>2
    <3> QED
      BY <3>1, <1>1 DEF AnswerFits
  <2> QED
    BY <2>1, <2>2
<1>5. b # <<>> /\ b[1].kind \notin Inside
  BY <1>0, <1>1, <1>2 DEF AnswerFits
<1>6. AnswerFits(b, del)
  BY <1>1, <1>3, <1>4, <1>5 DEF AnswerFits
<1> QED
  BY <1>6 DEF b

LEMMA BrokenAnswersFit ==
  ASSUME TypeOK, cur \in Paths, delta' \in BOOLEAN, NEW b \in BrokenAnswers
  PROVE  AnswerFits(b, delta')
<1>1. CASE b = Error
  BY <1>1, ErrorFits
<1>2. ASSUME NEW n \in 1 .. Len(Answer) - 1, NEW e \in {Error, <<>>},
             b = SubSeq(Answer, 1, n) \o e \o <<Frame("eof", None, 0)>>
      PROVE  AnswerFits(b, delta')
  <2>1. AnswerFits(SubSeq(Answer, 1, n), delta')
    BY WholeAnswerFits, BeginningFits
  <2>2. Frame("eof", None, 0) \in Frames /\ Frame("eof", None, 0).kind = "eof"
    BY FrameIs DEF Kinds, None
  <2> DEFINE E == <<Frame("eof", None, 0)>>
             A == SubSeq(Answer, 1, n)
  <2>3. E \in Seq(Frames) /\ Len(E) = 1 /\ E[1].kind = "eof"
    BY <2>2
  <2>4. b = (A \o e) \o E
    BY <1>2
  <2> HIDE DEF E, A
  <2>5. AnswerFits(A \o e, delta')
    <3>1. CASE e = Error
      BY <3>1, <2>1, ErrorFits, AppendedFits DEF A
    <3>2. CASE e = <<>>
      <4>1. A \in Seq(Frames) /\ AnswerFits(A, delta')
        BY <2>1 DEF A, AnswerFits
      <4>2. A \o <<>> = A
        BY <4>1, ConcatEmptySeq
      <4> QED
        BY <3>2, <4>1, <4>2
    <3> QED
      BY <3>1, <3>2
  <2> QED
    BY <2>3, <2>4, <2>5, AppendedFits
<1> QED
  BY <1>1, <1>2 DEF BrokenAnswers

-----------------------------------------------------------------------------
(* The invariant.                                                          *)

LEMMA InitIInv == Init => IInv
<1> SUFFICES ASSUME Init PROVE IInv
  OBVIOUS
<1>1. NoFile \in Seq(Blocks) /\ <<>> \in Seq(Frames) /\ Len(<<>>) = 0
  BY EmptySeq DEF NoFile
<1>2. target \in [Paths -> Seq(Blocks)]
  BY OldCopyIs DEF Init
<1>3. TypeOK
  <2>1. part \in [Paths -> Seq(Blocks)] /\ wire \in Seq(Frames)
    BY <1>1 DEF Init
  <2>2. meta \in [Paths -> Paths \cup {None}] /\ index \in [Paths -> Paths \cup {None}]
    BY DEF Init
  <2>3. taken \in [Paths -> SUBSET {"resp", "delta"}] /\ behind \in BOOLEAN
    BY DEF Init
  <2>4. tries \in 0 .. RetryCount - 1 /\ faults \in 0 .. MaxFaults
    BY RetryPositive, MaxFaultsNat DEF Init
  <2> QED
    BY <1>2, <2>1, <2>2, <2>3, <2>4 DEF Init, TypeOK
<1>4. Coherent /\ HeadersNameFiles
  BY <1>1 DEF Init, Coherent, HeadersNameFiles
<1>5. \A p \in Paths : index[p] # p /\ part[p] = <<>>
  BY PathsArePositive DEF Init, None, NoFile
<1>6. TasksDiffer /\ WorkerHasTask /\ ReadsOn /\ BehindTakes /\ MetaOfAttempt
  BY <1>5 DEF Init, TasksDiffer, WorkerHasTask, ReadsOn, BehindTakes, MetaOfAttempt, Answering, Unchanged
<1>7. MetaTells /\ OwnParts /\ OwnDelta /\ Aligned
  BY <1>1, <1>5 DEF Init, MetaTells, OwnParts, Own, OwnDelta, Aligned, Answering
<1>8. UnchangedIsStored
  BY <1>5 DEF UnchangedIsStored, Unchanged
<1> QED
  BY <1>3, <1>4, <1>6, <1>7, <1>8 DEF IInv

\* A worker that is not idle has a file.
LEMMA HasFile ==
  ASSUME TypeOK, pc # "idle"
  PROVE  cur \in Paths /\ part[cur] \in Seq(Blocks) /\ target[cur] \in Seq(Blocks)
  BY DEF TypeOK

\* What is left of the stream stays coherent.
Shrinks == wire' = wire \/ (wire # <<>> /\ wire' = Tail(wire)) \/ wire' = <<>>

LEMMA TailOfWire ==
  ASSUME TypeOK, wire # <<>>
  PROVE  /\ Head(wire) = wire[1] /\ wire[1] \in Frames /\ 1 \in 1 .. Len(wire)
         /\ Tail(wire) \in Seq(Frames) /\ Len(Tail(wire)) = Len(wire) - 1 /\ Len(wire) \in Nat
         /\ \A i \in 1 .. Len(wire) - 1 : Tail(wire)[i] = wire[i + 1]
<1>1. wire \in Seq(Frames)
  BY DEF TypeOK
<1>2. Len(wire) \in Nat \ {0}
  BY <1>1, EmptySeq
<1>3. 1 \in 1 .. Len(wire)
  BY <1>2
<1>4. Head(wire) = wire[1]
  BY <1>1
<1>5. wire[1] \in Frames
  BY <1>1, <1>3, ElementOfSeq
<1> QED
  BY <1>1, <1>2, <1>3, <1>4, <1>5, HeadTailProperties

LEMMA ShrunkWire ==
  ASSUME TypeOK, Coherent, HeadersNameFiles, Shrinks
  PROVE  wire' \in Seq(Frames) /\ Coherent' /\ HeadersNameFiles'
<1>1. CASE wire' = wire
  BY <1>1 DEF TypeOK, Coherent, HeadersNameFiles
<1>2. CASE wire' = <<>>
  <2>1. <<>> \in Seq(Frames) /\ Len(<<>>) = 0
    BY EmptySeq
  <2> QED
    BY <1>2, <2>1 DEF Coherent, HeadersNameFiles
<1>3. CASE wire # <<>> /\ wire' = Tail(wire)
  <2>1. /\ wire' \in Seq(Frames) /\ Len(wire') = Len(wire) - 1 /\ Len(wire) \in Nat
        /\ \A i \in 1 .. Len(wire) - 1 : wire'[i] = wire[i + 1]
    BY <1>3, TailOfWire
  <2>2. Coherent'
    <3> SUFFICES ASSUME NEW i \in 1 .. Len(wire') - 1 PROVE Follows(wire'[i], wire'[i + 1])
      BY DEF Coherent
    <3>1. i \in 1 .. Len(wire) - 1 /\ i + 1 \in 1 .. Len(wire) - 1
      BY <2>1
    <3> QED
      BY <3>1, <2>1 DEF Coherent
  <2>3. HeadersNameFiles'
    <3> SUFFICES ASSUME NEW i \in 1 .. Len(wire')
                 PROVE  wire'[i].kind \in Headers => wire'[i].block[1] \in Paths
      BY DEF HeadersNameFiles
    <3>1. i \in 1 .. Len(wire) - 1 /\ i + 1 \in 1 .. Len(wire)
      BY <2>1
    <3> QED
      BY <3>1, <2>1 DEF HeadersNameFiles
  <2> QED
    BY <2>1, <2>2, <2>3
<1> QED
  BY <1>1, <1>2, <1>3 DEF Shrinks

\* An attempt that fails, whatever it does to its .part, to its connection
\* and, when only the row cannot be written, to the stored copy.
FailsAnyhow ==
  /\ pc \in {"ready", "sent", "open", "stream", "verify"} /\ Fails
  /\ Shrinks /\ conn' \in BOOLEAN /\ (~conn' => wire' = <<>>)
  /\ \/ UNCHANGED disk
     \/ Discard /\ UNCHANGED <<target, index>>
     \/ Replace /\ UNCHANGED index
  /\ faults' \in 0 .. MaxFaults /\ UNCHANGED history

LEMMA FailingKeeps == IInv /\ FailsAnyhow => IInv'
<1> SUFFICES ASSUME IInv, FailsAnyhow PROVE IInv'
  OBVIOUS
<1>0. /\ TypeOK /\ cur \in Paths /\ cur \in tasks /\ pc # "idle" /\ index[cur] # cur
      /\ part[cur] \in Seq(Blocks) /\ target[cur] \in Seq(Blocks)
  <2>1. TypeOK /\ pc # "idle"
    BY DEF IInv, FailsAnyhow
  <2> QED
    BY <2>1, HasFile DEF IInv, WorkerHasTask, TasksDiffer, Unchanged, TypeOK
<1>1. wire' \in Seq(Frames) /\ Coherent' /\ HeadersNameFiles'
  BY ShrunkWire DEF IInv, FailsAnyhow
<1>2. /\ pc' \in {"ready", "idle"} /\ resp' = None /\ delta' = FALSE /\ tries' \in 0 .. RetryCount - 1
      /\ cur' \in Paths \cup {None} /\ (cur' = None <=> pc' = "idle")
      /\ tasks' \subseteq tasks /\ (cur' # None => cur' \in tasks')
  <2>1. None \notin Paths
    BY PathsArePositive DEF None
  <2>2. CASE tries + 1 < RetryCount
    BY <2>1, <2>2, <1>0, RetryPositive DEF FailsAnyhow, Fails, TypeOK
  <2>3. CASE ~(tries + 1 < RetryCount)
    BY <2>1, <2>3, <1>0, RetryPositive DEF FailsAnyhow, Fails, TypeOK
  <2> QED
    BY <2>2, <2>3
<1>3. /\ UNCHANGED <<index, behind, taken>>
      /\ part' = part \/ part' = [part EXCEPT ![cur] = NoFile]
      /\ (meta' = meta /\ part' = part) \/ meta' = [meta EXCEPT ![cur] = None]
      /\ target' = target \/ target' = [target EXCEPT ![cur] = part[cur]]
  BY DEF FailsAnyhow, disk, history, Discard, Replace
<1>4. NoFile \in Seq(Blocks) /\ Len(NoFile) = 0
  BY EmptySeq DEF NoFile
<1>5. /\ part' \in [Paths -> Seq(Blocks)] /\ target' \in [Paths -> Seq(Blocks)]
      /\ meta' \in [Paths -> Paths \cup {None}]
  <2>1. part' \in [Paths -> Seq(Blocks)]
    BY <1>0, <1>3, <1>4 DEF TypeOK
  <2>2. target' \in [Paths -> Seq(Blocks)]
    BY <1>0, <1>3 DEF TypeOK
  <2>3. meta' \in [Paths -> Paths \cup {None}]
    BY <1>0, <1>3 DEF TypeOK
  <2> QED
    BY <2>1, <2>2, <2>3
<1>6. TypeOK'
  BY <1>0, <1>1, <1>2, <1>3, <1>5 DEF FailsAnyhow, TypeOK
<1>7. TasksDiffer' /\ WorkerHasTask'
  BY <1>2, <1>3 DEF IInv, TasksDiffer, WorkerHasTask, Unchanged
<1>8. ReadsOn' /\ BehindTakes' /\ MetaOfAttempt' /\ OwnDelta' /\ Aligned'
  BY <1>2 DEF ReadsOn, BehindTakes, MetaOfAttempt, OwnDelta, Aligned, Answering
<1>9. MetaTells'
  <2> SUFFICES ASSUME NEW p \in Paths, "delta" \notin taken[p], meta'[p] # None,
                      NEW k \in 1 .. Len(part'[p])
               PROVE  part'[p][k][1] = meta'[p]
    BY <1>3 DEF MetaTells
  <2>1. meta'[p] = meta[p] /\ part'[p] = part[p]
    <3>1. CASE p = cur
      BY <3>1, <1>0, <1>3 DEF TypeOK
    <3>2. CASE p # cur
      BY <3>2, <1>0, <1>3 DEF TypeOK
    <3> QED
      BY <3>1, <3>2
  <2> QED
    BY <2>1 DEF IInv, MetaTells
<1>10. OwnParts'
  <2> SUFFICES ASSUME NEW p \in Paths, taken[p] = {} PROVE Own(p, part'[p])
    BY <1>3 DEF OwnParts
  <2>1. part'[p] = part[p] \/ part'[p] = NoFile
    BY <1>0, <1>3 DEF TypeOK
  <2> QED
    BY <2>1, <1>4 DEF IInv, OwnParts, Own
<1>11. UnchangedIsStored'
  <2> SUFFICES ASSUME NEW p \in Paths, index[p] = p PROVE target'[p] = target[p]
    BY <1>3 DEF IInv, UnchangedIsStored, Unchanged
  <2> QED
    BY <1>0, <1>3 DEF TypeOK
<1> QED
  BY <1>1, <1>6, <1>7, <1>8, <1>9, <1>10, <1>11 DEF IInv

\* The request goes out, and its answer, whole or broken, is in the stream.
LEMMA AskKeeps ==
  ASSUME IInv, NEW answers, Ask(answers), delta' \in BOOLEAN => \A a \in answers : AnswerFits(a, delta'),
         faults' \in 0 .. MaxFaults
  PROVE  IInv'
<1>0. /\ TypeOK /\ cur \in Paths /\ pc = "ready"
      /\ part[cur] \in Seq(Blocks) /\ target[cur] \in Seq(Blocks)
  <2>1. TypeOK /\ pc # "idle" /\ pc = "ready"
    BY DEF IInv, Ask
  <2> QED
    BY <2>1, HasFile
<1>1. /\ delta' \in BOOLEAN /\ pc' = "sent" /\ conn /\ behind' = (wire # <<>>)
      /\ UNCHANGED <<tasks, cur, tries, resp, conn, part, meta, target, index, taken>>
  BY DEF Ask, disk
<1>2. PICK a \in answers :
        wire' = IF \E i \in 1 .. Len(wire) : wire[i].kind = "eof" THEN wire ELSE wire \o a
  BY DEF Ask
<1>3. AnswerFits(a, delta')
  BY <1>1
<1>4. wire \in Seq(Frames) /\ a \in Seq(Frames) /\ Len(wire) \in Nat /\ Len(a) \in Nat
  BY <1>0, <1>3 DEF TypeOK, AnswerFits
<1>5. wire' \in Seq(Frames) /\ Coherent' /\ HeadersNameFiles'
  <2>1. CASE wire' = wire
    BY <2>1, <1>1, <1>4 DEF IInv, Coherent, HeadersNameFiles
  <2>2. CASE wire' = wire \o a
    <3>1. /\ wire' \in Seq(Frames) /\ Len(wire') = Len(wire) + Len(a)
          /\ \A i \in 1 .. Len(wire) : wire'[i] = wire[i]
          /\ \A i \in 1 .. Len(a) : wire'[Len(wire) + i] = a[i]
      BY <2>2, <1>4, ConcatIs, Zenon
    <3>2. Coherent'
      <4> SUFFICES ASSUME NEW i \in 1 .. Len(wire') - 1 PROVE Follows(wire'[i], wire'[i + 1])
        BY DEF Coherent
      <4>1. CASE i + 1 <= Len(wire)
        <5>1. i \in 1 .. Len(wire) /\ i + 1 \in 1 .. Len(wire) /\ i \in 1 .. Len(wire) - 1
          BY <4>1, <3>1, <1>4
        <5> QED
          BY <5>1, <3>1 DEF IInv, Coherent
      <4>2. CASE i = Len(wire)
        <5>1. 1 \in 1 .. Len(a) /\ wire'[i + 1] = a[1]
          BY <4>2, <3>1, <1>4
        <5> QED
          BY <5>1, <1>3 DEF AnswerFits, Follows
      <4>3. CASE i > Len(wire)
        <5>1. PICK j \in 1 .. Len(a) - 1 : i = Len(wire) + j
          <6>1. i - Len(wire) \in 1 .. Len(a) - 1 /\ i = Len(wire) + (i - Len(wire))
            BY <4>3, <3>1, <1>4
          <6> QED
            BY <6>1
        <5>2. wire'[i] = a[j] /\ wire'[i + 1] = a[j + 1]
          <6>1. j \in 1 .. Len(a) /\ j + 1 \in 1 .. Len(a) /\ i + 1 = Len(wire) + (j + 1)
            BY <5>1, <1>4
          <6> QED
            BY <6>1, <5>1, <3>1
        <5> QED
          BY <5>1, <5>2, <1>3 DEF AnswerFits
      <4> QED
        BY <4>1, <4>2, <4>3, <1>4
    <3>3. HeadersNameFiles'
      <4> SUFFICES ASSUME NEW i \in 1 .. Len(wire')
                   PROVE  wire'[i].kind \in Headers => wire'[i].block[1] \in Paths
        BY DEF HeadersNameFiles
      <4>1. CASE i <= Len(wire)
        <5>1. i \in 1 .. Len(wire)
          BY <4>1, <1>4
        <5> QED
          BY <5>1, <3>1 DEF IInv, HeadersNameFiles
      <4>2. CASE i > Len(wire)
        <5>1. i - Len(wire) \in 1 .. Len(a) /\ i = Len(wire) + (i - Len(wire))
          BY <4>2, <3>1, <1>4
        <5>2. wire'[i] = a[i - Len(wire)]
          BY <5>1, <3>1
        <5> QED
          BY <5>1, <5>2, <1>0, <1>3 DEF AnswerFits, IsRest
      <4> QED
        BY <4>1, <4>2, <1>4
    <3> QED
      BY <3>1, <3>2, <3>3
  <2> QED
    BY <2>1, <2>2, <1>2
<1>6. TypeOK'
  BY <1>0, <1>1, <1>5 DEF TypeOK
<1>7. Aligned'
  <2>1. ASSUME ~behind', NEW i \in 1 .. Len(wire') PROVE IsRest(wire[i], At(i))'
    <3>1. wire = <<>>
      BY <2>1, <1>1
    <3>2. Len(wire) = 0 /\ <<>> \o a = a
      BY <3>1, <1>4, ConcatEmptySeq
    <3>3. wire' = a
      BY <3>1, <3>2, <1>2
    <3>4. IsRest(wire'[i], (IF delta' THEN 0 ELSE Len(part[cur])) + i - 1)
      BY <3>3, <2>1, <1>3 DEF AnswerFits
    <3>5. At(i)' = (IF delta' THEN 0 ELSE Len(part[cur])) + i - 1
      BY <1>0, <1>1 DEF At, Base
    <3> QED
      BY <3>4, <3>5, <1>1 DEF IsRest
  <2> QED
    BY <2>1, <1>1 DEF Aligned, Answering
<1>8. /\ TasksDiffer' /\ WorkerHasTask' /\ ReadsOn' /\ BehindTakes' /\ MetaOfAttempt' /\ OwnDelta'
      /\ MetaTells' /\ OwnParts' /\ UnchangedIsStored'
  BY <1>1 DEF IInv, TasksDiffer, WorkerHasTask, ReadsOn, BehindTakes, MetaOfAttempt, OwnDelta,
              MetaTells, OwnParts, UnchangedIsStored, Unchanged, Answering
<1> QED
  BY <1>5, <1>6, <1>7, <1>8 DEF IInv

LEMMA FailingSteps ==
  ASSUME IInv,
         \/ Refused \/ Unexpected \/ StartsOver \/ TooLong \/ Refuses \/ Disturbed \/ WrongSize
         \/ LocalError \/ IndexError \/ Break
  PROVE  FailsAnyhow
<1>0. conn \in BOOLEAN /\ faults \in 0 .. MaxFaults /\ (~conn => wire = <<>>)
  BY DEF IInv, TypeOK
<1>f. Fault => faults' \in 0 .. MaxFaults
  BY <1>0, MaxFaultsNat DEF Fault
<1> USE <1>0 DEF FailsAnyhow, Shrinks, Keep, Drop, Reads, disk, history
<1>1. CASE Refused
  BY <1>1 DEF Refused
<1>2. CASE Unexpected
  BY <1>2 DEF Unexpected
<1>3. CASE StartsOver
  BY <1>3 DEF StartsOver
<1>4. CASE TooLong
  BY <1>4 DEF TooLong
<1>5. CASE Refuses
  BY <1>5 DEF Refuses
<1>6. CASE Disturbed
  BY <1>6 DEF Disturbed
<1>7. CASE WrongSize
  BY <1>7 DEF WrongSize
<1>8. CASE LocalError
  BY <1>8, <1>f DEF LocalError
<1>9. CASE IndexError
  BY <1>9, <1>f DEF IndexError, Replace
<1>10. CASE Break
  BY <1>10, <1>f DEF Break
<1> QED
  BY <1>1, <1>2, <1>3, <1>4, <1>5, <1>6, <1>7, <1>8, <1>9, <1>10

\* Steps of the worker between attempts.
LEMMA BetweenKeeps ==
  ASSUME IInv, (\E p \in Paths : Take(p)) \/ Dial \/ NextQueue
  PROVE  IInv'
<1>1. CASE \E p \in Paths : Take(p)
  <2>1. PICK p \in Paths : Take(p)
    BY <1>1
  <2>2. /\ cur' = p /\ p \in tasks /\ tries' = 0 /\ pc = "idle" /\ pc' = "ready"
        /\ UNCHANGED <<tasks, delta, resp, conn, wire, part, meta, target, index, faults, behind, taken>>
    BY <2>1 DEF Take, disk, history
  <2>3. TypeOK'
    BY <2>2, PathsArePositive, RetryPositive DEF IInv, TypeOK, None
  <2> QED
    BY <2>2, <2>3
       DEF IInv, TasksDiffer, WorkerHasTask, Coherent, HeadersNameFiles, ReadsOn, BehindTakes, MetaOfAttempt,
           MetaTells, OwnParts, OwnDelta, Aligned, UnchangedIsStored, Unchanged, Answering
<1>2. CASE Dial
  <2>1. /\ pc = "ready" /\ pc' = "ready" /\ conn' = TRUE
        /\ UNCHANGED <<tasks, cur, tries, pc, delta, resp, wire, part, meta, target, index, faults, behind, taken>>
    BY <1>2 DEF Dial, attempt, disk, history
  <2>2. TypeOK'
    BY <2>1 DEF IInv, TypeOK
  <2> QED
    BY <2>1, <2>2
       DEF IInv, TasksDiffer, WorkerHasTask, Coherent, HeadersNameFiles, ReadsOn, BehindTakes, MetaOfAttempt,
           MetaTells, OwnParts, OwnDelta, Aligned, UnchangedIsStored, Unchanged, Answering
<1>3. CASE NextQueue
  <2>1. /\ pc = "idle" /\ pc' = "idle" /\ conn' = FALSE /\ wire' = <<>>
        /\ tasks' = {p \in Paths : ~Unchanged(p)}
        /\ UNCHANGED <<cur, tries, pc, delta, resp, part, meta, target, index, faults, behind, taken>>
    BY <1>3 DEF NextQueue, Drop, attempt, disk, history
  <2>2. wire' \in Seq(Frames) /\ Coherent' /\ HeadersNameFiles'
    BY <2>1, ShrunkWire DEF IInv, Shrinks
  <2>3. TypeOK'
    BY <2>1, <2>2 DEF IInv, TypeOK
  <2>4. TasksDiffer' /\ WorkerHasTask'
    BY <2>1 DEF IInv, TypeOK, TasksDiffer, WorkerHasTask, Unchanged
  <2> QED
    BY <2>1, <2>2, <2>3, <2>4
       DEF IInv, ReadsOn, BehindTakes, MetaOfAttempt,
           MetaTells, OwnParts, OwnDelta, Aligned, UnchangedIsStored, Unchanged, Answering
<1> QED
  BY <1>1, <1>2, <1>3

\* The attempt takes the frame before it for the answer to its request.
LEMMA AnswerKeeps ==
  ASSUME IInv, Answered \/ AnsweredDelta
  PROVE  IInv'
<1>0. /\ TypeOK /\ cur \in Paths /\ pc = "sent" /\ conn /\ wire # <<>>
      /\ part[cur] \in Seq(Blocks) /\ target[cur] \in Seq(Blocks) /\ None \notin Paths
  <2>1. TypeOK /\ pc # "idle" /\ pc = "sent" /\ conn /\ wire # <<>>
    BY DEF IInv, Answered, AnsweredDelta, Reads
  <2> QED
    BY <2>1, HasFile, PathsArePositive DEF None
<1>1. /\ Got = wire[1].kind /\ From = wire[1].block /\ 1 \in 1 .. Len(wire) /\ Len(wire) \in Nat
      /\ Len(wire') = Len(wire) - 1 /\ \A i \in 1 .. Len(wire) - 1 : wire'[i] = wire[i + 1]
  <2>1. wire' = Tail(wire)
    BY DEF Answered, AnsweredDelta, Keep
  <2> QED
    BY <2>1, <1>0, TailOfWire DEF Got, From
<1>2. /\ Got = (IF delta THEN "delta" ELSE "resp") /\ resp' = From[1] /\ pc' = "open"
      /\ meta' = [meta EXCEPT ![cur] = IF delta THEN None ELSE From[1]]
      /\ taken' = [taken EXCEPT ![cur] = IF behind THEN @ \cup {Got} ELSE @]
      /\ ~delta => ~Changed(From[1])
      /\ UNCHANGED <<conn, tasks, cur, tries, delta, part, target, index, faults, behind>>
  BY DEF Answered, AnsweredDelta, Takes, Keep
<1>3. wire' \in Seq(Frames) /\ Coherent' /\ HeadersNameFiles'
  <2>1. Shrinks
    BY <1>0 DEF Shrinks, Answered, AnsweredDelta, Keep
  <2> QED
    BY <2>1, ShrunkWire DEF IInv
<1>4. From[1] \in Paths
  BY <1>1, <1>2 DEF IInv, HeadersNameFiles, Headers
<1>5. TypeOK'
  <2>1. meta' \in [Paths -> Paths \cup {None}]
    BY <1>0, <1>2, <1>4 DEF TypeOK
  <2>2. taken' \in [Paths -> SUBSET {"resp", "delta"}]
    BY <1>0, <1>2 DEF TypeOK
  <2>3. resp' # None
    BY <1>0, <1>2, <1>4
  <2> QED
    BY <1>0, <1>2, <1>3, <1>4, <2>1, <2>2, <2>3 DEF TypeOK
<1>6. TasksDiffer' /\ WorkerHasTask'
  BY <1>2 DEF IInv, TasksDiffer, WorkerHasTask, Unchanged
<1>7. ReadsOn'
  <2> SUFFICES ASSUME wire' # <<>>, wire'[1].kind \in Inside PROVE wire'[1].block[1] = From[1]
    BY <1>2 DEF ReadsOn
  <2>1. Len(wire') # 0
    BY <1>3, EmptySeq
  <2>2. 1 \in 1 .. Len(wire) - 1
    BY <1>1, <2>1
  <2> QED
    BY <2>2, <1>1 DEF IInv, Coherent, Follows
<1>8. BehindTakes' /\ MetaOfAttempt' /\ OwnDelta'
  BY <1>0, <1>2 DEF BehindTakes, MetaOfAttempt, OwnDelta, TypeOK
<1>9. MetaTells'
  <2> SUFFICES ASSUME NEW p \in Paths, "delta" \notin taken'[p], meta'[p] # None,
                      NEW k \in 1 .. Len(part[p])
               PROVE  part[p][k][1] = meta'[p]
    BY <1>2 DEF MetaTells
  <2>1. "delta" \notin taken[p]
    BY <1>0, <1>2 DEF TypeOK
  <2>2. CASE p # cur
    BY <2>1, <2>2, <1>0, <1>2 DEF IInv, MetaTells, TypeOK
  <2>3. CASE p = cur
    <3>1. ~delta /\ meta'[p] = From[1]
      BY <2>3, <1>0, <1>2 DEF TypeOK
    <3>2. part[cur] # NoFile
      BY <2>3, EmptySeq DEF NoFile
    <3>3. meta[cur] = From[1]
      BY <3>1, <3>2, <1>2 DEF Changed
    <3> QED
      BY <2>1, <2>3, <3>1, <3>3 DEF IInv, MetaTells
  <2> QED
    BY <2>2, <2>3
<1>10. OwnParts' /\ UnchangedIsStored'
  <2>1. \A p \in Paths : taken'[p] = {} => taken[p] = {}
    BY <1>0, <1>2 DEF TypeOK
  <2>2. \A p \in Paths : "delta" \notin taken'[p] => "delta" \notin taken[p]
    BY <1>0, <1>2 DEF TypeOK
  <2> QED
    BY <2>1, <2>2, <1>2 DEF IInv, OwnParts, UnchangedIsStored, Unchanged
<1>11. Aligned'
  <2>1. ASSUME ~behind, NEW i \in 1 .. Len(wire') PROVE IsRest(wire[i], At(i))'
    <3>1. i + 1 \in 1 .. Len(wire) /\ i \in 1 .. Len(wire) - 1 /\ wire'[i] = wire[i + 1]
      BY <2>1, <1>1
    <3>2. IsRest(wire[i + 1], At(i + 1))
      BY <2>1, <3>1, <1>0 DEF IInv, Aligned
    <3>3. At(i)' = At(i + 1)
      <4>1. Base' = Base /\ Base \in Nat
        BY <1>0, <1>2 DEF Base
      <4> QED
        BY <4>1, <3>1, <1>0, <1>2 DEF At
    <3> QED
      BY <3>1, <3>2, <3>3, <1>2 DEF IsRest
  <2>2. ~behind => From[1] = cur
    <3> SUFFICES ASSUME ~behind PROVE From[1] = cur
      OBVIOUS
    <3>1. IsRest(wire[1], At(1))
      BY <1>0, <1>1 DEF IInv, Aligned
    <3> QED
      BY <3>1, <1>1, <1>2 DEF IsRest, Headers
  <2> QED
    BY <2>1, <2>2, <1>2 DEF Aligned, Answering
<1> QED
  BY <1>3, <1>5, <1>6, <1>7, <1>8, <1>9, <1>10, <1>11 DEF IInv

\* A .part that is opened anew is empty, and the attempt's first block is due.
LEMMA OpenKeeps ==
  ASSUME IInv, Open
  PROVE  IInv'
<1>0. /\ TypeOK /\ cur \in Paths /\ pc = "open"
      /\ part[cur] \in Seq(Blocks) /\ target[cur] \in Seq(Blocks)
  <2>1. TypeOK /\ pc # "idle" /\ pc = "open"
    BY DEF IInv, Open
  <2> QED
    BY <2>1, HasFile
<1>1. /\ pc' = "stream" /\ part' = (IF delta THEN [part EXCEPT ![cur] = NoFile] ELSE part)
      /\ UNCHANGED <<tasks, cur, tries, delta, resp, conn, wire, meta, target, index, faults, behind, taken>>
  BY <1>0 DEF Open, history
<1>2. NoFile \in Seq(Blocks) /\ Len(NoFile) = 0
  BY EmptySeq DEF NoFile
<1>3. part' \in [Paths -> Seq(Blocks)]
  BY <1>0, <1>1, <1>2 DEF TypeOK
<1>4. \A p \in Paths : part'[p] = part[p] \/ (p = cur /\ delta /\ part'[p] = NoFile)
  BY <1>0, <1>1 DEF TypeOK
<1>5. TypeOK'
  BY <1>0, <1>1, <1>3 DEF TypeOK
<1>6. /\ TasksDiffer' /\ WorkerHasTask' /\ Coherent' /\ HeadersNameFiles' /\ ReadsOn'
      /\ BehindTakes' /\ MetaOfAttempt' /\ UnchangedIsStored'
  BY <1>0, <1>1 DEF IInv, TasksDiffer, WorkerHasTask, Coherent, HeadersNameFiles, ReadsOn,
     BehindTakes, MetaOfAttempt, UnchangedIsStored, Unchanged, Answering
<1>7. MetaTells' /\ OwnParts'
  BY <1>1, <1>2, <1>4 DEF IInv, MetaTells, OwnParts, Own
<1>8. delta => part'[cur] = NoFile
  BY <1>0, <1>1 DEF TypeOK
<1>9. OwnDelta'
  BY <1>1, <1>2, <1>8 DEF OwnDelta, Own
<1>10. Aligned'
  <2>1. Base' = Base
    BY <1>0, <1>1, <1>2, <1>8 DEF Base
  <2>2. ASSUME ~behind, NEW i \in 1 .. Len(wire) PROVE IsRest(wire[i], At(i))'
    <3>1. IsRest(wire[i], At(i))
      BY <2>2, <1>0 DEF IInv, Aligned
    <3>2. At(i)' = At(i)
      BY <2>1, <1>0, <1>1 DEF At
    <3> QED
      BY <3>1, <3>2, <1>1 DEF IsRest
  <2> QED
    BY <2>2, <1>0, <1>1 DEF IInv, Aligned, Answering
<1> QED
  BY <1>5, <1>6, <1>7, <1>9, <1>10 DEF IInv

\* A block is appended: of the attempt's own answer the one that is due, of
\* another plain answer one of the file that answer is about.
LEMMA BlockKeeps ==
  ASSUME IInv, Block
  PROVE  IInv'
<1>0. /\ TypeOK /\ cur \in Paths /\ pc = "stream" /\ conn /\ wire # <<>>
      /\ part[cur] \in Seq(Blocks) /\ target[cur] \in Seq(Blocks) /\ Len(part[cur]) \in Nat
  <2>1. TypeOK /\ pc # "idle" /\ pc = "stream" /\ conn /\ wire # <<>>
    BY DEF IInv, Block, Reads
  <2> QED
    BY <2>1, HasFile, LenProperties
<1>1. /\ Got = wire[1].kind /\ From = wire[1].block /\ 1 \in 1 .. Len(wire) /\ Len(wire) \in Nat
      /\ wire[1] \in Frames
      /\ Len(wire') = Len(wire) - 1 /\ \A i \in 1 .. Len(wire) - 1 : wire'[i] = wire[i + 1]
  <2>1. wire' = Tail(wire)
    BY DEF Block, Keep
  <2> QED
    BY <2>1, <1>0, TailOfWire DEF Got, From
<1>2. UNCHANGED <<conn, tasks, cur, tries, pc, delta, resp, meta, target, index, faults, behind, taken>>
  BY DEF Block, Keep, attempt, history
<1>3. PICK b \in Blocks :
        /\ part' = [part EXCEPT ![cur] = Append(@, b)]
        /\ \/ Got = "data" /\ b = From
           \/ Got = "keep" /\ delta /\ b = target[cur][Len(part[cur]) + 1]
  <2>1. CASE Got = "data" /\ part' = [part EXCEPT ![cur] = Append(@, From)]
    <3>1. From \in Blocks
      BY <1>1 DEF Frames
    <3> QED
      BY <2>1, <3>1
  <2>2. CASE /\ Got = "keep" /\ delta /\ Position <= Len(target[cur])
             /\ part' = [part EXCEPT ![cur] = Append(@, target[cur][Position])]
    <3>1. Position \in 1 .. Len(target[cur])
      BY <2>2, <1>0 DEF Position
    <3>2. target[cur][Position] \in Blocks
      BY <3>1, <1>0, ElementOfSeq
    <3> QED
      BY <2>2, <3>2 DEF Position
  <2> QED
    BY <2>1, <2>2 DEF Block
<1>4. /\ part'[cur] = Append(part[cur], b) /\ part' \in [Paths -> Seq(Blocks)]
      /\ \A p \in Paths : p # cur => part'[p] = part[p]
      /\ Len(part'[cur]) = Len(part[cur]) + 1 /\ part'[cur][Len(part[cur]) + 1] = b
      /\ \A k \in 1 .. Len(part[cur]) : part'[cur][k] = part[cur][k]
  <2>1. Append(part[cur], b) \in Seq(Blocks)
    BY <1>0, AppendIs
  <2>2. part'[cur] = Append(part[cur], b) /\ \A p \in Paths : p # cur => part'[p] = part[p]
    BY <1>0, <1>3 DEF TypeOK
  <2>3. part' \in [Paths -> Seq(Blocks)]
    BY <2>1, <1>0, <1>3 DEF TypeOK
  <2> QED
    BY <2>2, <2>3, <1>0, AppendIs
<1>5. wire' \in Seq(Frames) /\ Coherent' /\ HeadersNameFiles'
  <2>1. Shrinks
    BY <1>0 DEF Shrinks, Block, Keep
  <2> QED
    BY <2>1, ShrunkWire DEF IInv
<1>6. TypeOK'
  BY <1>0, <1>2, <1>4, <1>5 DEF TypeOK
<1>7. TasksDiffer' /\ WorkerHasTask' /\ BehindTakes' /\ MetaOfAttempt' /\ UnchangedIsStored'
  BY <1>2 DEF IInv, TasksDiffer, WorkerHasTask, BehindTakes, MetaOfAttempt, UnchangedIsStored,
     Unchanged, Answering
<1>8. ReadsOn'
  <2> SUFFICES ASSUME wire' # <<>>, wire'[1].kind \in Inside PROVE wire'[1].block[1] = resp
    BY <1>2 DEF ReadsOn
  <2>1. Len(wire') # 0
    BY <1>5, EmptySeq
  <2>2. 1 \in 1 .. Len(wire) - 1
    BY <1>1, <2>1
  <2>3. wire'[1].block[1] = wire[1].block[1]
    BY <2>2, <1>1 DEF IInv, Coherent, Follows
  <2> QED
    BY <2>3, <1>0, <1>1, <1>3 DEF IInv, ReadsOn, Inside
<1>9. ~behind => b = <<cur, Len(part[cur]) + 1>>
  <2>1. ~behind => IsRest(wire[1], At(1))
    BY <1>0, <1>1 DEF IInv, Aligned
  <2>2. At(1) = Len(part[cur]) + 1
    BY <1>0 DEF At, Base
  <2> QED
    BY <2>1, <2>2, <1>1, <1>3 DEF IsRest
<1>10. ~behind /\ Own(cur, part[cur]) => Own(cur, part'[cur])
  <2> SUFFICES ASSUME ~behind, Own(cur, part[cur]), NEW k \in 1 .. Len(part'[cur])
               PROVE  part'[cur][k] = <<cur, k>>
    BY DEF Own
  <2>1. k \in 1 .. Len(part[cur]) \/ k = Len(part[cur]) + 1
    BY <1>0, <1>4
  <2> QED
    BY <2>1, <1>4, <1>9 DEF Own
<1>11. OwnDelta'
  BY <1>0, <1>2, <1>10 DEF IInv, OwnDelta
<1>12. OwnParts'
  <2> SUFFICES ASSUME NEW p \in Paths, taken[p] = {} PROVE Own(p, part'[p])
    BY <1>2 DEF OwnParts
  <2>1. p = cur => ~behind
    BY <1>0 DEF IInv, BehindTakes, Answering
  <2> QED
    BY <2>1, <1>4, <1>10 DEF IInv, OwnParts
<1>13. MetaTells'
  <2> SUFFICES ASSUME NEW p \in Paths, "delta" \notin taken[p], meta[p] # None,
                      NEW k \in 1 .. Len(part'[p])
               PROVE  part'[p][k][1] = meta[p]
    BY <1>2 DEF MetaTells
  <2>1. CASE p # cur
    BY <2>1, <1>4 DEF IInv, MetaTells
  <2>2. CASE p = cur
    <3>1. ~delta /\ meta[p] = resp
      BY <2>2, <1>0 DEF IInv, MetaOfAttempt, Answering
    <3>2. b[1] = resp
      BY <3>1, <1>0, <1>1, <1>3 DEF IInv, ReadsOn, Inside
    <3>3. k \in 1 .. Len(part[cur]) \/ k = Len(part[cur]) + 1
      BY <2>2, <1>0, <1>4
    <3> QED
      BY <2>2, <3>1, <3>2, <3>3, <1>4 DEF IInv, MetaTells
  <2> QED
    BY <2>1, <2>2
<1>14. Aligned'
  <2>1. ASSUME ~behind, NEW i \in 1 .. Len(wire') PROVE IsRest(wire[i], At(i))'
    <3>1. i + 1 \in 1 .. Len(wire) /\ i \in 1 .. Len(wire) - 1 /\ wire'[i] = wire[i + 1]
      BY <2>1, <1>1
    <3>2. IsRest(wire[i + 1], At(i + 1))
      BY <2>1, <3>1, <1>0 DEF IInv, Aligned
    <3>3. At(i)' = At(i + 1)
      <4>1. pc' = "stream" /\ cur' = cur /\ i \in Nat
        BY <3>1, <1>0, <1>1, <1>2
      <4>2. Base = Len(part[cur]) /\ Base' = Len(part[cur]) + 1
        BY <4>1, <1>0, <1>4 DEF Base
      <4>3. At(i)' = (Len(part[cur]) + 1) + i - 0
        BY <4>1, <4>2, <1>0 DEF At
      <4>4. At(i + 1) = Len(part[cur]) + (i + 1) - 0
        BY <4>1, <4>2, <1>0 DEF At
      <4>5. \A x, j \in Nat : (x + 1) + j - 0 = x + (j + 1) - 0
        OBVIOUS
      <4>6. Len(part[cur]) \in Nat /\ i \in Nat
        BY <4>1, <1>0
      <4> QED
        BY <4>3, <4>4, <4>5, <4>6, Zenon
    <3> QED
      BY <3>1, <3>2, <3>3, <1>2 DEF IsRest
  <2> QED
    BY <2>1, <1>0, <1>2 DEF IInv, Aligned, Answering
<1> QED
  BY <1>5, <1>6, <1>7, <1>8, <1>11, <1>12, <1>13, <1>14 DEF IInv

LEMMA EndKeeps ==
  ASSUME IInv, End
  PROVE  IInv'
<1>1. /\ pc = "stream" /\ pc' = "verify" /\ wire # <<>> /\ wire' = Tail(wire)
      /\ UNCHANGED <<tasks, cur, tries, delta, resp, conn, part, meta, target, index, faults, behind, taken>>
  BY DEF End, Reads, Keep, disk, history
<1>2. wire' \in Seq(Frames) /\ Coherent' /\ HeadersNameFiles'
  BY <1>1, ShrunkWire DEF IInv, Shrinks
<1>3. TypeOK'
  BY <1>1, <1>2 DEF IInv, TypeOK
<1> QED
  BY <1>1, <1>2, <1>3
     DEF IInv, TasksDiffer, WorkerHasTask, ReadsOn, BehindTakes, MetaOfAttempt,
         MetaTells, OwnParts, OwnDelta, Aligned, UnchangedIsStored, Unchanged, Answering

\* The file and its row are replaced.
LEMMA CompleteKeeps ==
  ASSUME IInv, Complete
  PROVE  IInv'
<1>0. /\ TypeOK /\ cur \in Paths /\ pc = "verify" /\ None \notin Paths
      /\ part[cur] \in Seq(Blocks) /\ resp \in Paths
  <2>1. TypeOK /\ pc # "idle" /\ pc = "verify"
    BY DEF IInv, Complete, Replace
  <2> QED
    BY <2>1, HasFile, PathsArePositive DEF None, TypeOK
<1>1. /\ Len(part[cur]) = Size[resp] /\ target' = [target EXCEPT ![cur] = part[cur]]
      /\ part' = [part EXCEPT ![cur] = NoFile] /\ meta' = [meta EXCEPT ![cur] = None]
      /\ index' = [index EXCEPT ![cur] = resp] /\ tasks' = tasks \ {cur}
      /\ cur' = None /\ tries' = 0 /\ pc' = "idle" /\ delta' = FALSE /\ resp' = None
      /\ UNCHANGED <<conn, wire, faults, behind, taken>>
  BY DEF Complete, Replace, Discard, history
<1>2. NoFile \in Seq(Blocks) /\ Len(NoFile) = 0
  BY EmptySeq DEF NoFile
<1>3. TypeOK'
  <2>1. target' \in [Paths -> Seq(Blocks)] /\ part' \in [Paths -> Seq(Blocks)]
    BY <1>0, <1>1, <1>2 DEF TypeOK
  <2>2. meta' \in [Paths -> Paths \cup {None}] /\ index' \in [Paths -> Paths \cup {None}]
    BY <1>0, <1>1 DEF TypeOK
  <2>3. tries' \in 0 .. RetryCount - 1
    BY <1>1, RetryPositive
  <2>4. tasks' \subseteq Paths /\ pc' = "idle" /\ cur' = None /\ resp' = None /\ delta' \in BOOLEAN
    BY <1>0, <1>1 DEF TypeOK
  <2>5. /\ conn' \in BOOLEAN /\ (~conn' => wire' = <<>>) /\ wire' \in Seq(Frames)
        /\ faults' \in 0 .. MaxFaults /\ behind' \in BOOLEAN
        /\ taken' \in [Paths -> SUBSET {"resp", "delta"}]
    BY <1>0, <1>1 DEF TypeOK
  <2> QED
    BY <2>1, <2>2, <2>3, <2>4, <2>5 DEF TypeOK
<1>4. Coherent' /\ HeadersNameFiles'
  BY <1>1 DEF IInv, Coherent, HeadersNameFiles
<1>5. TasksDiffer' /\ WorkerHasTask'
  BY <1>0, <1>1 DEF IInv, TasksDiffer, WorkerHasTask, Unchanged, TypeOK
<1>6. ReadsOn' /\ BehindTakes' /\ MetaOfAttempt' /\ OwnDelta' /\ Aligned'
  BY <1>1 DEF ReadsOn, BehindTakes, MetaOfAttempt, OwnDelta, Aligned, Answering
<1>7. \A p \in Paths : IF p = cur THEN part'[p] = NoFile /\ meta'[p] = None
                                  ELSE part'[p] = part[p] /\ meta'[p] = meta[p]
  BY <1>0, <1>1 DEF TypeOK
<1>8. MetaTells' /\ OwnParts'
  BY <1>1, <1>2, <1>7 DEF IInv, MetaTells, OwnParts, Own
<1>9. UnchangedIsStored'
  <2> SUFFICES ASSUME NEW p \in Paths, index'[p] = p
               PROVE  /\ Len(target'[p]) = Size[p]
                      /\ "delta" \notin taken[p] => \A k \in 1 .. Size[p] : target'[p][k][1] = p
                      /\ taken[p] = {} => target'[p] = File(p)
    BY <1>1 DEF UnchangedIsStored, Unchanged
  <2>1. CASE p # cur
    <3>1. index[p] = p /\ target'[p] = target[p]
      BY <2>1, <1>0, <1>1 DEF TypeOK
    <3> QED
      BY <3>1 DEF IInv, UnchangedIsStored, Unchanged
  <2>2. CASE p = cur
    <3>1. target'[p] = part[p] /\ resp = p /\ Len(part[p]) = Size[p]
      BY <2>2, <1>0, <1>1 DEF TypeOK
    <3>2. ASSUME "delta" \notin taken[p], NEW k \in 1 .. Size[p] PROVE part[p][k][1] = p
      <4>1. CASE delta
        <5>1. ~behind
          BY <4>1, <3>2, <2>2, <1>0 DEF IInv, BehindTakes, Answering
        <5>2. Own(p, part[p])
          BY <5>1, <4>1, <2>2, <1>0 DEF IInv, OwnDelta
        <5> QED
          BY <5>2, <3>1, <3>2 DEF Own
      <4>2. CASE ~delta
        <5>1. meta[p] = p
          BY <4>2, <3>1, <2>2, <1>0 DEF IInv, MetaOfAttempt, Answering
        <5> QED
          BY <5>1, <3>1, <3>2, <1>0 DEF IInv, MetaTells
      <4> QED
        BY <4>1, <4>2
    <3>3. ASSUME taken[p] = {} PROVE part[p] = File(p)
      <4>1. \A k \in 1 .. Len(part[p]) : part[p][k] = File(p)[k]
        BY <3>1, <3>3, FileIs DEF IInv, OwnParts, Own
      <4> QED
        BY <4>1, <3>1, <2>2, <1>0, FileIs, SeqEqual
    <3> QED
      BY <3>1, <3>2, <3>3
  <2> QED
    BY <2>1, <2>2
<1> QED
  BY <1>3, <1>4, <1>5, <1>6, <1>8, <1>9 DEF IInv

LEMMA NextIInv == IInv /\ [Next]_vars => IInv'
<1> SUFFICES ASSUME IInv, [Next]_vars PROVE IInv'
  OBVIOUS
<1>1. CASE Request \/ RequestBroken
  <2>1. TypeOK /\ cur \in Paths
    <3>1. TypeOK /\ pc # "idle"
      BY <1>1 DEF IInv, Request, RequestBroken, Ask
    <3> QED
      BY <3>1, HasFile
  <2>2. faults' \in 0 .. MaxFaults
    BY <1>1, <2>1, MaxFaultsNat DEF Request, RequestBroken, Fault, TypeOK
  <2>3. CASE Request
    BY <2>1, <2>2, <2>3, WholeAnswerFits, AskKeeps DEF Request
  <2>4. CASE RequestBroken
    BY <2>1, <2>2, <2>4, BrokenAnswersFit, AskKeeps DEF RequestBroken
  <2> QED
    BY <1>1, <2>3, <2>4
<1>2. CASE Refused \/ Unexpected \/ StartsOver \/ TooLong \/ Refuses \/ Disturbed \/ WrongSize
           \/ LocalError \/ IndexError \/ Break
  BY <1>2, FailingSteps, FailingKeeps
<1>3. CASE (\E p \in Paths : Take(p)) \/ Dial \/ NextQueue
  BY <1>3, BetweenKeeps
<1>4. CASE Answered \/ AnsweredDelta
  BY <1>4, AnswerKeeps
<1>5. CASE Open \/ Block \/ End \/ Complete
  BY <1>5, OpenKeeps, BlockKeeps, EndKeeps, CompleteKeeps
<1>6. CASE UNCHANGED vars
  BY <1>6 DEF vars, attempt, disk, history, IInv, TypeOK, TasksDiffer, WorkerHasTask, Coherent,
     HeadersNameFiles, ReadsOn, BehindTakes, MetaOfAttempt, MetaTells, OwnParts, OwnDelta,
     Aligned, IsRest, At, Base, UnchangedIsStored, Unchanged, Answering
<1> QED
  BY <1>1, <1>2, <1>3, <1>4, <1>5, <1>6 DEF Next, Worker

LEMMA Invariance == Spec => []IInv
  BY InitIInv, NextIInv, PTL DEF Spec

(* Whatever is left in a connection, every variable keeps its type, an     *)
(* attempt has the announced size exactly when it has an answer, and the   *)
(* attempts of a task are counted up to RETRY_COUNT (processTask).         *)
THEOREM SessionTypes == Spec => []TypeOK
<1>1. IInv => TypeOK
  BY DEF IInv
<1> QED
  BY <1>1, Invariance, PTL

(* What the next comparison takes for unchanged is stored with its size;   *)
(* with its own blocks if no delta transfer of it has taken the answer to  *)
(* an earlier request; and with its own content if no attempt has          *)
(* (downloadOne, deltaDownload, processTask).                              *)
THEOREM UnchangedIsOwn == Spec => []UnchangedIsStored
<1>1. IInv => UnchangedIsStored
  BY DEF IInv
<1> QED
  BY <1>1, Invariance, PTL

=============================================================================
