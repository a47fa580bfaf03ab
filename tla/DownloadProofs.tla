--------------------------- MODULE DownloadProofs ---------------------------
(***************************************************************************)
(* Proofs about the download of one file: what the diff takes for          *)
(* unchanged is stored, a .part is a beginning of the version its .meta    *)
(* names, and no break costs a block, for any contents, changes, faults.   *)
(***************************************************************************)
EXTENDS Download, SequenceTheorems, TLAPS

\* The blocks of s are the first ones of the client's newest version.
Begins(s) == \A k \in 1 .. Len(s) : k <= Size(cv) /\ s[k] = Content[cv][k]

\* No version was written down that is newer than the client's.
NothingNewer ==
  /\ resp <= cv /\ meta <= cv /\ index <= cv /\ src <= cv
  /\ src = cv => ~present
  /\ src # None => resp <= src

\* Where an attempt is, and what it knows.
AttemptFits ==
  /\ pc \notin {"idle", "ask"} => resp # None /\ index <= resp
  /\ pc \in {"meta", "stream", "verify"} => meta <= resp
  /\ pc \in {"idle", "ask"} => src = None
  /\ pc = "meta" => part = NoFile \/ Same(meta, resp)

\* What is there is the newest version, wherever it is said to be.
IsNewest ==
  /\ meta = cv => Begins(part)
  /\ resp = cv /\ pc \in {"meta", "stream", "verify"} => Begins(part)
  /\ resp = cv /\ pc \in {"upsert", "done"} => target = Content[cv]
  /\ index = cv => target = Content[cv]

IInv ==
  /\ TypeOK
  /\ NothingNewer
  /\ AttemptFits
  /\ IsNewest

-----------------------------------------------------------------------------

\* Versions that compare equal are the same.
LEMMA SameIsOne ==
  ASSUME NEW v \in Versions \cup {None}, NEW w \in Versions, Same(v, w)
  PROVE  v = w
BY VersionsDiffer DEF Same

LEMMA VersionFacts ==
  ASSUME NEW v \in Versions
  PROVE  /\ v \in Nat \ {0}
         /\ Content[v] \in Seq(Blocks) /\ Size(v) \in Nat \ {0}
         /\ \A k \in 1 .. Size(v) : Content[v][k] \in Blocks
<1>1. Content[v] \in Seq(Blocks) /\ Content[v] # <<>>
  BY ContentNotEmpty
<1>2. Len(Content[v]) \in Nat \ {0}
  BY <1>1, EmptySeq, LenProperties
<1> QED
  BY <1>1, <1>2, ElementOfSeq, VersionsArePositive DEF Size

LEMMA WholeIsContent ==
  ASSUME TypeOK, Begins(part), Len(part) = Size(cv)
  PROVE  part = Content[cv]
<1>1. cv \in Versions
  BY DEF TypeOK
<1>2. part \in Seq(Blocks) /\ Content[cv] \in Seq(Blocks)
  BY <1>1, VersionFacts DEF TypeOK
<1> QED
  BY <1>2, SeqEqual DEF Begins, Size

LEMMA InitInv == Init => IInv
<1> SUFFICES ASSUME Init PROVE IInv
  OBVIOUS
<1>1. cv \in Versions /\ cv \in Nat \ {0} /\ <<>> \in Seq(Blocks)
  BY VersionFacts, EmptySeq DEF Init
<1>2. TypeOK
  <2>1. part \in Seq(Blocks) /\ target \in Seq(Blocks)
    BY <1>1 DEF Init, NoFile
  <2>2. faults \in 0 .. MaxFaults
    BY MaxFaultsNat DEF Init
  <2> QED BY <1>1, <2>1, <2>2 DEF Init, TypeOK, PC
<1>3. NothingNewer /\ AttemptFits
  BY <1>1 DEF Init, NothingNewer, AttemptFits, None
<1>4. IsNewest
  BY <1>1 DEF Init, IsNewest, None
<1> QED
  BY <1>2, <1>3, <1>4 DEF IInv

\* The client's files: a newer version makes all that was written down old.
LEMMA UserKeeps ==
  ASSUME IInv, Modify \/ Delete
  PROVE  IInv'
<1> USE DEF IInv
<1>1. cv \in Versions /\ cv \in Nat
  BY VersionFacts DEF TypeOK
<1>2. CASE Modify
  <2>1. PICK v \in Versions : v > cv /\ cv' = v /\ present' = TRUE
          /\ src' \in {src, cv} /\ UNCHANGED <<pc, delta, resp, task, server, faults>>
          /\ (src' # src => pc \in {"meta", "stream"})
    BY <1>2 DEF Modify
  <2>2. v \in Nat \ {0}
    BY VersionFacts
  <2>3. /\ resp \in Nat /\ meta \in Nat /\ index \in Nat /\ src \in Nat
        /\ resp < v /\ meta < v /\ index < v /\ src < v
    BY <1>1, <2>1, <2>2, VersionFacts DEF TypeOK, NothingNewer, None
  <2>4. TypeOK'
    BY <1>1, <2>1 DEF TypeOK, server
  <2>5. NothingNewer'
    BY <1>1, <2>1, <2>2, <2>3 DEF NothingNewer, server, None
  <2>6. AttemptFits'
    BY <2>1 DEF AttemptFits, server
  <2>7. IsNewest'
    BY <2>1, <2>2, <2>3 DEF IsNewest, server
  <2> QED BY <2>4, <2>5, <2>6, <2>7
<1>3. CASE Delete
  <2>1. /\ present' = FALSE /\ src' \in {src, cv}
        /\ src' # src => pc \in {"meta", "stream"}
        /\ UNCHANGED <<cv, pc, delta, resp, task, server, faults>>
    BY <1>3 DEF Delete
  <2>2. TypeOK'
    BY <1>1, <2>1 DEF TypeOK, server
  <2>3. NothingNewer'
    BY <1>1, <2>1 DEF NothingNewer, server
  <2>4. AttemptFits'
    BY <2>1 DEF AttemptFits, server
  <2>5. IsNewest'
    BY <2>1 DEF IsNewest, Begins, server
  <2> QED BY <2>2, <2>3, <2>4, <2>5
<1> QED
  BY <1>2, <1>3

\* An attempt that ends, with .part and .meta left, or .meta or both gone.
LEMMA EndsKeep ==
  ASSUME IInv, Over, UNCHANGED <<cv, present, target, index>>,
         task' \in BOOLEAN, faults' \in 0 .. MaxFaults,
         \/ part' = part /\ meta' \in {meta, None}
         \/ part' = NoFile /\ meta' = None
  PROVE  IInv'
<1> USE DEF IInv
<1>1. cv \in Versions /\ cv \in Nat \ {0} /\ <<>> \in Seq(Blocks)
  BY VersionFacts, EmptySeq DEF TypeOK
<1>2. TypeOK'
  BY <1>1 DEF TypeOK, Over, NoFile, PC
<1>3. NothingNewer'
  BY <1>1 DEF NothingNewer, Over, None
<1>4. AttemptFits'
  BY DEF AttemptFits, Over
<1>5. IsNewest'
  BY <1>1 DEF IsNewest, Begins, Over, None
<1> QED
  BY <1>2, <1>3, <1>4, <1>5

\* The steps of an attempt that goes on.
LEMMA GoesOn ==
  ASSUME IInv,
         \/ Enqueue \/ MoveToTrash \/ Ask \/ Answer \/ WriteMeta \/ AnswerDelta
         \/ FileEnd \/ Upsert \/ UNCHANGED vars
  PROVE  IInv'
<1> USE DEF IInv
<1>1. cv \in Versions /\ cv \in Nat \ {0} /\ <<>> \in Seq(Blocks) /\ Len(<<>>) = 0
  BY VersionFacts, EmptySeq DEF TypeOK
<1>2. resp \in Nat /\ meta \in Nat /\ index \in Nat /\ src \in Nat
  BY VersionFacts DEF TypeOK, None
<1>3. CASE Enqueue
  BY <1>3 DEF Enqueue, TypeOK, NothingNewer, AttemptFits, IsNewest, Begins, client, server
<1>4. CASE MoveToTrash
  BY <1>1, <1>2, <1>4
     DEF MoveToTrash, TypeOK, NothingNewer, AttemptFits, IsNewest, Begins, client, None, NoFile
<1>5. CASE Ask
  BY <1>5 DEF Ask, TypeOK, NothingNewer, AttemptFits, IsNewest, Begins, client, server, PC
<1>6. CASE Answer
  <2>1. part = NoFile \/ Same(meta, cv)
    BY <1>6 DEF Answer, ChangedSince
  <2>2. Begins(part)
    <3>1. CASE part = NoFile
      BY <1>1, <3>1 DEF Begins, NoFile
    <3>2. CASE Same(meta, cv)
      BY <3>2, SameIsOne DEF IsNewest, TypeOK
    <3> QED BY <2>1, <3>1, <3>2
  <2>3. TypeOK'
    BY <1>1, <1>6 DEF Answer, TypeOK, client, server, PC
  <2>4. NothingNewer'
    BY <1>1, <1>6 DEF Answer, NothingNewer, AttemptFits, client, server
  <2>5. AttemptFits'
    BY <1>1, <1>6, <2>1 DEF Answer, AttemptFits, NothingNewer, client, server, None
  <2>6. IsNewest'
    BY <1>6, <2>2 DEF Answer, IsNewest, Begins, client, server
  <2> QED BY <2>3, <2>4, <2>5, <2>6
<1>7. CASE WriteMeta
  BY <1>1, <1>2, <1>7
     DEF WriteMeta, TypeOK, NothingNewer, AttemptFits, IsNewest, Begins, client, PC
<1>8. CASE AnswerDelta
  <2>1. TypeOK'
    BY <1>1, <1>8 DEF AnswerDelta, TypeOK, client, PC, NoFile
  <2>2. NothingNewer' /\ AttemptFits'
    BY <1>1, <1>8 DEF AnswerDelta, NothingNewer, AttemptFits, client, None
  <2>3. IsNewest'
    BY <1>1, <1>8 DEF AnswerDelta, IsNewest, Begins, client, None, NoFile
  <2> QED BY <2>1, <2>2, <2>3
<1>9. CASE FileEnd
  BY <1>9 DEF FileEnd, TypeOK, NothingNewer, AttemptFits, IsNewest, Begins, client, server, PC
<1>10. CASE Upsert
  BY <1>2, <1>10
     DEF Upsert, TypeOK, NothingNewer, AttemptFits, IsNewest, Begins, client, PC
<1>11. CASE UNCHANGED vars
  BY <1>11
     DEF vars, TypeOK, NothingNewer, AttemptFits, IsNewest, Begins, client, server
<1> QED
  BY <1>3, <1>4, <1>5, <1>6, <1>7, <1>8, <1>9, <1>10, <1>11

\* The block that is added is one of the newest version, if that is what the
\* answer announced.
LEMMA BlockKeeps ==
  ASSUME IInv, Block
  PROVE  IInv'
<1> USE DEF IInv
<1> DEFINE k == Len(part) + 1
           b == Opened[k]
<1>1. cv \in Versions /\ cv \in Nat \ {0} /\ resp \in Nat /\ src \in Nat
  BY VersionFacts DEF TypeOK, None
<1>2. pc = "stream" /\ k \in 1 .. Len(Opened) /\ part' = Append(part, b)
      /\ UNCHANGED <<client, pc, delta, resp, task, meta, target, index, faults>>
  BY VersionFacts, LenProperties DEF Block, AtEOF, Opened, TypeOK, None, Size
<1>3. part \in Seq(Blocks) /\ b \in Blocks
  BY <1>1, <1>2, VersionFacts DEF TypeOK, Opened, None, Size
<1>4. /\ part' \in Seq(Blocks) /\ Len(part') = k /\ part'[k] = b
      /\ \A i \in 1 .. Len(part) : part'[i] = part[i]
  BY <1>2, <1>3, AppendProperties
<1>5. ASSUME Begins(part), resp = cv PROVE Begins(part)'
  <2>1. src = None \/ src = cv
    BY <1>1, <1>5 DEF NothingNewer
  <2>2. Opened = Content[cv]
    BY <2>1 DEF Opened
  <2>3. Len(part) \in Nat
    BY <1>3, LenProperties
  <2>4. SUFFICES ASSUME NEW i \in 1 .. k
                 PROVE  i <= Size(cv) /\ part'[i] = Content[cv][i]
    BY <1>2, <1>4 DEF Begins, client
  <2>5. CASE i = k
    BY <1>2, <1>4, <2>2, <2>5 DEF Size
  <2>6. CASE i # k
    BY <1>4, <1>5, <2>3, <2>6 DEF Begins
  <2> QED BY <2>5, <2>6
<1>6. TypeOK'
  BY <1>2, <1>4 DEF TypeOK, client
<1>7. NothingNewer' /\ AttemptFits'
  BY <1>2 DEF NothingNewer, AttemptFits, client
<1>8. IsNewest'
  <2>1. meta = cv => resp = cv
    BY <1>1, <1>2 DEF NothingNewer, AttemptFits
  <2> QED
    BY <1>2, <1>5, <2>1 DEF IsNewest, client
<1> QED
  BY <1>6, <1>7, <1>8

\* What replaces the stored copy is whole, if it is the newest version.
LEMMA RenameKeeps ==
  ASSUME IInv, Rename
  PROVE  IInv'
<1> USE DEF IInv
<1>1. cv \in Versions /\ cv \in Nat \ {0} /\ resp \in Nat /\ index \in Nat
      /\ <<>> \in Seq(Blocks)
  BY VersionFacts, EmptySeq DEF TypeOK, None
<1>2. /\ pc = "verify" /\ pc' = "upsert" /\ Len(part) = Size(resp)
      /\ target' = part /\ part' = NoFile /\ meta' = None
      /\ UNCHANGED <<client, delta, resp, task, index, faults>>
  BY DEF Rename
<1>3. resp = cv => part = Content[cv]
  BY <1>2, WholeIsContent DEF IsNewest
<1>4. index = cv => resp = cv
  BY <1>1, <1>2 DEF AttemptFits, NothingNewer
<1>5. TypeOK'
  BY <1>1, <1>2 DEF TypeOK, PC, NoFile, client
<1>6. NothingNewer' /\ AttemptFits'
  BY <1>1, <1>2 DEF NothingNewer, AttemptFits, client, None
<1>7. IsNewest'
  BY <1>1, <1>2, <1>3, <1>4 DEF IsNewest, client, None
<1> QED
  BY <1>5, <1>6, <1>7

LEMMA StepKeeps ==
  ASSUME IInv, [Next]_vars
  PROVE  IInv'
<1>1. faults \in 0 .. MaxFaults /\ MaxFaults \in Nat /\ task \in BOOLEAN
  BY MaxFaultsNat DEF IInv, TypeOK
<1>2. CASE Modify \/ Delete
  BY <1>2, UserKeeps
<1>3. CASE Enqueue \/ MoveToTrash \/ Ask \/ Answer \/ WriteMeta \/ AnswerDelta
           \/ FileEnd \/ Upsert \/ UNCHANGED vars
  BY <1>3, GoesOn
<1>4. CASE Block
  BY <1>4, BlockKeeps
<1>5. CASE Rename
  BY <1>5, RenameKeeps
<1>6. CASE NotFound \/ BadOffset \/ DeltaReadError \/ MarkDone \/ Break
  <2>1. /\ Over /\ task' \in BOOLEAN
        /\ UNCHANGED <<cv, present, part, meta, target, index>>
    BY <1>6 DEF NotFound, BadOffset, DeltaReadError, MarkDone, Break, Retry, server
  <2>2. faults' = faults \/ (faults < MaxFaults /\ faults' = faults + 1)
    BY <1>6 DEF NotFound, BadOffset, DeltaReadError, MarkDone, Break
  <2>3. faults' \in 0 .. MaxFaults
    BY <1>1, <2>2
  <2> QED BY <2>1, <2>3, EndsKeep
<1>7. CASE Changed \/ SizeMismatch
  BY <1>1, <1>7, EndsKeep DEF Changed, SizeMismatch, Retry
<1>8. CASE Crash
  BY <1>1, <1>8, EndsKeep DEF Crash
<1>9. CASE WriteMetaFails
  <2>1. meta' \in {meta, None} /\ faults' \in 0 .. MaxFaults
    BY <1>1, <1>9 DEF WriteMetaFails
  <2>2. resp \in Nat /\ cv \in Nat \ {0}
    BY VersionFacts DEF IInv, TypeOK, None
  <2> QED
    BY <1>9, <2>1, <2>2
       DEF WriteMetaFails, IInv, TypeOK, NothingNewer, AttemptFits, IsNewest, Begins,
           client, PC, None
<1> QED
  BY <1>2, <1>3, <1>4, <1>5, <1>6, <1>7, <1>8, <1>9 DEF Next, Attempt

THEOREM Invariance == Spec => []IInv
<1>1. Init => IInv
  BY InitInv
<1>2. IInv /\ [Next]_vars => IInv'
  BY StepKeeps
<1> QED
  BY <1>1, <1>2, PTL DEF Spec

(* Every variable keeps its type; .part and the stored copy are always     *)
(* made of blocks of the client's versions (downloadOne, deltaDownload).   *)
THEOREM DownloadTypes == Spec => []TypeOK
<1>1. IInv => TypeOK
  BY DEF IInv
<1> QED
  BY <1>1, Invariance, PTL

(* A file that the diff takes for unchanged is stored as it is, over any    *)
(* number of rewrites, resumptions, delta transfers and faults (diff.go).   *)
THEOREM UnchangedStored == Spec => []UnchangedIsStored
<1>1. IInv => UnchangedIsStored
  BY SameIsOne DEF IInv, TypeOK, IsNewest, UnchangedIsStored
<1> QED
  BY <1>1, Invariance, PTL

(* A .part whose .meta agrees with the client's file is a beginning of it, *)
(* so that the next resumption continues it rightly (transfer.go:401-412). *)
THEOREM PartMatches == Spec => []PartMatchesMeta
<1>1. IInv => PartMatchesMeta
  BY SameIsOne DEF IInv, TypeOK, IsNewest, PartMatchesMeta, Begins
<1> QED
  BY <1>1, Invariance, PTL

(* A broken connection or a crash makes no .part shorter.                  *)
THEOREM NoBlockLost == Spec => ProgressKept
<1> DEFINE Kept == Len(part') < Len(part) =>
                     \/ pc = "verify"
                     \/ pc = "ask" /\ present /\ (delta \/ ~Same(meta, cv))
<1>1. IInv /\ [Next]_vars => [Kept]_vars
  <2> SUFFICES ASSUME IInv, Next PROVE Kept
    OBVIOUS
  <2>1. Len(part) \in Nat
    BY LenProperties DEF IInv, TypeOK
  <2>2. CASE Block
    <3>1. part \in Seq(Blocks) /\ part' \in Seq(Blocks)
      BY <2>2, BlockKeeps DEF IInv, TypeOK
    <3>2. Len(part') = Len(part) + 1
      BY <2>2, <3>1 DEF Block
    <3> QED BY <2>1, <3>2
  <2>3. CASE AnswerDelta \/ Changed \/ SizeMismatch \/ Rename
    BY <2>3 DEF AnswerDelta, Changed, ChangedSince, SizeMismatch, Rename
  <2>4. CASE part' = part
    BY <2>1, <2>4
  <2> QED
    BY <2>2, <2>3, <2>4
       DEF Next, Attempt, Modify, Delete, Enqueue, MoveToTrash, Ask, NotFound, BadOffset,
           Answer, WriteMeta, WriteMetaFails, FileEnd, DeltaReadError, Upsert, MarkDone,
           Break, Crash, server
<1> QED
  BY <1>1, Invariance, PTL DEF Spec, ProgressKept

=============================================================================
