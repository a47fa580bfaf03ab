----------------------------- MODULE TrashProofs -----------------------------
(***************************************************************************)
(* Proofs about the trash: its rows find their files, little is left       *)
(* without a row by what fails and nothing else, and nothing is lost       *)
(* before it is due, for any number of contents, versions, days and        *)
(* faults.                                                                 *)
(***************************************************************************)
EXTENDS Trash, NaturalLemmas

\* What the place of moveOne says of the places of the files.
PlacesFit ==
  /\ pc \in {"toVersion", "bump"} => NextSeq <= MaxVersion
  /\ pc \in {"toVersion", "bump", "toCanon", "copy", "unlink"} => storage \in Gens
  /\ pc \in {"bump", "toCanon"} => canon = None
  /\ pc \in {"toCanon", "copy", "unlink", "unindex", "insert"} => ~HasCanonical
  /\ pc \in {"unlink", "unindex", "insert"} => canon \in Gens
  /\ pc = "unlink" => canon = storage
  /\ pc = "copy" => canon = Partial

DueExpired ==
  /\ \A r \in due : Expired(r)
  /\ \A r, s \in due : r = s

\* Between ToVersion and Bump.
Bumping(r) == pc = "bump" /\ r.ver = 0

\* Without a fault, rows and files are the same thing.
ExactUnlessFault ==
  faults = 0 =>
    /\ ~torn
    /\ \A r \in rows :
         IF pc = "delete" /\ r \in due THEN PlaceOf(r) = None
         ELSE \/ PlaceOf(r) = r.file
              \/ Bumping(r) /\ vers[NextSeq] = r.file
    /\ canon # None =>
         HasCanonical \/ pc \in {"copy", "unlink", "unindex", "insert"}
    /\ \A s \in Seqs : vers[s] # None =>
         \/ \E r \in rows : r.ver = s
         \/ pc = "bump" /\ s = NextSeq /\ HasCanonical

IInv ==
  /\ TypeOK
  /\ PlacesFit
  /\ DueExpired
  /\ RowsFindTheirFiles
  /\ ExactUnlessFault

-----------------------------------------------------------------------------

\* The number of the next version is above that of every row.
LEMMA NextSeqIs ==
  ASSUME TypeOK
  PROVE  /\ NextSeq \in 1 .. MaxVersion + 1
         /\ \A r \in rows : r.ver < NextSeq
<1> DEFINE Above(s) == \A r \in rows : r.ver < s
           T == {s \in 1 .. MaxVersion + 1 : Above(s)}
<1>1. MaxVersion \in Nat /\ \A r \in rows : r.ver \in 0 .. MaxVersion
  BY Bounds DEF TypeOK, RowSet
<1>2. MaxVersion + 1 \in T
  BY <1>1
<1>3. T \subseteq Nat
  BY <1>1
<1> HIDE DEF T
<1>4. PICK m \in T : \A n \in T : ~(n < m)
  BY <1>2, <1>3, LeastMember
<1>5. m \in 1 .. MaxVersion + 1 /\ Above(m)
  BY <1>4 DEF T
<1>6. m = 1 \/ \E r \in rows : r.ver = m - 1
  <2>1. SUFFICES ASSUME m # 1, \A r \in rows : r.ver # m - 1 PROVE FALSE
    OBVIOUS
  <2>2. m - 1 \in 1 .. MaxVersion + 1 /\ Above(m - 1)
    BY <1>1, <1>5, <2>1
  <2>3. m - 1 \in T
    BY <2>2 DEF T
  <2> QED BY <1>1, <1>4, <1>5, <2>3
<1> QED
  BY <1>5, <1>6 DEF NextSeq

LEMMA NextSeqKept ==
  ASSUME rows' = rows
  PROVE  NextSeq' = NextSeq
BY DEF NextSeq

-----------------------------------------------------------------------------

LEMMA InitInv == Init => IInv
<1> SUFFICES ASSUME Init PROVE IInv
  OBVIOUS
<1> USE Bounds DEF Init, None, Gens, Seqs
<1>1. TypeOK
  <2>1. 1 \in 1 .. MaxGen
    OBVIOUS
  <2>2. vers \in [Seqs -> 0 .. Partial] /\ canon \in 0 .. Partial
    BY DEF Partial
  <2>3. rows \subseteq RowSet /\ \A r, s \in rows : r.ver = s.ver => r = s
    OBVIOUS
  <2>4. gen \in 1 .. MaxGen /\ present \in BOOLEAN /\ torn \in BOOLEAN
    BY <2>1
  <2>6. day \in 0 .. MaxDay /\ faults \in 0 .. MaxFaults /\ at \in 0 .. MaxDay
    OBVIOUS
  <2>5. pc \in PC /\ due \subseteq rows /\ due = {} /\ pc \notin {"remove", "delete"}
    BY DEF PC
  <2> QED BY <2>2, <2>3, <2>4, <2>5, <2>6 DEF TypeOK
<1>2. PlacesFit /\ DueExpired /\ RowsFindTheirFiles
  BY DEF PlacesFit, DueExpired, RowsFindTheirFiles, HasCanonical
<1>3. ExactUnlessFault
  BY DEF ExactUnlessFault
<1> QED
  BY <1>1, <1>2, <1>3 DEF IInv

\* Steps that leave the rows alone.
LEMMA RowsStay ==
  ASSUME IInv, rows' = rows,
         \/ Delete \/ Write \/ PutBack \/ DayPasses \/ Download
         \/ MoveMissing \/ MoveBegins \/ ToVersion
         \/ RenameToCanon \/ CopyBegins \/ CopyEnds \/ Unlink \/ Unindex
         \/ DropRow \/ MoveFails \/ CleanupBegins \/ Remove \/ RemoveFails \/ Crash
         \/ UNCHANGED vars
  PROVE  IInv'
<1>1. NextSeq' = NextSeq
  BY NextSeqKept
<1>2. NextSeq \in 1 .. MaxVersion + 1 /\ \A r \in rows : r.ver < NextSeq
  BY NextSeqIs DEF IInv
<1> HIDE DEF NextSeq
<1> USE <1>1, <1>2, Bounds
    DEF IInv, TypeOK, PlacesFit, DueExpired, RowsFindTheirFiles, ExactUnlessFault,
        HasCanonical, Bumping, PlaceOf, Expired, RowSet, None, Partial, Gens, Seqs, PC,
        client, files
<1>3. CASE Delete
  BY <1>3 DEF Delete
<1>4. CASE Write
  BY <1>4 DEF Write
<1>5. CASE PutBack
  BY <1>5 DEF PutBack
<1>6. CASE DayPasses
  <2>1. TypeOK' /\ PlacesFit'
    BY <1>6 DEF DayPasses
  <2>2. \A r \in rows : Expired(r) => Expired(r)'
    BY <1>6 DEF DayPasses
  <2>3. DueExpired' /\ RowsFindTheirFiles' /\ ExactUnlessFault'
    <3> HIDE DEF Expired
    <3> QED BY <1>6, <2>2 DEF DayPasses
  <2> QED BY <2>1, <2>3
<1>7. CASE Download
  BY <1>7 DEF Download
<1>8. CASE MoveMissing
  BY <1>8 DEF MoveMissing
<1>9. CASE MoveBegins
  BY <1>9 DEF MoveBegins
<1>10. CASE ToVersion
  <2>1. TypeOK' BY <1>10 DEF ToVersion
  <2>2. PlacesFit' BY <1>10 DEF ToVersion
  <2>3. DueExpired' BY <1>10 DEF ToVersion
  <2>4. RowsFindTheirFiles' BY <1>10 DEF ToVersion
  <2>5. ExactUnlessFault'
    <3> SUFFICES ASSUME faults = 0 PROVE ExactUnlessFault'
      BY <1>10 DEF ToVersion
    <3>1. \A r \in rows : PlaceOf(r) = r.file
      BY <1>10 DEF ToVersion
    <3>2. CASE canon = None
      BY <1>10, <3>1, <3>2 DEF ToVersion
    <3>3. CASE canon # None
      <4>1. HasCanonical /\ NextSeq \in Seqs
        BY <1>10, <3>3 DEF ToVersion
      <4>2. vers' = [vers EXCEPT ![NextSeq] = canon] /\ canon' = None /\ pc' = "bump"
        BY <1>10, <3>3 DEF ToVersion
      <4>3. \A r \in rows : r.ver # 0 => r.ver \in Seqs /\ vers'[r.ver] = r.file
        BY <3>1, <4>2
      <4>4. \A r \in rows : r.ver = 0 => vers'[NextSeq] = r.file
        BY <3>1, <4>1, <4>2
      <4> QED BY <1>10, <4>1, <4>2, <4>3, <4>4 DEF ToVersion
    <3> QED BY <3>2, <3>3
  <2> QED BY <2>1, <2>2, <2>3, <2>4, <2>5
<1>11. CASE RenameToCanon
  BY <1>11 DEF RenameToCanon
<1>12. CASE CopyBegins
  BY <1>12 DEF CopyBegins
<1>13. CASE CopyEnds
  BY <1>13 DEF CopyEnds
<1>14. CASE Unlink
  BY <1>14 DEF Unlink
<1>15. CASE Unindex
  BY <1>15 DEF Unindex
<1>16. CASE DropRow
  BY <1>16 DEF DropRow
<1>17. CASE MoveFails
  <2>1. TypeOK' BY <1>17 DEF MoveFails, Fault
  <2>2. PlacesFit' BY <1>17 DEF MoveFails, Fault
  <2>3. DueExpired' BY <1>17 DEF MoveFails, Fault
  <2>4. RowsFindTheirFiles' BY <1>17 DEF MoveFails, Fault
  <2>5. ExactUnlessFault' BY <1>17 DEF MoveFails, Fault
  <2> QED BY <2>1, <2>2, <2>3, <2>4, <2>5
<1>18. CASE CleanupBegins
  BY <1>18 DEF CleanupBegins
<1>19. CASE Remove
  <2>0. /\ pc = "remove" /\ pc' = "delete"
        /\ UNCHANGED <<gen, present, storage, index, rows, day, faults, torn, at, due>>
    BY <1>19 DEF Remove
  <2>1. PICK r \in due :
          IF r.ver = 0 THEN canon' = None /\ UNCHANGED vers
          ELSE vers' = [vers EXCEPT ![r.ver] = None] /\ UNCHANGED canon
    BY <1>19 DEF Remove
  <2>2. r \in rows /\ Expired(r) /\ r.ver \in 0 .. MaxVersion /\ \A q \in due : q = r
    BY <2>0
  <2>3. PlacesFit' /\ DueExpired'
    BY <2>0
  <2>4. \A q \in rows : PlaceOf(q)' = IF q = r THEN None ELSE PlaceOf(q)
    <3>1. CASE r.ver = 0
      BY <2>0, <2>1, <2>2, <3>1
    <3>2. CASE r.ver # 0
      <4>1. r.ver \in Seqs /\ canon' = canon /\ vers' = [vers EXCEPT ![r.ver] = None]
        BY <2>1, <2>2, <3>2
      <4>2. \A q \in rows : q.ver # 0 => q.ver \in Seqs /\ (q.ver = r.ver => q = r)
        BY <2>2
      <4>3. \A q \in rows : q.ver # 0 =>
              vers'[q.ver] = IF q = r THEN None ELSE vers[q.ver]
        BY <4>1, <4>2
      <4> QED BY <2>0, <3>2, <4>1, <4>3
    <3> QED BY <3>1, <3>2
  <2>5. TypeOK'
    <3>1. vers' \in [Seqs -> 0 .. Partial] /\ canon' \in 0 .. Partial
      <4>1. vers \in [Seqs -> 0 .. Partial] /\ canon \in 0 .. Partial /\ None \in 0 .. Partial
        OBVIOUS
      <4> QED BY ONLY <2>1, <4>1
    <3> QED BY <2>0, <3>1
  <2>6. RowsFindTheirFiles'
    <3> HIDE DEF PlaceOf
    <3> QED BY <2>0, <2>2, <2>4
  <2>7. ExactUnlessFault'
    <3> SUFFICES ASSUME faults = 0 PROVE ExactUnlessFault'
      BY <2>0
    <3>0. \A q \in rows : PlaceOf(q) = q.file
      BY <2>0
    <3>1. ~torn' /\ \A q \in rows : IF q \in due THEN PlaceOf(q)' = None
                                   ELSE PlaceOf(q)' = q.file
      <4>1. ASSUME NEW q \in rows
            PROVE  IF q \in due THEN PlaceOf(q)' = None ELSE PlaceOf(q)' = q.file
        <5> HIDE DEF PlaceOf
        <5> QED BY <2>2, <2>4, <3>0
      <4> QED BY <2>0, <4>1
    <3>2. canon' # None => HasCanonical'
      BY <2>0, <2>1
    <3>3. \A s \in Seqs : vers'[s] # None => \E q \in rows : q.ver = s
      BY <2>0, <2>1, <2>2
    <3> HIDE DEF PlaceOf, IInv
    <3> QED BY <2>0, <3>1, <3>2, <3>3
  <2> QED BY <2>3, <2>5, <2>6, <2>7
<1>20. CASE RemoveFails
  BY <1>20 DEF RemoveFails, Fault
<1>21. CASE Crash
  <2>1. TypeOK' BY <1>21 DEF Crash, Fault
  <2>2. PlacesFit' BY <1>21 DEF Crash, Fault
  <2>3. DueExpired' BY <1>21 DEF Crash, Fault
  <2>4. RowsFindTheirFiles' BY <1>21 DEF Crash, Fault
  <2>5. ExactUnlessFault' BY <1>21 DEF Crash, Fault
  <2> QED BY <2>1, <2>2, <2>3, <2>4, <2>5
<1>22. CASE UNCHANGED vars
  BY <1>22 DEF vars
<1> QED
  BY <1>3, <1>4, <1>5, <1>6, <1>7, <1>8, <1>9, <1>10, <1>11, <1>12, <1>13, <1>14, <1>15, <1>16, <1>17, <1>18, <1>19, <1>20, <1>21, <1>22

\* Steps that change them.
LEMMA RowsChange ==
  ASSUME IInv, Bump \/ Insert \/ DeleteRow
  PROVE  IInv'
<1>2. NextSeq \in 1 .. MaxVersion + 1 /\ \A r \in rows : r.ver < NextSeq
  BY NextSeqIs DEF IInv
<1> HIDE DEF NextSeq
<1> USE Bounds
    DEF IInv, TypeOK, PlacesFit, DueExpired, RowsFindTheirFiles, ExactUnlessFault,
        HasCanonical, Bumping, PlaceOf, Expired, RowSet, None, Partial, Gens, Seqs, PC,
        client, files
<1>3. CASE Bump
  <2> DEFINE Bumped(r) == IF r.ver = 0 THEN [r EXCEPT !.ver = NextSeq] ELSE r
  <2>0. /\ pc = "bump" /\ pc' = "toCanon" /\ rows' = {Bumped(r) : r \in rows}
        /\ UNCHANGED <<gen, present, storage, canon, vers, index, day, faults, torn, at, due>>
    BY <1>3 DEF Bump
  <2>1. NextSeq \in Seqs /\ canon = None /\ storage \in Gens /\ due = {}
    BY <1>2, <2>0
  <2>2. \A r \in rows : /\ Bumped(r) \in RowSet /\ Bumped(r).ver # 0
                        /\ Bumped(r).file = r.file /\ Bumped(r).at = r.at
                        /\ Bumped(r).ver = (IF r.ver = 0 THEN NextSeq ELSE r.ver)
    <3> SUFFICES ASSUME NEW r \in rows
                 PROVE  /\ Bumped(r) \in RowSet /\ Bumped(r).ver # 0
                        /\ Bumped(r).file = r.file /\ Bumped(r).at = r.at
                        /\ Bumped(r).ver = (IF r.ver = 0 THEN NextSeq ELSE r.ver)
      OBVIOUS
    <3>1. /\ r \in RowSet /\ r.ver \in 0 .. MaxVersion /\ r.at \in 0 .. MaxDay
          /\ r.file \in Gens
      OBVIOUS
    <3>2. CASE r.ver = 0
      <4>1. Bumped(r) = [ver |-> NextSeq, at |-> r.at, file |-> r.file]
        BY <3>1, <3>2
      <4> QED BY <2>1, <3>1, <3>2, <4>1
    <3>3. CASE r.ver # 0
      BY <3>1, <3>3
    <3> QED BY <3>2, <3>3
  <2>3. \A r, s \in rows : Bumped(r).ver = Bumped(s).ver => r = s
    BY <1>2, <2>2
  <2> HIDE DEF Bumped
  <2>4. TypeOK'
    <3>1. rows' \subseteq RowSet /\ \A r, s \in rows' : r.ver = s.ver => r = s
      BY <2>0, <2>2, <2>3
    <3> QED BY <2>0, <2>1, <3>1
  <2>5. PlacesFit' /\ DueExpired'
    BY <2>0, <2>1, <2>2
  <2>6. RowsFindTheirFiles'
    BY <2>0, <2>1, <2>2
  <2>7. ExactUnlessFault'
    <3> SUFFICES ASSUME faults = 0 PROVE ExactUnlessFault'
      BY <2>0
    <3>1. \A r \in rows : vers[Bumped(r).ver] = r.file
      <4>1. \A r \in rows : /\ r.file # None
                            /\ PlaceOf(r) = r.file \/ (r.ver = 0 /\ vers[NextSeq] = r.file)
        BY <2>0, <2>1
      <4>2. \A r \in rows : IF r.ver = 0 THEN vers[NextSeq] = r.file
                            ELSE vers[r.ver] = r.file
        BY <2>1, <4>1
      <4> HIDE DEF IInv
      <4> QED BY <2>2, <4>2
    <3>2. \A s \in Seqs : vers[s] # None => \E r \in rows : Bumped(r).ver = s
      BY <2>0, <2>1, <2>2
    <3>3. ~torn' /\ \A q \in rows' : PlaceOf(q)' = q.file
      <4>2. \A r \in rows : vers'[Bumped(r).ver] = Bumped(r).file /\ Bumped(r).ver # 0
        BY <2>0, <2>2, <3>1
      <4> QED BY <2>0, <4>2
    <3>4. \A s \in Seqs : vers'[s] # None => \E q \in rows' : q.ver = s
      BY <2>0, <3>2
    <3> HIDE DEF PlaceOf, IInv
    <3> QED BY <2>0, <2>1, <3>3, <3>4
  <2> QED BY <2>4, <2>5, <2>6, <2>7
<1>4. CASE Insert
  <2>1. TypeOK' BY <1>4 DEF Insert
  <2>2. PlacesFit' BY <1>4 DEF Insert
  <2>3. DueExpired' BY <1>4 DEF Insert
  <2> DEFINE new == [ver |-> 0, at |-> at, file |-> canon]
  <2>a. /\ pc = "insert" /\ pc' = "idle" /\ rows' = rows \cup {new} /\ due' = due
        /\ UNCHANGED <<storage, canon, vers, day, faults, torn>>
    BY <1>4 DEF Insert
  <2>b. \A r \in rows : PlaceOf(r)' = PlaceOf(r) /\ (Expired(r)' <=> Expired(r))
    BY <2>a
  <2>c. canon = new.file /\ new.ver = 0
    OBVIOUS
  <2> HIDE DEF new
  <2>d. \A r \in rows' : r \in rows \/ (r.ver = 0 /\ r.file = canon')
    BY <2>a, <2>c
  <2>e. \A r \in rows' : r.ver = 0 => PlaceOf(r)' = canon'
    OBVIOUS
  <2>4. RowsFindTheirFiles'
    <3> HIDE DEF PlaceOf, Expired
    <3> QED BY <2>a, <2>b, <2>d, <2>e
  <2>5. ExactUnlessFault'
    <3> SUFFICES ASSUME faults = 0 PROVE ExactUnlessFault'
      BY <2>a
    <3>1. ~torn' /\ \A r \in rows : PlaceOf(r) = r.file
      BY <2>a
    <3>2. \A r \in rows' : PlaceOf(r)' = r.file
      <4> HIDE DEF PlaceOf, IInv
      <4> QED BY <2>b, <2>d, <2>e, <3>1
    <3>3. \E r \in rows' : r.ver = 0
      BY <2>a, <2>c
    <3>4. \A s \in Seqs : vers'[s] # None => \E r \in rows' : r.ver = s
      BY <2>a
    <3> HIDE DEF PlaceOf, IInv
    <3> QED BY <2>a, <3>1, <3>2, <3>3, <3>4
  <2> QED BY <2>1, <2>2, <2>3, <2>4, <2>5
<1>5. CASE DeleteRow
  <2>1. TypeOK' BY <1>5 DEF DeleteRow
  <2>2. PlacesFit' BY <1>5 DEF DeleteRow
  <2>3. DueExpired' BY <1>5 DEF DeleteRow
  <2>a. /\ pc = "delete" /\ pc' = "idle" /\ rows' = rows \ due /\ due' = {}
        /\ UNCHANGED <<storage, canon, vers, day, faults, torn>>
    BY <1>5 DEF DeleteRow
  <2>b. \A r \in rows : PlaceOf(r)' = PlaceOf(r) /\ (Expired(r)' <=> Expired(r))
    BY <2>a
  <2>4. RowsFindTheirFiles'
    <3> HIDE DEF PlaceOf, Expired
    <3> QED BY <2>a, <2>b
  <2>5. ExactUnlessFault'
    <3> SUFFICES ASSUME faults = 0 PROVE ExactUnlessFault'
      BY <2>a
    <3>1. \A r \in rows : IF r \in due THEN PlaceOf(r) = None ELSE PlaceOf(r) = r.file
      BY <2>a
    <3>2. \A s \in Seqs : vers[s] # None => \E r \in rows \ due : r.ver = s
      BY <2>a, <3>1
    <3>3. canon # None => \E r \in rows \ due : r.ver = 0
      BY <2>a, <3>1
    <3>4. ~torn' /\ \A r \in rows' : PlaceOf(r)' = r.file
      <4> HIDE DEF PlaceOf
      <4> QED BY <2>a, <2>b, <3>1
    <3> HIDE DEF PlaceOf, IInv
    <3> QED BY <2>a, <3>2, <3>3, <3>4
  <2> QED BY <2>1, <2>2, <2>3, <2>4, <2>5
<1> QED
  BY <1>3, <1>4, <1>5

LEMMA NextInv == IInv /\ [Next]_vars => IInv'
<1> SUFFICES ASSUME IInv, [Next]_vars PROVE IInv'
  OBVIOUS
<1>1. CASE Bump \/ Insert \/ DeleteRow
  BY <1>1, RowsChange
<1>2. CASE ~(Bump \/ Insert \/ DeleteRow)
  <2>1. rows' = rows
    BY <1>2 DEF Next, Move, Cleanup, Delete, Write, PutBack, DayPasses, Download,
                MoveMissing, MoveBegins, ToVersion, RenameToCanon, CopyBegins, CopyEnds,
                Unlink, Unindex, DropRow, MoveFails, CleanupBegins, Remove, RemoveFails,
                Crash, vars
  <2> QED BY <1>2, <2>1, RowsStay DEF Next, Move, Cleanup
<1> QED
  BY <1>1, <1>2

LEMMA Invariant == Spec => []IInv
  BY InitInv, NextInv, PTL DEF Spec

-----------------------------------------------------------------------------

(* Every variable keeps its type; in particular no two rows of the path    *)
(* have one version number.                                                *)
THEOREM TrashTypes == Spec => []TypeOK
<1>1. IInv => TypeOK
  BY DEF IInv
<1> QED
  BY <1>1, Invariant, PTL

(* A row that has not expired finds its file where moveOne has put it.     *)
THEOREM RowsFind == Spec => []RowsFindTheirFiles
<1>1. IInv => RowsFindTheirFiles
  BY DEF IInv
<1> QED
  BY <1>1, Invariant, PTL

-----------------------------------------------------------------------------
(* What is left behind.                                                    *)

\* A file under way to its row, and one that is about to lose its own.
UnderWay ==
  IF \/ pc \in {"copy", "unlink", "unindex", "insert"}
     \/ pc = "bump" /\ HasCanonical /\ vers[NextSeq] # None
  THEN 1 ELSE 0
LosesRow ==
  IF \/ pc = "dropRow" /\ storage # None /\ index # None
     \/ pc = "delete" /\ \E r \in due : PlaceOf(r) # None
  THEN 1 ELSE 0
LeftBounded == LeftBehind + LosesRow <= 2 * faults + UnderWay
MovedAway == pc = "unindex" => storage = None

\* How the number of members changes with a member or two.
LEMMA FewerOrMore ==
  ASSUME NEW A, NEW B, NEW x, IsFiniteSet(A), B \subseteq A \cup {x}
  PROVE  /\ IsFiniteSet(B) /\ Cardinality(A) \in Nat /\ Cardinality(B) \in Nat
         /\ Cardinality(B) <= Cardinality(A) + 1
         /\ x \in A => Cardinality(B) <= Cardinality(A)
         /\ x \in A /\ x \notin B => Cardinality(B) <= Cardinality(A) - 1
<1>1. IsFiniteSet(A \cup {x}) /\ Cardinality(A) \in Nat
  BY FS_AddElement, FS_CardinalityType
<1>2. IsFiniteSet(B) /\ Cardinality(B) <= Cardinality(A \cup {x})
  BY <1>1, FS_Subset
<1>3. Cardinality(A \cup {x}) = IF x \in A THEN Cardinality(A) ELSE Cardinality(A) + 1
  BY FS_AddElement
<1>4. Cardinality(B) \in Nat
  BY <1>2, FS_CardinalityType
<1>5. ASSUME x \in A, x \notin B PROVE Cardinality(B) <= Cardinality(A) - 1
  <2>1. IsFiniteSet(A \ {x}) /\ Cardinality(A \ {x}) = Cardinality(A) - 1
    BY <1>5, FS_RemoveElement
  <2>2. B \subseteq A \ {x}
    BY <1>5
  <2> QED
    BY <2>1, <2>2, FS_Subset
<1> QED
  BY <1>1, <1>2, <1>3, <1>4, <1>5

LEMMA MovedAwayKeeps == IInv /\ MovedAway /\ [Next]_vars => MovedAway'
BY DEF MovedAway, Next, Move, Cleanup, Delete, Write, PutBack, DayPasses, Download, MoveMissing,
       MoveBegins, ToVersion, Bump, RenameToCanon, CopyBegins, CopyEnds, Unlink, Unindex, Insert,
       DropRow, MoveFails, CleanupBegins, Remove, RemoveFails, DeleteRow, Crash, vars, files

LEMMA NoRowFinite == IsFiniteSet(NoRow) /\ Cardinality(NoRow) \in Nat /\ Stray \in {0, 1}
<1>1. IsFiniteSet(0 .. MaxVersion)
  BY Bounds, FS_Interval
<1>2. IsFiniteSet(NoRow)
  BY <1>1, FS_Subset DEF NoRow
<1> QED
  BY <1>2, FS_CardinalityType DEF Stray

LEMMA LeftInit == Init => LeftBounded
<1> SUFFICES ASSUME Init PROVE LeftBounded
  OBVIOUS
<1>1. NoRow = {}
  BY Bounds DEF Init, NoRow, Seqs, None
<1>2. Cardinality(NoRow) = 0 /\ Stray = 0 /\ LosesRow = 0 /\ UnderWay = 0 /\ faults = 0
  BY <1>1, FS_EmptySet DEF Init, Stray, LosesRow, UnderWay
<1> QED
  BY <1>2 DEF LeftBounded, LeftBehind

\* Steps that touch neither files nor rows.
LEMMA LeftNothingMoves ==
  ASSUME IInv, LeftBounded, MovedAway, UNCHANGED <<files, rows>>,
         \/ Delete \/ Write \/ PutBack \/ DayPasses
         \/ MoveMissing \/ MoveBegins \/ Unindex \/ DropRow \/ MoveFails
         \/ CleanupBegins \/ RemoveFails \/ Crash \/ UNCHANGED vars
  PROVE  LeftBounded'
<1>1. NoRow' = NoRow /\ NextSeq' = NextSeq /\ (HasCanonical' <=> HasCanonical)
  BY NextSeqKept DEF NoRow, files, HasCanonical
<1>2. /\ faults \in Nat /\ Cardinality(NoRow) \in Nat /\ Stray \in {0, 1}
      /\ Cardinality(NoRow) + Stray + LosesRow <= 2 * faults + UnderWay
  BY NoRowFinite, Bounds DEF IInv, TypeOK, LeftBounded, LeftBehind
<1>3. LosesRow \in {0, 1} /\ UnderWay \in {0, 1} /\ LosesRow' \in {0, 1} /\ UnderWay' \in {0, 1}
  BY DEF LosesRow, UnderWay
<1>4. SUFFICES Cardinality(NoRow) + Stray' + LosesRow' <= 2 * faults' + UnderWay'
  BY <1>1 DEF LeftBounded, LeftBehind
<1>5. CASE Delete \/ Write \/ PutBack \/ DayPasses \/ UNCHANGED vars
  <2>1. /\ UNCHANGED <<pc, index, faults, due, storage, canon, vers, rows>>
    BY <1>5 DEF Delete, Write, PutBack, DayPasses, vars, files
  <2>2. Stray' = Stray /\ LosesRow' = LosesRow /\ UnderWay' = UnderWay
    BY <1>1, <2>1 DEF Stray, LosesRow, UnderWay, PlaceOf
  <2> QED
    BY <1>2, <2>1, <2>2
<1>6. CASE MoveMissing \/ MoveBegins \/ CleanupBegins
  <2>1. /\ pc = "idle" /\ pc' \in {"idle", "toVersion", "toCanon", "remove"} /\ faults' = faults
        /\ storage' = storage /\ (index' = index \/ storage = None)
    BY <1>6 DEF MoveMissing, MoveBegins, CleanupBegins, files
  <2>2. Stray' <= Stray /\ Stray' \in {0, 1}
    BY <2>1 DEF Stray
  <2>3. LosesRow' = 0 /\ UnderWay' = 0 /\ UnderWay = 0
    BY <2>1 DEF LosesRow, UnderWay
  <2> QED
    BY <1>2, <1>3, <2>1, <2>2, <2>3
<1>7. CASE Unindex
  <2>1. pc = "unindex" /\ pc' = "insert" /\ faults' = faults /\ storage' = storage
    BY <1>7 DEF Unindex, files
  <2>2. storage = None
    BY <2>1 DEF MovedAway
  <2>3. Stray' = 0 /\ LosesRow' = 0 /\ UnderWay' = 1 /\ UnderWay = 1
    BY <2>1, <2>2 DEF Stray, LosesRow, UnderWay
  <2> QED
    BY <1>2, <1>3, <2>1, <2>3
<1>8. CASE DropRow
  <2>1. pc = "dropRow" /\ pc' = "idle" /\ index' = None /\ faults' = faults /\ storage' = storage
    BY <1>8 DEF DropRow, files
  <2>2. Stray' = Stray + LosesRow
    BY <2>1 DEF Stray, LosesRow
  <2>3. LosesRow' = 0 /\ UnderWay' = 0 /\ UnderWay = 0
    BY <2>1 DEF LosesRow, UnderWay
  <2> QED
    BY <1>2, <1>3, <2>1, <2>2, <2>3
<1>9. CASE MoveFails \/ RemoveFails \/ Crash
  <2>1. faults' = faults + 1 /\ index' = index /\ storage' = storage
    BY <1>9 DEF MoveFails, RemoveFails, Crash, Fault, files
  <2>2. Stray' = Stray
    BY <2>1 DEF Stray
  <2> QED
    BY <1>2, <1>3, <2>1, <2>2
<1> QED
  BY <1>5, <1>6, <1>7, <1>8, <1>9

\* Steps of moveOne that move files.
LEMMA LeftFilesMove ==
  ASSUME IInv, LeftBounded,
         Download \/ ToVersion \/ RenameToCanon \/ CopyBegins \/ CopyEnds \/ Unlink
  PROVE  LeftBounded'
<1>1. /\ faults \in Nat /\ Cardinality(NoRow) \in Nat /\ IsFiniteSet(NoRow) /\ Stray \in {0, 1}
      /\ Cardinality(NoRow) + Stray + LosesRow <= 2 * faults + UnderWay
  BY NoRowFinite, Bounds DEF IInv, TypeOK, LeftBounded, LeftBehind
<1>2. LosesRow \in {0, 1} /\ UnderWay \in {0, 1} /\ LosesRow' \in {0, 1} /\ UnderWay' \in {0, 1}
  BY DEF LosesRow, UnderWay
<1>3. /\ NextSeq \in 1 .. MaxVersion + 1 /\ \A r \in rows : r.ver < NextSeq /\ r.ver \in Nat
  BY NextSeqIs, Bounds DEF IInv, TypeOK, RowSet
<1>4. /\ vers \in [Seqs -> 0 .. Partial] /\ 0 \in 0 .. MaxVersion /\ 0 \notin Seqs
      /\ 0 .. MaxVersion = Seqs \cup {0}
  BY Bounds DEF IInv, TypeOK, Seqs
<1> HIDE DEF NextSeq
<1>5. CASE Download
  <2>1. NoRow' = NoRow
    BY <1>5 DEF Download, NoRow
  <2>2. pc = "idle" /\ pc' = "idle" /\ faults' = faults /\ index' # None
    BY <1>5 DEF Download, IInv, TypeOK, Gens, None
  <2>3. Stray' = 0 /\ LosesRow' = 0 /\ UnderWay' = 0 /\ UnderWay = 0
    BY <2>2 DEF Stray, LosesRow, UnderWay
  <2> QED
    BY <1>1, <1>2, <2>1, <2>2, <2>3 DEF LeftBounded, LeftBehind
<1>6. CASE ToVersion
  <2>1. /\ pc = "toVersion" /\ pc' = "bump" /\ UNCHANGED <<storage, index, rows, faults>>
        /\ NextSeq \in Seqs /\ NextSeq' = NextSeq /\ (HasCanonical' <=> HasCanonical)
    BY <1>3, <1>6, NextSeqKept, Bounds DEF ToVersion, IInv, PlacesFit, Seqs, HasCanonical
  <2>2. Stray' = Stray /\ LosesRow' = 0 /\ UnderWay = 0
    BY <2>1 DEF Stray, LosesRow, UnderWay
  <2>3. CASE canon = None
    <3>1. NoRow' = NoRow
      BY <1>6, <2>1, <2>3 DEF ToVersion, NoRow
    <3> QED
      BY <1>1, <1>2, <2>1, <2>2, <3>1 DEF LeftBounded, LeftBehind
  <2>4. CASE canon # None
    <3>1. canon' = None /\ vers' = [vers EXCEPT ![NextSeq] = canon]
      BY <1>6, <2>4 DEF ToVersion
    <3>2. NoRow' \subseteq NoRow \cup {NextSeq} /\ 0 \notin NoRow'
      BY <1>4, <2>1, <3>1 DEF NoRow
    <3>3. CASE HasCanonical
      <4>1. UnderWay' = 1
        BY <1>4, <2>1, <2>4, <3>1, <3>3 DEF UnderWay
      <4>2. IsFiniteSet(NoRow') /\ Cardinality(NoRow') <= Cardinality(NoRow) + 1 /\ Cardinality(NoRow') \in Nat
        BY <1>1, <3>2, FewerOrMore
      <4> QED
        BY <1>1, <1>2, <2>1, <2>2, <4>1, <4>2 DEF LeftBounded, LeftBehind
    <3>4. CASE ~HasCanonical
      <4>1. 0 \in NoRow
        BY <1>4, <2>4, <3>4 DEF NoRow, HasCanonical
      <4>2. IsFiniteSet(NoRow \ {0}) /\ Cardinality(NoRow \ {0}) = Cardinality(NoRow) - 1
        BY <1>1, <4>1, FS_RemoveElement
      <4>3. NoRow' \subseteq (NoRow \ {0}) \cup {NextSeq}
        BY <3>2
      <4>4. Cardinality(NoRow') <= Cardinality(NoRow) - 1 + 1 /\ Cardinality(NoRow') \in Nat
        BY <4>2, <4>3, FewerOrMore
      <4> QED
        BY <1>1, <1>2, <2>1, <2>2, <4>4 DEF LeftBounded, LeftBehind
    <3> QED
      BY <3>3, <3>4
  <2> QED
    BY <2>3, <2>4
<1>7. CASE RenameToCanon \/ CopyBegins
  <2>1. /\ pc = "toCanon" /\ pc' \in {"unindex", "copy"} /\ UNCHANGED <<index, rows, faults, vers>>
        /\ storage' \in {storage, None}
    BY <1>7 DEF RenameToCanon, CopyBegins
  <2>2. UnderWay = 0 /\ UnderWay' = 1 /\ LosesRow' = 0
    BY <2>1 DEF UnderWay, LosesRow
  <2>3. Stray' <= Stray /\ Stray' \in {0, 1}
    BY <2>1 DEF Stray
  <2>4. NoRow' \subseteq NoRow \cup {0}
    BY <2>1 DEF NoRow
  <2>5. Cardinality(NoRow') <= Cardinality(NoRow) + 1 /\ Cardinality(NoRow') \in Nat
    BY <1>1, <2>4, FewerOrMore
  <2> QED
    BY <1>1, <1>2, <2>1, <2>2, <2>3, <2>5 DEF LeftBounded, LeftBehind
<1>8. CASE CopyEnds \/ Unlink
  <2>1. /\ pc \in {"copy", "unlink"} /\ pc' \in {"unlink", "unindex"} /\ UNCHANGED <<index, rows, faults, vers>>
        /\ storage' \in {storage, None} /\ canon # None
    BY <1>8, Bounds DEF CopyEnds, Unlink, IInv, PlacesFit, Partial, Gens, None
  <2>2. UnderWay = 1 /\ UnderWay' = 1 /\ LosesRow' = 0
    BY <2>1 DEF UnderWay, LosesRow
  <2>3. Stray' <= Stray /\ Stray' \in {0, 1}
    BY <2>1 DEF Stray
  <2>4. 0 \in NoRow
    BY <1>4, <2>1 DEF NoRow, IInv, PlacesFit, HasCanonical
  <2>5. NoRow' \subseteq NoRow \cup {0}
    BY <2>1 DEF NoRow
  <2>6. Cardinality(NoRow') <= Cardinality(NoRow) /\ Cardinality(NoRow') \in Nat
    BY <1>1, <2>4, <2>5, FewerOrMore
  <2> QED
    BY <1>1, <1>2, <2>1, <2>2, <2>3, <2>6 DEF LeftBounded, LeftBehind
<1> QED
  BY <1>5, <1>6, <1>7, <1>8

\* Steps that change rows, and the removal of a file that has one.
LEMMA LeftRowsChange ==
  ASSUME IInv, LeftBounded, Bump \/ Insert \/ Remove \/ DeleteRow
  PROVE  LeftBounded'
<1>1. /\ faults \in Nat /\ Cardinality(NoRow) \in Nat /\ IsFiniteSet(NoRow) /\ Stray \in {0, 1}
      /\ Cardinality(NoRow) + Stray + LosesRow <= 2 * faults + UnderWay
  BY NoRowFinite, Bounds DEF IInv, TypeOK, LeftBounded, LeftBehind
<1>2. /\ NextSeq \in 1 .. MaxVersion + 1 /\ \A r \in rows : r.ver < NextSeq /\ r.ver \in 0 .. MaxVersion
  BY NextSeqIs, Bounds DEF IInv, TypeOK, RowSet
<1>3. /\ vers \in [Seqs -> 0 .. Partial] /\ 0 \in 0 .. MaxVersion /\ 0 \notin Seqs
      /\ 0 .. MaxVersion = Seqs \cup {0}
  BY Bounds DEF IInv, TypeOK, Seqs
<1>4. Stray' = Stray /\ faults' = faults
  BY DEF Bump, Insert, Remove, DeleteRow, Stray, files
<1>5. SUFFICES Cardinality(NoRow') + LosesRow' <= Cardinality(NoRow) + LosesRow + UnderWay' - UnderWay
               /\ Cardinality(NoRow') \in Nat
  BY <1>1, <1>4 DEF LeftBounded, LeftBehind, LosesRow, UnderWay
<1> HIDE DEF NextSeq
<1>6. CASE Bump
  <2>1. /\ pc = "bump" /\ pc' = "toCanon" /\ UNCHANGED <<canon, vers>> /\ canon = None
        /\ rows' = {IF r.ver = 0 THEN [r EXCEPT !.ver = NextSeq] ELSE r : r \in rows}
        /\ NextSeq \in Seqs
    BY <1>2, <1>6, Bounds DEF Bump, files, IInv, PlacesFit, Seqs
  <2>2. LosesRow = 0 /\ LosesRow' = 0 /\ UnderWay' = 0
    BY <2>1 DEF LosesRow, UnderWay
  <2>3. \A r \in rows : r.ver # 0 => r \in rows'
    BY <2>1
  <2>4. HasCanonical => \E r \in rows' : r.ver = NextSeq
    <3> SUFFICES ASSUME NEW r \in rows, r.ver = 0 PROVE \E q \in rows' : q.ver = NextSeq
      BY DEF HasCanonical
    <3>1. r \in [ver : 0 .. MaxVersion, at : 0 .. MaxDay, file : Gens]
      BY DEF IInv, TypeOK, RowSet
    <3>2. [r EXCEPT !.ver = NextSeq] \in rows' /\ [r EXCEPT !.ver = NextSeq].ver = NextSeq
      BY <2>1, <3>1
    <3> QED
      BY <3>2
  <2>5. NoRow' \subseteq NoRow \cup {NextSeq}
    BY <1>3, <2>1, <2>3 DEF NoRow, None
  <2>6. NoRow' \subseteq NoRow
    <3> SUFFICES ASSUME NEW v \in NoRow' PROVE v \in NoRow
      OBVIOUS
    <3>1. v \in 0 .. MaxVersion /\ v # 0 /\ vers[v] # None /\ \A r \in rows' : r.ver # v
      BY <2>1 DEF NoRow
    <3>2. \A r \in rows : r.ver # v
      BY <2>3, <3>1
    <3> QED
      BY <3>1, <3>2 DEF NoRow
  <2>7. CASE UnderWay = 0
    <3>1. Cardinality(NoRow') <= Cardinality(NoRow) /\ Cardinality(NoRow') \in Nat
      BY <1>1, <2>6, FS_Subset, FS_CardinalityType
    <3> QED
      BY <1>1, <2>2, <2>7, <3>1
  <2>8. CASE UnderWay = 1
    <3>1. HasCanonical /\ vers[NextSeq] # None
      BY <2>1, <2>8 DEF UnderWay
    <3>2. NextSeq \in NoRow /\ NextSeq \notin NoRow'
      BY <1>2, <1>3, <2>1, <2>4, <3>1 DEF NoRow
    <3>3. Cardinality(NoRow') <= Cardinality(NoRow) - 1 /\ Cardinality(NoRow') \in Nat
      BY <1>1, <2>5, <3>2, FewerOrMore
    <3> QED
      BY <1>1, <2>2, <2>8, <3>3
  <2> QED
    BY <2>7, <2>8 DEF UnderWay
<1>7. CASE Insert
  <2>1. /\ pc = "insert" /\ pc' = "idle" /\ UNCHANGED <<canon, vers>> /\ canon # None /\ ~HasCanonical
        /\ rows' = rows \cup {[ver |-> 0, at |-> at, file |-> canon]}
    BY <1>7 DEF Insert, files, IInv, PlacesFit, Gens, None
  <2>2. LosesRow = 0 /\ LosesRow' = 0 /\ UnderWay = 1 /\ UnderWay' = 0
    BY <2>1 DEF LosesRow, UnderWay
  <2>3. 0 \in NoRow /\ 0 \notin NoRow' /\ NoRow' \subseteq NoRow
    <3>1. 0 \in NoRow
      BY <1>3, <2>1 DEF NoRow, HasCanonical
    <3>2. \E r \in rows' : r.ver = 0
      <4> DEFINE new == [ver |-> 0, at |-> at, file |-> canon]
      <4>1. new.ver = 0 /\ new \in rows'
        BY <2>1
      <4> HIDE DEF new
      <4> QED
        BY <4>1
    <3>3. 0 \notin NoRow'
      BY <3>2 DEF NoRow
    <3>4. NoRow' \subseteq NoRow
      BY <2>1 DEF NoRow
    <3> QED
      BY <3>1, <3>3, <3>4
  <2>4. Cardinality(NoRow') <= Cardinality(NoRow) - 1 /\ Cardinality(NoRow') \in Nat
    BY <1>1, <2>3, FewerOrMore
  <2> QED
    BY <1>1, <2>2, <2>4
<1>8. CASE Remove
  <2>1. PICK r \in due :
          IF r.ver = 0 THEN canon' = None /\ UNCHANGED vers
          ELSE vers' = [vers EXCEPT ![r.ver] = None] /\ UNCHANGED canon
    BY <1>8 DEF Remove
  <2>2. /\ pc = "remove" /\ pc' = "delete" /\ UNCHANGED <<rows, due>> /\ r \in rows
        /\ r.ver \in 0 .. MaxVersion /\ \A q \in due : q = r
    BY <1>2, <1>8, <2>1 DEF Remove, IInv, TypeOK, DueExpired
  <2>3. LosesRow = 0 /\ UnderWay = 0 /\ UnderWay' = 0
    BY <2>2 DEF LosesRow, UnderWay
  <2>4. PlaceOf(r)' = None
    BY <1>3, <2>1, <2>2 DEF PlaceOf
  <2>5. LosesRow' = 0
    BY <2>2, <2>4 DEF LosesRow
  <2>6. NoRow' \subseteq NoRow
    BY <1>3, <2>1, <2>2 DEF NoRow, None
  <2>7. Cardinality(NoRow') <= Cardinality(NoRow) /\ Cardinality(NoRow') \in Nat
    BY <1>1, <2>6, FS_Subset, FS_CardinalityType
  <2> QED
    BY <1>1, <2>3, <2>5, <2>7
<1>9. CASE DeleteRow
  <2>1. /\ pc = "delete" /\ pc' = "idle" /\ UNCHANGED <<canon, vers>> /\ rows' = rows \ due
        /\ due # {} /\ due \subseteq rows
    BY <1>9 DEF DeleteRow, files, IInv, TypeOK
  <2>2. PICK r \in due : TRUE
    BY <2>1
  <2>3. r \in rows /\ r.ver \in 0 .. MaxVersion /\ rows' = rows \ {r} /\ \A q \in due : q = r
    BY <1>2, <2>1, <2>2 DEF IInv, DueExpired
  <2>4. LosesRow' = 0 /\ UnderWay = 0 /\ UnderWay' = 0
    BY <2>1 DEF LosesRow, UnderWay
  <2>5. NoRow' \subseteq NoRow \cup {r.ver}
    BY <2>1, <2>3 DEF NoRow
  <2>6. /\ Cardinality(NoRow') <= Cardinality(NoRow) + 1 /\ Cardinality(NoRow') \in Nat
    BY <1>1, <2>5, FewerOrMore
  <2>7. CASE PlaceOf(r) # None
    <3>1. LosesRow = 1
      BY <2>1, <2>2, <2>7 DEF LosesRow
    <3> QED
      BY <1>1, <2>4, <2>6, <3>1
  <2>8. CASE PlaceOf(r) = None
    <3>1. r.ver \notin NoRow'
      BY <2>1, <2>8 DEF NoRow, PlaceOf
    <3>2. NoRow' \subseteq NoRow
      BY <2>5, <3>1
    <3>3. Cardinality(NoRow') <= Cardinality(NoRow)
      BY <1>1, <3>2, FS_Subset
    <3>4. LosesRow \in {0, 1}
      BY DEF LosesRow
    <3> QED
      BY <1>1, <2>4, <2>6, <3>3, <3>4
  <2> QED
    BY <2>7, <2>8
<1> QED
  BY <1>6, <1>7, <1>8, <1>9

LEMMA LeftKeeps == IInv /\ LeftBounded /\ MovedAway /\ [Next]_vars => LeftBounded'
<1> SUFFICES ASSUME IInv, LeftBounded, MovedAway, [Next]_vars PROVE LeftBounded'
  OBVIOUS
<1>1. CASE Download \/ ToVersion \/ RenameToCanon \/ CopyBegins \/ CopyEnds \/ Unlink
  BY <1>1, LeftFilesMove
<1>2. CASE Bump \/ Insert \/ Remove \/ DeleteRow
  BY <1>2, LeftRowsChange
<1>3. CASE ~(Download \/ ToVersion \/ RenameToCanon \/ CopyBegins \/ CopyEnds \/ Unlink
             \/ Bump \/ Insert \/ Remove \/ DeleteRow)
  <2>1. UNCHANGED <<files, rows>>
    BY <1>3 DEF Next, Move, Cleanup, Delete, Write, PutBack, DayPasses, MoveMissing, MoveBegins,
                Unindex, DropRow, MoveFails, CleanupBegins, RemoveFails, Crash, vars
  <2> QED
    BY <1>3, <2>1, LeftNothingMoves DEF Next, Move, Cleanup
<1> QED
  BY <1>1, <1>2, <1>3

(* What crashes and errors leave behind does not add up in later moves,    *)
(* versions and purges: it is at most two files for each, and so none      *)
(* without them (moveOne, Cleanup).                                        *)
THEOREM FewAreLeft == Spec => []FewLeftBehind
<1>1. Init => LeftBounded /\ MovedAway
  BY LeftInit DEF Init, MovedAway
<1>2. IInv /\ LeftBounded => FewLeftBehind
  <2> SUFFICES ASSUME IInv, LeftBounded, pc = "idle" PROVE LeftBehind <= 2 * faults
    BY DEF FewLeftBehind
  <2>2. faults \in Nat
    BY Bounds DEF IInv, TypeOK
  <2>1. LosesRow = 0 /\ UnderWay = 0
    BY DEF LosesRow, UnderWay
  <2> QED
    BY <2>1, <2>2, NoRowFinite DEF LeftBounded, LeftBehind
<1> QED
  BY <1>1, <1>2, Invariant, LeftKeeps, MovedAwayKeeps, PTL DEF Spec

-----------------------------------------------------------------------------
\* What LostOnlyWhenDue allows.
MayGo(c) ==
  \/ c = storage /\ storage' # None
  \/ \E r \in rows : r.file = c /\ Expired(r)
  \/ faults > 0 /\ (torn \/ \A r \in rows : r.file # c)

\* A row that is not expired and has the content keeps it.
LEMMA RowKeeps ==
  ASSUME IInv, pc # "bump", NEW c, ~MayGo(c), faults > 0
  PROVE  \E r \in rows : PlaceOf(r) = c /\ r.file = c /\ ~Expired(r)
<1>1. PICK r \in rows : r.file = c /\ ~torn
  BY DEF MayGo
<1>2. ~Expired(r)
  BY <1>1 DEF MayGo
<1> QED
  BY <1>1, <1>2 DEF IInv, RowsFindTheirFiles

LEMMA StepLoses ==
  ASSUME IInv, Next, NEW c \in Kept \ Kept'
  PROVE  MayGo(c)
<1>1. /\ c # None /\ c # Partial
      /\ c = storage \/ c = canon \/ \E s \in Seqs : vers[s] = c
      /\ c # storage' /\ c # canon' /\ \A s \in Seqs : vers'[s] # c
  BY DEF Kept, Partial
<1>2. NextSeq \in 1 .. MaxVersion + 1 /\ \A r \in rows : r.ver < NextSeq
  BY NextSeqIs DEF IInv
<1>3. faults \in Nat
  BY Bounds DEF IInv, TypeOK
<1> HIDE DEF NextSeq
<1>4. CASE UNCHANGED <<storage, canon, vers>>
  BY <1>1, <1>4
<1>5. CASE Download
  BY <1>1, <1>5 DEF Download, MayGo, IInv, TypeOK, Gens, None
<1>6. CASE RenameToCanon
  BY <1>1, <1>6 DEF RenameToCanon, IInv, PlacesFit, None
<1>7. CASE CopyBegins
  BY <1>1, <1>7 DEF CopyBegins, IInv, PlacesFit, None
<1>8. CASE CopyEnds
  BY <1>1, <1>8 DEF CopyEnds, IInv, PlacesFit
<1>9. CASE Unlink
  BY <1>1, <1>9 DEF Unlink, IInv, PlacesFit
<1>10. CASE ToVersion
  <2>1. /\ pc = "toVersion" /\ canon # None /\ storage' = storage
        /\ vers' = [vers EXCEPT ![NextSeq] = canon]
    BY <1>1, <1>10 DEF ToVersion
  <2>2. NextSeq \in Seqs /\ vers \in [Seqs -> 0 .. Partial]
    BY <1>2, <2>1, Bounds DEF IInv, TypeOK, PlacesFit, Seqs
  <2>3. c # canon /\ c = vers[NextSeq]
    BY <1>1, <2>1, <2>2
  <2>4. CASE faults = 0
    <3>1. \E r \in rows : r.ver = NextSeq
      BY <1>1, <2>1, <2>2, <2>3, <2>4 DEF IInv, ExactUnlessFault
    <3>2. \A r \in rows : r.ver \in Nat
      BY Bounds DEF IInv, TypeOK, RowSet
    <3> QED BY <1>2, <3>1, <3>2
  <2>5. CASE faults > 0
    <3> SUFFICES ASSUME ~MayGo(c) PROVE FALSE
      OBVIOUS
    <3>1. PICK r \in rows : PlaceOf(r) = c
      BY <2>1, <2>5, RowKeeps
    <3>2. r.ver \in 0 .. MaxVersion
      BY DEF IInv, TypeOK, RowSet
    <3>3. CASE r.ver = 0
      BY <2>3, <3>1, <3>3 DEF PlaceOf
    <3>4. CASE r.ver # 0
      <4>1. r.ver \in Seqs /\ r.ver # NextSeq /\ vers[r.ver] = c
        BY <1>2, <3>1, <3>2, <3>4, Bounds DEF PlaceOf, Seqs
      <4> QED BY <1>1, <2>1, <2>2, <4>1
    <3> QED BY <3>3, <3>4
  <2> QED BY <1>3, <2>4, <2>5
<1>11. CASE Remove
  <2>1. PICK r \in due :
          IF r.ver = 0 THEN canon' = None /\ UNCHANGED vers
          ELSE vers' = [vers EXCEPT ![r.ver] = None] /\ UNCHANGED canon
    BY <1>11 DEF Remove
  <2>2. /\ pc = "remove" /\ UNCHANGED <<storage, rows>>
        /\ r \in rows /\ Expired(r) /\ r.ver \in 0 .. MaxVersion
        /\ vers \in [Seqs -> 0 .. Partial]
    BY <1>11, <2>1 DEF Remove, IInv, DueExpired, TypeOK, RowSet
  <2>3. c = PlaceOf(r)
    BY <1>1, <2>1, <2>2, Bounds DEF PlaceOf, Seqs
  <2>4. CASE faults = 0
    <3>1. PlaceOf(r) = r.file
      BY <2>2, <2>4 DEF IInv, ExactUnlessFault, Bumping
    <3> QED BY <2>2, <2>3, <3>1 DEF MayGo
  <2>5. CASE faults > 0
    <3> SUFFICES ASSUME ~MayGo(c) PROVE FALSE
      OBVIOUS
    <3>1. PICK q \in rows : PlaceOf(q) = c /\ ~Expired(q)
      BY <2>2, <2>5, RowKeeps
    <3>2. q # r /\ q.ver # r.ver /\ q.ver \in 0 .. MaxVersion
      BY <2>2, <3>1 DEF IInv, TypeOK, RowSet
    <3>3. CASE q.ver = 0
      BY <1>1, <2>1, <3>1, <3>2, <3>3 DEF PlaceOf
    <3>4. CASE q.ver # 0
      <4>1. q.ver \in Seqs /\ vers[q.ver] = c
        BY <3>1, <3>2, <3>4, Bounds DEF PlaceOf, Seqs
      <4> QED BY <1>1, <2>1, <2>2, <3>2, <4>1
    <3> QED BY <3>3, <3>4
  <2> QED BY <1>3, <2>4, <2>5
<1> QED
  BY <1>4, <1>5, <1>6, <1>7, <1>8, <1>9, <1>10, <1>11
     DEF Next, Move, Cleanup, Delete, Write, PutBack, DayPasses, MoveMissing, MoveBegins,
         Bump, Unindex, Insert, DropRow, MoveFails, CleanupBegins, RemoveFails, DeleteRow,
         Crash, files

(* No step destroys a content before it is due, unless a fault has left it *)
(* without a row that finds it.                                            *)
THEOREM NothingLostEarly == Spec => LostOnlyWhenDue
<1>1. IInv /\ [Next]_vars => [\A c \in Kept \ Kept' : MayGo(c)]_vars
  BY StepLoses
<1>2. IInv /\ [Next]_vars =>
        [\A c \in Kept \ Kept' :
           \/ c = storage /\ storage' # None
           \/ \E r \in rows : r.file = c /\ Expired(r)
           \/ faults > 0 /\ (torn \/ \A r \in rows : r.file # c)]_vars
  BY <1>1 DEF MayGo
<1> QED
  BY <1>2, Invariant, PTL DEF Spec, LostOnlyWhenDue

=============================================================================
