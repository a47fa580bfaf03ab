-------------------------------- MODULE Trash --------------------------------
(***************************************************************************)
(* The trash of the server (internal/trash/trash.go, with the trash table  *)
(* of internal/store/trashstore.go), for one path: moveOne, which moves a  *)
(* stored file the client no longer lists into the trash and makes room    *)
(* for it by turning the previous one into a numbered version, and         *)
(* Cleanup, which removes what has expired.  Each rename, copy and SQL     *)
(* statement is a step of its own; the process may die between any two,    *)
(* and any of them may fail.  The client deletes, rewrites and puts back   *)
(* its file; a download (module Download) is one step here.                *)
(***************************************************************************)
EXTENDS Naturals, FiniteSets

CONSTANTS
  MaxGen,      \* contents the client's file has had, 1 .. MaxGen
  MaxVersion,  \* bound on version numbers
  MaxDay,      \* bound on the clock
  Retention,   \* TRASH_RETENTION_DAYS
  MaxFaults,   \* bound on crashes and failing operations
  Rename       \* {TRUE}: storage and trash share a file system; {FALSE}: not

ASSUME Bounds == MaxGen \in Nat \ {0} /\ MaxVersion \in Nat /\ MaxDay \in Nat
                   /\ Retention \in Nat /\ MaxFaults \in Nat
ASSUME RenameIsBoolean == Rename \subseteq BOOLEAN

None == 0             \* no file, no row
Partial == MaxGen + 1 \* a copy that was interrupted
Gens == 1 .. MaxGen
Seqs == 1 .. MaxVersion

VARIABLES
  gen,      \* the newest content the client wrote
  present,  \* the client has the file, with that content
  storage,  \* the file in STORAGE_DIR
  index,    \* the row of the files table
  canon,    \* TRASH_DIR/<relpath>
  vers,     \* TRASH_DIR/<dir>/.versions/<seq>/<base>
  rows,     \* the trash table; file: history, the content the row was made for
  day,      \* the clock
  faults,   \* crashes and failed operations so far
  torn,     \* history: one of them came between ToVersion and Bump
  pc,       \* where moveOne or Cleanup is
  at,       \* moveOne's clock reading
  due       \* Cleanup's row

client == <<gen, present>>
files == <<storage, canon, vers>>
vars == <<client, files, index, rows, day, faults, torn, pc, at, due>>

RowSet == [ver : 0 .. MaxVersion, at : 0 .. MaxDay, file : Gens]

PC == {"idle", "toVersion", "bump", "toCanon", "copy", "unlink", "unindex",
       "insert", "dropRow", "remove", "delete"}

\* A crash may leave any combination; the versions are one per row at least.
TypeOK ==
  /\ gen \in Gens /\ present \in BOOLEAN
  /\ storage \in Gens \cup {None} /\ index \in Gens \cup {None}
  /\ canon \in 0 .. Partial /\ vers \in [Seqs -> 0 .. Partial]
  /\ rows \subseteq RowSet
  /\ \A r, s \in rows : r.ver = s.ver => r = s
  /\ day \in 0 .. MaxDay /\ faults \in 0 .. MaxFaults /\ torn \in BOOLEAN
  /\ pc \in PC /\ at \in 0 .. MaxDay
  /\ due \subseteq rows /\ (due # {} <=> pc \in {"remove", "delete"})

Init ==
  /\ gen = 1 /\ present = TRUE
  /\ storage = None /\ index = None
  /\ canon = None /\ vers = [s \in Seqs |-> None]
  /\ rows = {}
  /\ day = 0 /\ faults = 0 /\ torn = FALSE
  /\ pc = "idle" /\ at = 0 /\ due = {}

-----------------------------------------------------------------------------
(* The client, the clock, and the download.                                *)

Delete ==
  /\ present /\ present' = FALSE
  /\ UNCHANGED <<gen, files, index, rows, day, faults, torn, pc, at, due>>

Write ==
  /\ gen < MaxGen
  /\ gen' = gen + 1 /\ present' = TRUE
  /\ UNCHANGED <<files, index, rows, day, faults, torn, pc, at, due>>

\* The same file again, with its size and mtime.
PutBack ==
  /\ ~present /\ present' = TRUE
  /\ UNCHANGED <<gen, files, index, rows, day, faults, torn, pc, at, due>>

DayPasses ==
  /\ day < MaxDay /\ day' = day + 1
  /\ UNCHANGED <<client, files, index, rows, faults, torn, pc, at, due>>

\* A new or changed file is downloaded, over the old copy if there is one.
Download ==
  /\ pc = "idle" /\ present /\ index # gen
  /\ storage' = gen /\ index' = gen
  /\ UNCHANGED <<client, canon, vers, rows, day, faults, torn, pc, at, due>>

-----------------------------------------------------------------------------
(* moveOne.                                                                *)

HasCanonical == \E r \in rows : r.ver = 0

\* Max over an empty table is NULL, read as 0; the next version is one more.
NextSeq == CHOOSE s \in 1 .. MaxVersion + 1 :
             /\ \A r \in rows : r.ver < s
             /\ s = 1 \/ \E r \in rows : r.ver = s - 1

\* A row of the index whose file is gone is dropped.
MoveMissing ==
  /\ pc = "idle" /\ ~present /\ index # None /\ storage = None
  /\ index' = None
  /\ UNCHANGED <<client, files, rows, day, faults, torn, pc, at, due>>

\* Mutant: the canonical place is taken to be free.
MoveBeginsOver ==
  /\ pc = "idle" /\ ~present /\ index # None /\ storage # None
  /\ at' = day
  /\ pc' = "toCanon"
  /\ UNCHANGED <<client, files, index, rows, day, faults, torn, due>>

MoveBegins ==
  /\ pc = "idle" /\ ~present /\ index # None /\ storage # None
  /\ NextSeq <= MaxVersion
  /\ at' = day
  /\ pc' = IF HasCanonical \/ canon # None THEN "toVersion" ELSE "toCanon"
  /\ UNCHANGED <<client, files, index, rows, day, faults, torn, due>>

\* moveFile(canonical, .versions/<seq>/...), over what is there, if there is
\* a canonical file.
ToVersion ==
  /\ pc = "toVersion"
  /\ IF canon # None
     THEN vers' = [vers EXCEPT ![NextSeq] = canon] /\ canon' = None
     ELSE UNCHANGED <<vers, canon>>
  /\ pc' = "bump"
  /\ UNCHANGED <<client, storage, index, rows, day, faults, torn, at, due>>

\* BumpCanonicalToVersion
Bump ==
  /\ pc = "bump"
  /\ rows' = {IF r.ver = 0 THEN [r EXCEPT !.ver = NextSeq] ELSE r : r \in rows}
  /\ pc' = "toCanon"
  /\ UNCHANGED <<client, files, index, day, faults, torn, at, due>>

\* moveFile(storage, canonical): a rename, or, between file systems, a copy
\* that is complete only at its end, and a removal.
RenameToCanon ==
  /\ pc = "toCanon" /\ TRUE \in Rename
  /\ canon' = storage /\ storage' = None
  /\ pc' = "unindex"
  /\ UNCHANGED <<client, vers, index, rows, day, faults, torn, at, due>>

CopyBegins ==
  /\ pc = "toCanon" /\ FALSE \in Rename
  /\ canon' = Partial
  /\ pc' = "copy"
  /\ UNCHANGED <<client, storage, vers, index, rows, day, faults, torn, at, due>>

CopyEnds ==
  /\ pc = "copy"
  /\ canon' = storage
  /\ pc' = "unlink"
  /\ UNCHANGED <<client, storage, vers, index, rows, day, faults, torn, at, due>>

Unlink ==
  /\ pc = "unlink"
  /\ storage' = None
  /\ pc' = "unindex"
  /\ UNCHANGED <<client, canon, vers, index, rows, day, faults, torn, at, due>>

\* DeleteFileByNorm
Unindex ==
  /\ pc = "unindex"
  /\ index' = None
  /\ pc' = "insert"
  /\ UNCHANGED <<client, files, rows, day, faults, torn, at, due>>

\* Mutant: the row does not say that the file is the canonical one.
InsertVersioned ==
  /\ pc = "insert"
  /\ rows' = rows \cup {[ver |-> NextSeq, at |-> at, file |-> canon]}
  /\ pc' = "idle" /\ at' = 0
  /\ UNCHANGED <<client, files, index, day, faults, torn, due>>

\* InsertTrash
Insert ==
  /\ pc = "insert"
  /\ rows' = rows \cup {[ver |-> 0, at |-> at, file |-> canon]}
  /\ pc' = "idle" /\ at' = 0
  /\ UNCHANGED <<client, files, index, day, faults, torn, due>>

Fault ==
  /\ faults < MaxFaults /\ faults' = faults + 1
  /\ torn' = (torn \/ pc = "bump")

\* Any of these operations may fail: moveOne gives up ...
MoveFails ==
  /\ pc \in {"toVersion", "bump", "toCanon", "copy", "unlink", "unindex", "insert"}
  /\ Fault
  /\ pc' = "dropRow"
  /\ UNCHANGED <<client, files, index, rows, day, at, due>>

\* ... and MoveDeleted drops the index row all the same.
DropRow ==
  /\ pc = "dropRow"
  /\ index' = None
  /\ pc' = "idle" /\ at' = 0
  /\ UNCHANGED <<client, files, rows, day, faults, torn, due>>

-----------------------------------------------------------------------------
(* Cleanup.                                                                *)

Expired(r) == r.at + Retention < day

\* Mutant: what was trashed on the last day of its term goes, too.
CleanupBeginsEarly ==
  /\ pc = "idle"
  /\ \E r \in rows : r.at + Retention <= day /\ due' = {r}
  /\ pc' = "remove"
  /\ UNCHANGED <<client, files, index, rows, day, faults, torn, at>>

CleanupBegins ==
  /\ pc = "idle"
  /\ \E r \in rows : Expired(r) /\ due' = {r}
  /\ pc' = "remove"
  /\ UNCHANGED <<client, files, index, rows, day, faults, torn, at>>

\* Mutant: the file is looked for in the canonical place.
RemoveCanonical ==
  /\ pc = "remove"
  /\ canon' = None
  /\ pc' = "delete"
  /\ UNCHANGED <<client, storage, vers, index, rows, day, faults, torn, at, due>>

\* os.Remove of the row's file; a missing file is not an error.
Remove ==
  /\ pc = "remove"
  /\ \E r \in due :
       IF r.ver = 0 THEN canon' = None /\ UNCHANGED vers
       ELSE vers' = [vers EXCEPT ![r.ver] = None] /\ UNCHANGED canon
  /\ pc' = "delete"
  /\ UNCHANGED <<client, storage, index, rows, day, faults, torn, at, due>>

\* Another error is logged, and the row is deleted all the same.
RemoveFails ==
  /\ pc = "remove" /\ Fault
  /\ pc' = "delete"
  /\ UNCHANGED <<client, files, index, rows, day, at, due>>

\* DeleteTrash
DeleteRow ==
  /\ pc = "delete"
  /\ rows' = rows \ due
  /\ pc' = "idle" /\ due' = {}
  /\ UNCHANGED <<client, files, index, day, faults, torn, at>>

Crash ==
  /\ pc # "idle" /\ Fault
  /\ pc' = "idle" /\ at' = 0 /\ due' = {}
  /\ UNCHANGED <<client, files, index, rows, day>>

Move ==
  \/ MoveMissing \/ MoveBegins \/ ToVersion \/ Bump
  \/ RenameToCanon \/ CopyBegins \/ CopyEnds \/ Unlink
  \/ Unindex \/ Insert \/ DropRow

Cleanup == CleanupBegins \/ Remove \/ DeleteRow

Next ==
  \/ Delete \/ Write \/ PutBack \/ DayPasses \/ Download
  \/ Move \/ MoveFails
  \/ Cleanup \/ RemoveFails
  \/ Crash

Spec == Init /\ [][Next]_vars

\* Cycles come again and again, and end: each lists, downloads, moves and
\* cleans up.
FairSpec == Spec /\ WF_vars(Download) /\ WF_vars(Move) /\ WF_vars(Cleanup)

-----------------------------------------------------------------------------
(* Properties.                                                             *)

PlaceOf(r) == IF r.ver = 0 THEN canon ELSE vers[r.ver]

(* Each row that has not expired finds its file where the code looks for   *)
(* it, whatever crashes and fails elsewhere; between the rename of a       *)
(* canonical file and the update of its row the file is under the number   *)
(* the row will get.  A crash just there leaves it so, until a purge of    *)
(* the highest version lets the next move choose another number.           *)
RowsFindTheirFiles ==
  torn \/ \A r \in rows :
            \/ Expired(r)
            \/ PlaceOf(r) = r.file
            \/ pc = "bump" /\ r.ver = 0 /\ vers[NextSeq] = r.file

(* The contents that are kept somewhere on the server.                     *)
Kept == ({storage, canon} \cup {vers[s] : s \in Seqs}) \ {None, Partial}

(* A file is lost only by being replaced by a newer download, by the       *)
(* expiry of its row, or, after a crash or an error, for want of a row     *)
(* that finds it: no step of moveOne destroys the file it moves, or one it *)
(* makes room for.                                                         *)
LostOnlyWhenDue ==
  [][\A c \in Kept \ Kept' :
       \/ c = storage /\ storage' # None
       \/ \E r \in rows : r.file = c /\ Expired(r)
       \/ faults > 0 /\ (torn \/ \A r \in rows : r.file # c)]_vars

\* Files nobody will find or remove: in the trash without a row, and in the
\* storage without one in the index.
NoRow == {v \in 0 .. MaxVersion :
            /\ IF v = 0 THEN canon # None ELSE vers[v] # None
            /\ \A r \in rows : r.ver # v}
Stray == IF storage # None /\ index = None THEN 1 ELSE 0
LeftBehind == Cardinality(NoRow) + Stray

(* What a crash or an error leaves behind does not add up in the moves,    *)
(* versions and purges that follow: at most two files for each (the file   *)
(* itself, which loses its index row though it could not be moved, and a   *)
(* copy of it or the version it made room for), and none without.          *)
FewLeftBehind == pc = "idle" => LeftBehind <= 2 * faults

(* A file that reappears on the client is downloaded again.                *)
ReappearedIsDownloaded == present ~> (~present \/ storage = gen)

=============================================================================
