------------------------------ MODULE Restore ------------------------------
(***************************************************************************)
(* The restoration of one file: Restore, restoreWorker and sendRestoreFile *)
(* of internal/server/restore.go, the listener of internal/client/         *)
(* client.go, and handlePut of internal/client/fileserver.go.              *)
(*                                                                         *)
(* Every attempt has a connection of its own, and the client a goroutine   *)
(* for each.  When the server gives an attempt up and closes its           *)
(* connection, that goroutine may still have frames to read, and goes on   *)
(* with them beside the goroutine of the next attempt.  Files are inodes,  *)
(* since an open file is written whatever its name is by then.  A block is *)
(* a pair of a version and an index; versions are ordered by mtime, and    *)
(* all have Blocks blocks.                                                 *)
(***************************************************************************)
EXTENDS Config, Integers, Sequences, FiniteSets

CONSTANTS
  Configs,    \* pairs of settings [server, client] to look at
  Blocks,     \* length of the file
  Versions,   \* 1 .. N; what the client's users write
  MaxConn,    \* bound on connections
  MaxRuns,    \* bound on runs of the command
  MaxFaults   \* bound on what breaks: lists, connections, processes

ASSUME ConfigsAssumption ==
  \A c \in Configs :
    ValidServer(c.server) /\ ValidClient(c.client) /\ c.server.retries \in Nat
ASSUME BoundsAssumption ==
  /\ Blocks \in Nat \ {0} /\ MaxConn \in Nat \ {0}
  /\ MaxRuns \in Nat /\ MaxFaults \in Nat
ASSUME VersionsAssumption ==
  IsFiniteSet(Versions) /\ Versions # {} /\ Versions = 1 .. Cardinality(Versions)

VARIABLES
  config,
  \* the server
  force,      \* the flag -force
  stored,     \* the version in STORAGE_DIR, and in its row
  listed,     \* mtime in client_files, or None
  row,        \* mtime of the row the walk of the index has read
  spc,        \* where the worker is
  attempt,
  ver,        \* the version sendRestoreFile has opened
  sent,       \* blocks sent or resumed
  runs,
  \* the connections
  conns,      \* how many were made; the last is the current one
  up,         \* frames to the client, per connection
  down,       \* answers to the server
  closed,     \* the server has closed its end
  \* the client
  inode,      \* blocks and mtime of each inode
  full, part, meta,   \* the file, its .part and .meta
  h,          \* the goroutine of each connection
  \* the environment
  faults,
  saw,        \* history: mtime the check has compared, or None
  seen,       \* history: saw of the run that made the connection
  overlap     \* history: two goroutines were busy with the file at a time

job == <<config, force, row, runs, saw>>
try == <<attempt, ver, sent>>
link == <<conns, up, down, closed, seen>>
files == <<inode, full, part, meta>>
client == <<files, h>>
server == <<job, try, spc, stored, listed>>
others == <<job, stored, listed, client, overlap>>   \* than the worker's own
vars == <<server, link, client, faults, overlap>>

None == 0
Now == Cardinality(Versions) + 1     \* the mtime of what was just written
Hole == <<None, None>>
Block == (Versions \X (1 .. Blocks)) \cup {Hole}
Inodes == 1 .. MaxConn + 3
Conns == 1 .. MaxConn
Blank == [data |-> <<>>, mtime |-> None]
Content(v) == [i \in 1 .. Blocks |-> <<v, i>>]
Copy(v) == [data |-> Content(v), mtime |-> v]

Requests ==
  [kind : {"PUT"}, block : Versions \X {0}]
    \cup [kind : {"DATA"}, block : Versions \X (1 .. Blocks)]
    \cup [kind : {"END"}, block : {Hole}]
Answers == [kind : {"RESUME", "OK", "BAD"}, offset : 0 .. Blocks]

SPC == {"idle", "list", "check", "dial", "put", "resume", "data", "final",
        "ok", "failed", "skipped", "out"}
HPC == {"none", "idle", "open", "recv", "end", "times", "stuck", "gone"}

Over == {"idle", "ok", "failed", "skipped", "out"}

\* handlePut is under way in these states.
Busy(c) == h[c].pc \in {"open", "recv", "end", "times", "stuck"}

NoHandler == [pc |-> "none", ver |-> None, fd |-> None, pos |-> 0]
Handlers == [pc : HPC, ver : Versions \cup {None}, fd : Inodes \cup {None}, pos : 0 .. Blocks]

TypeOK ==
  /\ config \in Configs /\ force \in BOOLEAN
  /\ stored \in Versions
  /\ {listed, saw, row} \subseteq Versions \cup {None, Now}
  /\ spc \in SPC
  /\ attempt \in 0 .. config.server.retries
  /\ ver \in Versions \cup {None} /\ sent \in 0 .. Blocks
  /\ runs \in 0 .. MaxRuns /\ conns \in 0 .. MaxConn /\ faults \in 0 .. MaxFaults
  /\ up \in [Conns -> Seq(Requests)] /\ down \in [Conns -> Seq(Answers)]
  /\ \A c \in Conns : Len(up[c]) <= Blocks + 2 /\ Len(down[c]) <= Blocks + 3
  /\ closed \in [Conns -> BOOLEAN] /\ seen \in [Conns -> Versions \cup {None, Now}]
  /\ inode \in [Inodes -> [data : Seq(Block), mtime : 0 .. Now]]
  /\ full \in Inodes \cup {None} /\ part \in Inodes \cup {None}
  /\ meta \in Versions \cup {None}
  /\ h \in [Conns -> Handlers]
  /\ \A c \in Conns : h[c].pc \in {"recv", "end"} => h[c].fd \in Inodes
  /\ overlap \in BOOLEAN

Init ==
  /\ config \in Configs /\ force \in BOOLEAN
  /\ stored = 1 /\ listed = None /\ row = None /\ saw = None
  /\ spc = "idle" /\ attempt = 0 /\ ver = None /\ sent = 0
  /\ runs = 0 /\ conns = 0 /\ faults = 0 /\ overlap = FALSE
  /\ up = [c \in Conns |-> <<>>] /\ down = [c \in Conns |-> <<>>]
  /\ closed = [c \in Conns |-> FALSE]
  /\ h = [c \in Conns |-> NoHandler] /\ seen = [c \in Conns |-> None]
  /\ part = None /\ meta = None
  /\ \/ full = None /\ inode = [i \in Inodes |-> Blank]
     \/ /\ full = 1
        /\ \E v \in Versions : inode = [i \in Inodes |-> IF i = 1 THEN Copy(v) ELSE Blank]

Fault == faults < MaxFaults /\ faults' = faults + 1

-----------------------------------------------------------------------------
(* The command.                                                            *)

Mtime == IF full = None THEN None ELSE inode[full].mtime

Begin ==
  /\ spc \in Over /\ runs < MaxRuns
  /\ runs' = runs + 1
  /\ spc' = "list" /\ attempt' = 0 /\ ver' = None /\ sent' = 0 /\ saw' = None
  /\ UNCHANGED <<client, link, config, force, row, stored, listed, faults, overlap>>

\* The client's list, and the first page of the index.
List ==
  /\ spc = "list"
  /\ spc' = "check"
  /\ listed' = Mtime /\ row' = stored
  /\ UNCHANGED <<client, link, try, config, force, runs, saw, stored, faults, overlap>>

\* Without a list the command goes on: the table is empty, or stops short of
\* the file.
ListFails ==
  /\ spc = "list" /\ Fault
  /\ spc' = "check"
  /\ listed' = None /\ row' = stored
  /\ UNCHANGED <<client, link, try, config, force, runs, saw, stored, overlap>>

NoControl ==
  /\ spc = "list" /\ Fault
  /\ spc' = "out"
  /\ UNCHANGED <<others, link, try>>

\* Mutant: the tolerance is taken from the wrong side.
CheckReversed ==
  /\ spc = "check"
  /\ saw' = listed
  /\ IF ~force /\ listed # None /\ listed < row
     THEN spc' = "skipped" /\ UNCHANGED attempt
     ELSE spc' = "dial" /\ attempt' = 1
  /\ UNCHANGED <<client, link, config, force, row, runs, ver, sent, stored, listed,
                 faults, overlap>>

\* Not without -force, if the list has a newer file.
Check ==
  /\ spc = "check"
  /\ saw' = listed
  /\ IF ~force /\ listed > row
     THEN spc' = "skipped" /\ UNCHANGED attempt
     ELSE spc' = "dial" /\ attempt' = 1
  /\ UNCHANGED <<client, link, config, force, row, runs, ver, sent, stored, listed,
                 faults, overlap>>

\* Mutant: one attempt too many.
AgainOnceMore ==
  IF attempt <= config.server.retries
  THEN spc' = "dial" /\ attempt' = attempt + 1
  ELSE spc' = "failed" /\ UNCHANGED attempt

\* The next attempt, on a new connection.
Again ==
  IF attempt < config.server.retries
  THEN spc' = "dial" /\ attempt' = attempt + 1
  ELSE spc' = "failed" /\ UNCHANGED attempt

\* Slots of the listener that data connections have.
Slots == Cardinality({c \in Conns : h[c].pc \notin {"none", "gone"}})

(* The control connection has one too, until its next read at the client   *)
(* times out: the command sends no pings, so that the client closes it     *)
(* IO_TIMEOUT after the list.  When that is, is left open at each dial.    *)
FreeSlot == Slots + 1 < config.client.connections

Dial ==
  /\ spc = "dial" /\ Slots < config.client.connections /\ conns < MaxConn
  /\ conns' = conns + 1
  /\ h' = [h EXCEPT ![conns'] = [@ EXCEPT !.pc = "idle"]]
  /\ seen' = [seen EXCEPT ![conns'] = saw]
  /\ spc' = "put"
  /\ UNCHANGED <<job, files, try, stored, listed, up, down, closed, faults, overlap>>

\* Mutant: the attempt is not counted.
DialFailsUncounted ==
  /\ spc = "dial"
  /\ IF FreeSlot /\ conns < MaxConn THEN Fault ELSE UNCHANGED faults
  /\ UNCHANGED <<others, link, try, spc>>

\* No slot in CONNECT_TIMEOUT, or no connection.
DialFails ==
  /\ spc = "dial"
  /\ IF FreeSlot /\ conns < MaxConn THEN Fault ELSE UNCHANGED faults
  /\ Again
  /\ UNCHANGED <<others, link, ver, sent>>

Send(frame) == up' = [up EXCEPT ![conns] = Append(@, frame)]

\* Mutant: the request has the time of the job.
PutJobsTime ==
  /\ spc = "put"
  /\ ver' = stored
  /\ Send([kind |-> "PUT", block |-> <<row, 0>>])
  /\ spc' = "resume"
  /\ UNCHANGED <<others, attempt, sent, conns, seen, down, closed, faults>>

\* sendRestoreFile opens the file it finds now.
Put ==
  /\ spc = "put"
  /\ ver' = stored
  /\ Send([kind |-> "PUT", block |-> <<stored, 0>>])
  /\ spc' = "resume"
  /\ UNCHANGED <<others, attempt, sent, conns, seen, down, closed, faults>>

Answered(kinds) == down[conns] # <<>> /\ Head(down[conns]).kind \in kinds

Receive == down' = [down EXCEPT ![conns] = Tail(@)]

Resume ==
  /\ spc = "resume" /\ Answered({"RESUME"})
  /\ sent' = LET r == Head(down[conns]).offset IN IF r > Blocks THEN 0 ELSE r
  /\ Receive
  /\ spc' = "data"
  /\ UNCHANGED <<others, attempt, ver, conns, seen, up, closed, faults>>

Data ==
  /\ spc = "data" /\ sent < Blocks
  /\ sent' = sent + 1
  /\ Send([kind |-> "DATA", block |-> <<ver, sent'>>])
  /\ UNCHANGED <<others, attempt, ver, spc, conns, seen, down, closed, faults>>

End ==
  /\ spc = "data" /\ sent = Blocks
  /\ Send([kind |-> "END", block |-> Hole])
  /\ spc' = "final"
  /\ UNCHANGED <<others, try, conns, seen, down, closed, faults>>

Closes ==
  /\ closed' = [closed EXCEPT ![conns] = TRUE]
  /\ down' = [down EXCEPT ![conns] = <<>>]

Final ==
  /\ spc = "final" /\ Answered({"OK"})
  /\ Closes
  /\ spc' = "ok"
  /\ UNCHANGED <<others, try, conns, seen, up, faults>>

\* An answer other than the one expected, a deadline, or a connection the
\* client has left; only the deadline needs something to go wrong.
Broken ==
  \/ spc \in {"resume", "final"} /\ Answered({"BAD"})
  \/ down[conns] = <<>> /\ h[conns].pc \in {"gone", "stuck"}

GiveUp ==
  /\ spc \in {"put", "resume", "data", "final"}
  /\ IF Broken THEN UNCHANGED faults ELSE Fault
  /\ Closes
  /\ Again
  /\ UNCHANGED <<others, ver, sent, conns, seen, up>>

\* The command is interrupted or killed.
Killed ==
  /\ spc \notin Over /\ Fault
  /\ spc' = "out"
  /\ IF conns = 0 THEN UNCHANGED <<closed, down>> ELSE Closes
  /\ UNCHANGED <<others, try, conns, seen, up>>

-----------------------------------------------------------------------------
(* The client's goroutine for connection c.                                *)

Reads(c, kind) == up[c] # <<>> /\ Head(up[c]).kind = kind

Taken(c) == up' = [up EXCEPT ![c] = Tail(@)]

\* Nobody reads an answer on a connection the server has closed.
Answer(c, kind, offset) ==
  down' = IF closed[c] THEN down
          ELSE [down EXCEPT ![c] = Append(@, [kind |-> kind, offset |-> offset])]

Step(c, pc) == h' = [h EXCEPT ![c].pc = pc]

Idle(c) == h' = [h EXCEPT ![c] = [NoHandler EXCEPT !.pc = "idle"]]

PartSize == IF part = None THEN 0 ELSE Len(inode[part].data)

\* Mutant: what is there is resumed whatever it is.
HandlePutBlindly(c) ==
  /\ h[c].pc = "idle" /\ Reads(c, "PUT")
  /\ h' = [h EXCEPT ![c] = [@ EXCEPT !.pc = "open", !.ver = Head(up[c]).block[1],
                                     !.pos = PartSize]]
  /\ Answer(c, "RESUME", PartSize)
  /\ Taken(c)
  /\ overlap' = (overlap \/ \E d \in Conns \ {c} : Busy(d))
  /\ UNCHANGED <<server, files, conns, seen, closed, faults>>

(* Stat of .part, and if it is not empty a look at .meta: what was begun   *)
(* of another version is removed.                                          *)
HandlePut(c) ==
  /\ h[c].pc = "idle" /\ Reads(c, "PUT")
  /\ LET v == Head(up[c]).block[1]
         changed == PartSize > 0 /\ (meta # v \/ PartSize > Blocks)
         resume == IF changed THEN 0 ELSE PartSize
     IN /\ IF changed
           THEN part' = None /\ meta' = None
           ELSE UNCHANGED <<part, meta>>
        /\ h' = [h EXCEPT ![c] = [@ EXCEPT !.pc = "open", !.ver = v, !.pos = resume]]
        /\ Answer(c, "RESUME", resume)
  /\ Taken(c)
  /\ overlap' = (overlap \/ \E d \in Conns \ {c} : Busy(d))
  /\ UNCHANGED <<server, conns, seen, closed, inode, full, faults>>

\* Truncate, which may also lengthen.
Truncated(data, n) ==
  [i \in 1 .. n |-> IF i <= Len(data) THEN data[i] ELSE Hole]

\* An inode without a name that nobody has open.
Unused(i) == i # full /\ i # part /\ \A c \in Conns : ~(Busy(c) /\ h[c].fd = i)

NewInode == CHOOSE i \in Inodes : Unused(i)

\* Mutant: the file itself is opened.
OpenInPlace(c) ==
  /\ h[c].pc = "open" /\ full # None
  /\ meta' = h[c].ver
  /\ inode' = [inode EXCEPT ![full] = [data |-> Truncated(@.data, h[c].pos),
                                       mtime |-> Now]]
  /\ h' = [h EXCEPT ![c] = [@ EXCEPT !.pc = "recv", !.fd = full]]
  /\ part' = full
  /\ UNCHANGED <<server, link, full, faults, overlap>>

(* The .meta, whose error is ignored: what was there is left as it was, or *)
(* truncated and no longer readable.  Then .part is opened or created.     *)
Open(c) ==
  /\ h[c].pc = "open"
  /\ \/ meta' = h[c].ver /\ UNCHANGED faults
     \/ meta' \in {meta, None} /\ Fault
  /\ LET i == IF part = None THEN NewInode ELSE part
         data == IF part = None THEN <<>> ELSE inode[part].data
     IN /\ part' = i
        /\ inode' = [inode EXCEPT ![i] = [data |-> Truncated(data, h[c].pos),
                                          mtime |-> Now]]
        /\ h' = [h EXCEPT ![c] = [@ EXCEPT !.pc = "recv", !.fd = i]]
  /\ UNCHANGED <<server, link, full, overlap>>

Written(data, n, b) ==
  [i \in 1 .. (IF Len(data) < n THEN n ELSE Len(data)) |->
     IF i = n THEN b ELSE IF i <= Len(data) THEN data[i] ELSE Hole]

\* limiter.wait, then the write.
Receives(c) ==
  /\ h[c].pc = "recv" /\ Reads(c, "DATA")
  /\ Fits(config.server, config.client)
  /\ h[c].pos < Blocks
  /\ LET n == h[c].pos + 1
     IN /\ inode' = [inode EXCEPT ![h[c].fd] =
                       [data |-> Written(@.data, n, Head(up[c]).block), mtime |-> Now]]
        /\ h' = [h EXCEPT ![c].pos = n]
  /\ Taken(c)
  /\ UNCHANGED <<server, conns, seen, down, closed, full, part, meta, faults, overlap>>

\* The wait does not return.
Sticks(c) ==
  /\ h[c].pc = "recv" /\ Reads(c, "DATA")
  /\ ~Fits(config.server, config.client)
  /\ Step(c, "stuck")
  /\ UNCHANGED <<server, link, files, faults, overlap>>

ReceivesEnd(c) ==
  /\ h[c].pc = "recv" /\ Reads(c, "END")
  /\ Step(c, "end")
  /\ Taken(c)
  /\ UNCHANGED <<server, files, conns, seen, down, closed, faults, overlap>>

\* The size is not that of the request: .part and .meta are removed.
SizeWrong(c) ==
  /\ h[c].pc = "end"
  /\ part = None \/ PartSize # Blocks
  /\ part' = None /\ meta' = None
  /\ Answer(c, "BAD", 0)
  /\ Idle(c)
  /\ UNCHANGED <<server, conns, seen, up, closed, inode, full, faults, overlap>>

\* The file that has the name .part by now gets the name of the file.
Renames(c) ==
  /\ h[c].pc = "end" /\ part # None /\ PartSize = Blocks
  /\ full' = part /\ part' = None
  /\ Step(c, "times")
  /\ UNCHANGED <<server, link, inode, meta, faults, overlap>>

(* Chtimes, on what has the name by now and with its error ignored; then   *)
(* the removal of .meta, and the answer.                                   *)
SetsTimes(c) ==
  /\ h[c].pc = "times"
  /\ \/ inode' = [inode EXCEPT ![full].mtime = h[c].ver] /\ UNCHANGED faults
     \/ UNCHANGED inode /\ Fault
  /\ meta' = None
  /\ Answer(c, "OK", 0)
  /\ Idle(c)
  /\ UNCHANGED <<server, conns, seen, up, closed, full, part, overlap>>

Goes(c) ==
  /\ h' = [h EXCEPT ![c] = [NoHandler EXCEPT !.pc = "gone"]]
  /\ up' = [up EXCEPT ![c] = <<>>]

\* Mutant: a connection the server has closed is read again.
LeavesUnlessClosed(c) ==
  /\ h[c].pc \in {"idle", "recv"} /\ ~closed[c] /\ Fault
  /\ Goes(c)
  /\ UNCHANGED <<server, files, conns, seen, down, closed, overlap>>

\* A read fails, or the first answer cannot be written: the server has closed,
\* or the deadline passes.
Leaves(c) ==
  /\ h[c].pc \in {"idle", "open", "recv"}
  /\ IF closed[c] THEN UNCHANGED faults ELSE up[c] = <<>> /\ Fault
  /\ Goes(c)
  /\ UNCHANGED <<server, files, conns, seen, down, closed, overlap>>

(* A call of the file system fails: the request ends with an error, .part  *)
(* stays, and the goroutine returns to its loop with frames of the stream  *)
(* still to come.                                                          *)
LocalError(c) ==
  /\ Fault
  /\ \/ h[c].pc = "open" /\ meta' = h[c].ver /\ UNCHANGED up
     \/ h[c].pc = "recv" /\ Reads(c, "DATA") /\ Taken(c) /\ UNCHANGED meta
     \/ h[c].pc = "end" /\ UNCHANGED <<up, meta>>
  /\ Answer(c, "BAD", 0)
  /\ Idle(c)
  /\ UNCHANGED <<server, conns, seen, closed, inode, full, part, overlap>>

\* The loop finds such a frame, and answers it with an error of its own.
Unsupported(c) ==
  /\ h[c].pc = "idle" /\ up[c] # <<>> /\ ~Reads(c, "PUT")
  /\ Answer(c, "BAD", 0)
  /\ Taken(c)
  /\ UNCHANGED <<server, client, conns, seen, closed, faults, overlap>>

\* The client's process dies and is started again.
ClientRestarts ==
  /\ \E c \in Conns : h[c].pc \notin {"none", "gone"}
  /\ Fault
  /\ h' = [c \in Conns |-> IF h[c].pc = "none" THEN h[c]
                           ELSE [NoHandler EXCEPT !.pc = "gone"]]
  /\ up' = [c \in Conns |-> <<>>]
  /\ UNCHANGED <<server, files, conns, seen, down, closed, overlap>>

-----------------------------------------------------------------------------
(* What goes on beside a restoration.                                      *)

\* A user writes a new version of the file, perhaps between its replacement
\* and Chtimes.
Edit ==
  /\ Fault
  /\ \E v \in Versions :
       /\ v > stored /\ (Mtime # Now => v > Mtime)
       /\ full # None => \A w \in Versions : inode[full].data = Content(w) => v > w
       /\ full' = NewInode
       /\ inode' = [inode EXCEPT ![NewInode] = Copy(v)]
  /\ UNCHANGED <<server, link, part, meta, h, overlap>>

\* The service downloads the client's file, complete or not at all.  (A copy
\* whose time could not be set is not followed into the storage.)
Download ==
  /\ full # None /\ inode[full].mtime \in Versions /\ stored < inode[full].mtime
  /\ inode[full].data = Content(inode[full].mtime)
  /\ stored' = inode[full].mtime
  /\ UNCHANGED <<job, client, link, try, spc, listed, faults, overlap>>

\* A cycle of the service takes a list of its own into the same table.
ServiceLists ==
  /\ Fault
  /\ listed' \in {None, Mtime}
  /\ UNCHANGED <<job, client, link, try, spc, stored, overlap>>

Command ==
  \/ List \/ Check \/ Dial \/ DialFails \/ Put \/ Resume \/ Data \/ End \/ Final
  \/ GiveUp

Handler(c) ==
  \/ HandlePut(c) \/ Open(c) \/ Receives(c) \/ Sticks(c) \/ ReceivesEnd(c)
  \/ SizeWrong(c) \/ Renames(c) \/ SetsTimes(c) \/ Leaves(c)
  \/ Unsupported(c)

Next ==
  \/ Begin
  \/ Command \/ ListFails \/ NoControl \/ Killed
  \/ \E c \in Conns : Handler(c) \/ LocalError(c)
  \/ ClientRestarts \/ Edit \/ Download \/ ServiceLists

Spec == Init /\ [][Next]_vars

(* Both processes run; a deadline ends every wait of the worker and every  *)
(* read of a goroutine of the client.                                      *)
FairSpec ==
  /\ Spec
  /\ WF_vars(Command)
  /\ \A c \in Conns : WF_vars(Handler(c))

-----------------------------------------------------------------------------
(* Properties.                                                             *)

Complete(i) == \E v \in Versions : inode[i].data = Content(v)

(* A file the command counts as restored is on the client as it was sent,  *)
(* through breaks, resumption and changes of the stored version between    *)
(* attempts, as long as no goroutine left over by an earlier attempt was   *)
(* busy with it too; or a user has written a newer one since, which no     *)
(* restoration under way has replaced or spoilt.  The time is that of the  *)
(* version sent, unless something went wrong: Chtimes may have failed      *)
(* without a word.  What the user wrote has its own time, or, if written   *)
(* just before Chtimes, the old time of the version sent.                  *)
RestoredIsSent ==
  spc = "ok" /\ ~overlap =>
    \E v \in Versions :
      /\ inode[full].data = Content(v)
      /\ \/ v = ver /\ Mtime = ver
         \/ v = ver /\ Mtime = Now /\ faults > 0
         \/ v > ver /\ Mtime \in {v, ver}

(* Until the new file is complete the old one is there: the client's file  *)
(* is never a part of a file, whatever breaks in however many attempts, as *)
(* long as no two goroutines of the client were busy with it at a time.    *)
ReplacedAtOnce == ~overlap /\ full # None => Complete(full)

\* A goroutine that waits for frames nobody will send.
HasNoMore(c) == h[c].pc \in {"open", "recv"} /\ closed[c] /\ up[c] = <<>>

(* A goroutine that resumes keeps only blocks of the version it has been    *)
(* asked for, though the stored version may change between attempts and    *)
(* the note of the version in .meta may not get written; again as long as  *)
(* no two were busy at a time.  One that has read the request of an        *)
(* attempt long given up may find another version, but nothing to add to   *)
(* it.                                                                     *)
ResumesSameVersion ==
  \A c \in Conns : h[c].pc = "open" /\ h[c].pos > 0 /\ ~HasNoMore(c) /\ ~overlap =>
    /\ part # None
    /\ \A i \in 1 .. h[c].pos : inode[part].data[i] = <<h[c].ver, i>>

\* A step gives the name of the file to an older version.
Replaces(v) ==
  /\ full' # full /\ full # None /\ part # None /\ full' = part
  /\ inode[full].mtime \in Versions /\ inode[full].mtime > v

(* Without -force, a file that the check saw in the list and that is newer *)
(* than the stored one is not replaced, however long the transfer takes,   *)
(* whatever its retries, and though the command may have been killed and   *)
(* run again since (another run is beyond the bound of the run of TLC; the *)
(* proof has any number).                                                  *)
NewerKept ==
  [][\A c \in Conns : Replaces(h[c].ver) /\ h[c].pc = "end" /\ ~force
       => inode[full].mtime # seen[c]]_vars

(* A restoration ends, whatever breaks.                                    *)
CommandEnds == (spc = "list") ~> (spc \in Over)

(* The client gives the slot of a closed connection back, so that later    *)
(* connections find one; unless its bandwidth limit is below a frame.      *)
SlotsFreed ==
  \A c \in Conns : closed[c] ~> (h[c].pc \in {"none", "gone", "stuck"})

(* Without -force a newer file of the client is not overwritten.           *)
NewerNeedsForce ==
  [][\A c \in Conns : Replaces(h[c].ver) /\ h[c].pc = "end" => force]_vars

=============================================================================
