------------------------------- MODULE Control -------------------------------
(***************************************************************************)
(* A cycle seen from its control connection: RunCycle and pingLoop of      *)
(* internal/server/cycle.go, the requests of internal/server/control.go,   *)
(* the frames of internal/tlsconn/conn.go, the cycle's row and its events  *)
(* in the store, and the report of internal/server/report.go.              *)
(*                                                                         *)
(* The cycle and its ping goroutine use one connection under a mutex.  The *)
(* client answers requests in order, so the answers that are still to be   *)
(* read are a sequence.  A reader whose deadline passes first gives up,    *)
(* but its answer is not taken back: it comes late, and the next reader    *)
(* finds it.  The frame's kind is all that ReadExpect looks at.            *)
(***************************************************************************)
EXTENDS Naturals, Sequences

CONSTANTS
  Retries,    \* RETRY_COUNT
  MaxPasses,  \* SYNC_MAX_PASSES
  MaxEvents,  \* bound on the events of a cycle
  MaxLate     \* bound on the answers a ping finds still to be read

VARIABLES
  cpc,        \* where RunCycle is
  attempt,    \* of connectControl
  pass,
  conn,       \* the connection: "none", "up" or "dead"
  wire,       \* answers asked for and not read yet
  ping,       \* the ping goroutine: "off", "idle", "read"
  table,      \* what loadList has put into client_files
  row,        \* the last cycle's row: "RUNNING", or "done" with its status
  unsent,     \* events of this cycle with sent = 0
  listed,     \* how many of them the report has
  ctxDone     \* the stop signal was given (belongs to the scheduler)

cycleVars == <<attempt, pass>>
linkVars == <<conn, wire>>
eventVars == <<unsent, listed>>
controlVars == <<cpc, cycleVars, linkVars, ping, table, row, eventVars>>

CPC == {"off", "connect", "disk", "alarms", "pass", "list",
        "listRead", "work", "finish", "report", "mark", "close"}

Frame == [kind : {"DISK", "PONG", "BATCH", "LAST"}, late : BOOLEAN]

ControlTypeOK ==
  /\ cpc \in CPC
  /\ attempt \in 0 .. Retries /\ pass \in 0 .. MaxPasses
  /\ conn \in {"none", "up", "dead"} /\ ping \in {"off", "idle", "read"}
  /\ wire \in Seq(Frame) /\ Len(wire) <= MaxLate + 2
  /\ table \in {"old", "empty", "begun", "full", "wrong"}
  /\ row \in {"RUNNING", "done"}
  /\ unsent \in 0 .. MaxEvents /\ listed \in 0 .. MaxEvents

\* What a process has in memory; and client_files, which stays in the
\* database but is emptied before it is read again.
Forgets ==
  /\ cpc' = "off" /\ attempt' = 0 /\ pass' = 0
  /\ conn' = "none" /\ wire' = <<>> /\ ping' = "off"
  /\ table' = "old" /\ unsent' = 0 /\ listed' = 0

ControlInit ==
  /\ cpc = "off" /\ attempt = 0 /\ pass = 0
  /\ conn = "none" /\ wire = <<>> /\ ping = "off"
  /\ table = "old" /\ row = "done"
  /\ unsent = 0 /\ listed = 0

-----------------------------------------------------------------------------
(* The connection.                                                         *)

\* The mutex of type control: held over a request and its answer.
MutexFree == cpc # "listRead" /\ ping # "read"

Fresh(kind) == [kind |-> kind, late |-> FALSE]

Asks(answers) ==
  /\ conn = "up"
  /\ wire' = wire \o answers
  /\ UNCHANGED conn

\* ReadMsg returns the next frame, whatever it is.
Reads ==
  /\ conn = "up" /\ wire # <<>>
  /\ wire' = Tail(wire)
  /\ UNCHANGED conn

Got(kind) == wire # <<>> /\ Head(wire).kind = kind

\* The deadline passes, or the connection is dead: nothing is read.
ReadsNothing ==
  /\ wire' = [i \in DOMAIN wire |-> [wire[i] EXCEPT !.late = TRUE]]
  /\ UNCHANGED conn

ConnDies ==
  /\ conn = "up"
  /\ conn' = "dead" /\ wire' = <<>>
  /\ UNCHANGED <<cpc, cycleVars, ping, table, row, eventVars>>

-----------------------------------------------------------------------------
(* RunCycle.                                                               *)

\* InsertEvent
Event == unsent' = IF unsent < MaxEvents THEN unsent + 1 ELSE unsent

\* CreateCycle
Begin ==
  /\ cpc' = "connect" /\ attempt' = 0 /\ pass' = 0
  /\ conn' = "none" /\ wire' = <<>> /\ ping' = "off"
  /\ row' = "RUNNING" /\ table' = "old" /\ unsent' = 0 /\ listed' = 0

ConnectOk ==
  /\ cpc = "connect" /\ ~ctxDone
  /\ conn' = "up"
  /\ cpc' = "disk"
  /\ UNCHANGED <<cycleVars, wire, ping, table, row, eventVars>>

\* The next attempt is RETRY_DELAY later.
ConnectRetried ==
  /\ cpc = "connect" /\ ~ctxDone /\ attempt + 1 < Retries
  /\ attempt' = attempt + 1
  /\ UNCHANGED <<cpc, pass, linkVars, ping, table, row, eventVars>>

ConnectFails ==
  /\ cpc = "connect"
  /\ ctxDone \/ attempt + 1 = Retries
  /\ Event
  /\ cpc' = "finish"
  /\ UNCHANGED <<cycleVars, linkVars, ping, table, row, listed>>

\* The free space of the client's disk.  Without an answer the cycle goes on.
Disk ==
  /\ cpc = "disk"
  /\ \/ UNCHANGED linkVars
     \/ /\ conn = "up"
        /\ wire' = <<[kind |-> "DISK", late |-> TRUE]>>
        /\ UNCHANGED conn
  /\ cpc' = "alarms"
  /\ UNCHANGED <<cycleVars, ping, table, row, eventVars>>

\* checkDisks may find a disk above its threshold, or full; the ping
\* goroutine starts, the first run is indexed.
Alarms ==
  /\ cpc = "alarms"
  /\ Event \/ UNCHANGED unsent
  /\ ping' = "idle"
  /\ cpc' \in {"pass", "finish"}
  /\ UNCHANGED <<cycleVars, linkVars, table, row, listed>>

Pass ==
  /\ cpc = "pass"
  /\ \/ ctxDone /\ cpc' = "finish" /\ UNCHANGED pass
     \/ ~ctxDone /\ cpc' = "list" /\ pass' = pass + 1
  /\ UNCHANGED <<attempt, linkVars, ping, table, row, eventVars>>

\* loadList: the request, then the table is emptied.
ListSend ==
  /\ cpc = "list" /\ MutexFree
  /\ Asks(<<Fresh("BATCH"), Fresh("LAST")>>)
  /\ table' = "empty"
  /\ cpc' = "listRead"
  /\ UNCHANGED <<cycleVars, ping, row, eventVars>>

ListNotSent ==
  /\ cpc = "list" /\ MutexFree /\ conn = "dead"
  /\ Event
  /\ cpc' = "finish"
  /\ UNCHANGED <<cycleVars, linkVars, ping, table, row, listed>>

ListBatch ==
  /\ cpc = "listRead" /\ Got("BATCH")
  /\ Reads
  /\ table' = IF table = "empty" /\ ~Head(wire).late THEN "begun" ELSE "wrong"
  /\ UNCHANGED <<cpc, cycleVars, ping, row, eventVars>>

ListLast ==
  /\ cpc = "listRead" /\ Got("LAST")
  /\ Reads
  /\ table' = IF table = "begun" /\ ~Head(wire).late THEN "full" ELSE "wrong"
  /\ cpc' = "work"
  /\ UNCHANGED <<cycleVars, ping, row, eventVars>>

\* Another kind of frame, or none in time: the cycle fails.
ListError ==
  /\ cpc = "listRead"
  /\ \/ ~Got("BATCH") /\ ~Got("LAST") /\ Reads
     \/ ReadsNothing
  /\ Event
  /\ cpc' = "finish"
  /\ UNCHANGED <<cycleVars, ping, table, row, listed>>

\* The comparison, the trash and the downloads (modules SyncCycle, TaskQueue):
\* they may end the passes or not, and record events.
Work ==
  /\ cpc = "work"
  /\ Event \/ UNCHANGED unsent
  /\ cpc' \in IF pass < MaxPasses THEN {"pass", "finish"} ELSE {"finish"}
  /\ UNCHANGED <<cycleVars, linkVars, ping, table, row, listed>>

\* Mutant: a cycle without a connection returns without its row.
FinishConnected ==
  /\ cpc = "finish"
  /\ conn # "none" => row' = "done"
  /\ conn = "none" => UNCHANGED row
  /\ cpc' = "report"
  /\ UNCHANGED <<cycleVars, linkVars, ping, table, eventVars>>

\* FinalizeCycle
Finish ==
  /\ cpc = "finish"
  /\ row' = "done"
  /\ cpc' = "report"
  /\ UNCHANGED <<cycleVars, linkVars, ping, table, eventVars>>

\* ListEventsForCycle; then the mail, which may fail unnoticed.
Report ==
  /\ cpc = "report"
  /\ listed' = unsent
  /\ cpc' = "mark"
  /\ UNCHANGED <<cycleVars, linkVars, ping, table, row, unsent>>

\* MarkEventsSent
Mark ==
  /\ cpc = "mark"
  /\ unsent' = unsent - listed
  /\ cpc' = "close"
  /\ UNCHANGED <<cycleVars, linkVars, ping, table, row, listed>>

\* The deferred calls stop the ping goroutine and close the connection, and
\* RunCycle returns.
End ==
  /\ cpc = "close"
  /\ Forgets
  /\ UNCHANGED row

-----------------------------------------------------------------------------
(* The ping goroutine.                                                     *)

\* Mutant: no mutex.
PingSendUnlocked ==
  /\ ping = "idle" /\ Len(wire) < MaxLate
  /\ Asks(<<Fresh("PONG")>>)
  /\ ping' = "read"
  /\ UNCHANGED <<cpc, cycleVars, table, row, eventVars>>

PingSend ==
  /\ ping = "idle" /\ MutexFree /\ Len(wire) < MaxLate
  /\ Asks(<<Fresh("PONG")>>)
  /\ ping' = "read"
  /\ UNCHANGED <<cpc, cycleVars, table, row, eventVars>>

\* Mutant: a failed ping is recorded as an event.
PingReadRecorded ==
  /\ ping = "read"
  /\ \/ Reads /\ UNCHANGED unsent
     \/ ReadsNothing /\ Event
  /\ ping' = "idle"
  /\ UNCHANGED <<cpc, cycleVars, table, row, listed>>

\* An answer of another kind, or none in time, is only logged.
PingRead ==
  /\ ping = "read"
  /\ Reads \/ ReadsNothing
  /\ ping' = "idle"
  /\ UNCHANGED <<cpc, cycleVars, table, row, eventVars>>

RunCycle ==
  \/ ConnectOk \/ ConnectRetried \/ ConnectFails
  \/ Disk \/ Alarms
  \/ Pass
  \/ ListSend \/ ListNotSent \/ ListBatch \/ ListLast \/ ListError
  \/ Work
  \/ Finish \/ Report \/ Mark

=============================================================================
