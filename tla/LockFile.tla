------------------------------ MODULE LockFile ------------------------------
(***************************************************************************)
(* The lock file that keeps the service from running twice: AcquireLock    *)
(* and Release of internal/server/lock.go, and the command that calls      *)
(* them, cmdRun of cmd/server/main.go.  Each system call is a step.  The   *)
(* file is known by who created it, for a process goes on writing into a   *)
(* file that another has removed; its text is a pid.  The pid of a dead    *)
(* process may be that of another program by now.                          *)
(***************************************************************************)
CONSTANTS
  Procs,   \* processes that may be started with the run command
  NoFile   \* no lock file

ASSUME NoFileAssumption == NoFile \notin Procs

VARIABLES
  owner,    \* who created the lock file that is there, or NoFile
  pid,      \* its text: "none" (not written yet), "live" or "dead"
  lpc,      \* where each process is
  overlap   \* history: since a time when no process was there, two were inside
            \* AcquireLock together

lockVars == <<owner, pid, lpc, overlap>>

LPC == {"down", "create", "read", "remove", "recreate", "write", "held", "release"}

\* Behind the first system call of AcquireLock, before its return.
Acquiring(p) == lpc[p] \in {"read", "remove", "recreate", "write"}

\* Between AcquireLock and the end of Release.
Holds(p) == lpc[p] \in {"held", "release"}

LockTypeOK ==
  /\ owner \in Procs \cup {NoFile}
  /\ pid \in {"none", "live", "dead"}
  /\ lpc \in [Procs -> LPC]
  /\ overlap \in BOOLEAN

LockInit ==
  /\ owner = NoFile /\ pid = "none"
  /\ lpc = [p \in Procs |-> "down"]
  /\ overlap = FALSE

Goto(p, s) == lpc' = [lpc EXCEPT ![p] = s]

\* O_CREATE|O_EXCL succeeds: a new, empty file.
NewFile(p) ==
  /\ owner = NoFile
  /\ owner' = p /\ pid' = "none"

Start(p) ==
  /\ lpc[p] = "down"
  /\ Goto(p, "create")
  /\ overlap' = (overlap /\ \E q \in Procs : lpc[q] # "down")
  /\ UNCHANGED <<owner, pid>>

Create(p) ==
  /\ lpc[p] = "create"
  /\ \/ NewFile(p) /\ Goto(p, "write")
     \/ owner # NoFile /\ Goto(p, "read") /\ UNCHANGED <<owner, pid>>
  /\ overlap' = (overlap \/ \E q \in Procs \ {p} : Acquiring(q))

\* The text is the number of a process that exists, the one that wrote it
\* or, when that is dead, one that got its number.
MayBeAlive == owner # NoFile /\ pid # "none"

IsStale == owner = NoFile \/ pid # "live"

\* The start is refused, and the process exits.
Refused(p) ==
  /\ lpc[p] = "read" /\ MayBeAlive
  /\ Goto(p, "down")
  /\ UNCHANGED <<owner, pid, overlap>>

\* Mutant: a file without a readable pid is respected, one with a dead pid
\* is not looked at.
ReadStaleAny(p) ==
  /\ lpc[p] = "read"
  /\ Goto(p, "remove")
  /\ UNCHANGED <<owner, pid, overlap>>

\* No file, no pid in it, or the pid of no process.
ReadStale(p) ==
  /\ lpc[p] = "read" /\ IsStale
  /\ Goto(p, "remove")
  /\ UNCHANGED <<owner, pid, overlap>>

\* os.Remove takes away whatever file has the name by now.
Remove(p) ==
  /\ lpc[p] = "remove"
  /\ owner' = NoFile /\ pid' = "none"
  /\ Goto(p, "recreate")
  /\ UNCHANGED overlap

Recreate(p) ==
  /\ lpc[p] = "recreate"
  /\ \/ NewFile(p) /\ Goto(p, "write")
     \/ owner # NoFile /\ Goto(p, "down") /\ UNCHANGED <<owner, pid>>
  /\ UNCHANGED overlap

\* Into the file this process created, even if it has no name any more.
WritePid(p) ==
  /\ lpc[p] = "write"
  /\ pid' = IF owner = p THEN "live" ELSE pid
  /\ Goto(p, "held")
  /\ UNCHANGED <<owner, overlap>>

\* Run has returned and the store is closed.
Returns(p) ==
  /\ lpc[p] = "held"
  /\ Goto(p, "release")
  /\ UNCHANGED <<owner, pid, overlap>>

Release(p) ==
  /\ lpc[p] = "release"
  /\ owner' = NoFile /\ pid' = "none"
  /\ Goto(p, "down")
  /\ UNCHANGED overlap

\* The process is killed; it cannot write its pid; or the rest of the start
\* fails and os.Exit passes over the deferred Release.
Dies(p) ==
  /\ lpc[p] # "down"
  /\ Goto(p, "down")
  /\ pid' = IF owner = p /\ pid = "live" THEN "dead" ELSE pid
  /\ UNCHANGED <<owner, overlap>>

Acquire(p) ==
  \/ Create(p) \/ Refused(p) \/ ReadStale(p) \/ Remove(p) \/ Recreate(p)
  \/ WritePid(p)

LockNext == \E p \in Procs :
  Start(p) \/ Acquire(p) \/ Returns(p) \/ Release(p) \/ Dies(p)

LockSpec == LockInit /\ [][LockNext]_lockVars

(* Starts that do not overlap are exclusive, whatever is killed when and   *)
(* whatever it leaves behind: never do two processes hold the lock.        *)
Exclusive ==
  ~overlap => \A p, q \in Procs : Holds(p) /\ Holds(q) => p = q

(* ... and the holder's file is there, so that a later start sees it.      *)
HolderHasFile ==
  ~overlap => \A p \in Procs : lpc[p] = "held" => owner = p /\ pid = "live"

=============================================================================
