------------------------------ MODULE Service ------------------------------
(***************************************************************************)
(* The service process as a whole, cmdRun of cmd/server/main.go: the lock  *)
(* file (module LockFile) around the scheduler (module Scheduler), and     *)
(* in the scheduler's cycles the control connection, the cycle's row and   *)
(* its report.  A second process may try to start, and does when it gets   *)
(* the lock.  Only the first one's cycles are followed.                    *)
(***************************************************************************)
EXTENDS Scheduler, LockFile, Sequences

CONSTANTS
  Svc,         \* the process whose scheduler this is
  Retries, MaxPasses, MaxEvents, MaxLate

ASSUME SvcAssumption == Svc \in Procs

VARIABLES
  cpc, attempt, pass, conn, wire, ping, table, row, unsent, listed,
  hung         \* waits that nothing but the end of the process may end: "main"
               \* and "mail" for a mail server that is silent, of the main and
               \* of the cycle's goroutine; "limiter" for tokens

C == INSTANCE Control

control == <<cpc, attempt, pass, conn, wire, ping, table, row, unsent, listed>>
serviceVars == <<vars, lockVars, control, hung>>

ServiceInit == Init /\ LockInit /\ C!ControlInit /\ hung = {}

-----------------------------------------------------------------------------
(* The process.                                                            *)

\* The steps of AcquireLock.
Locking ==
  /\ pc = "down"
  /\ Start(Svc) \/ Acquire(Svc) \/ Release(Svc) \/ Dies(Svc)
  /\ UNCHANGED <<vars, control, hung>>

\* With the lock, Run begins.  A start that overlapped with another is not
\* followed further: no module is about two services with one database.
Runs ==
  /\ lpc[Svc] = "held" /\ ~overlap
  /\ StartProcess
  /\ UNCHANGED <<lockVars, control, hung>>

\* Mutant: the lock is released before Run returns.
RunReturnsEarly ==
  \/ /\ pc = "waiting"
     /\ owner' = NoFile /\ pid' = "none"
     /\ UNCHANGED <<vars, lpc, overlap, control, hung>>
  \/ Unmark /\ Returns(Svc) /\ UNCHANGED <<control, hung>>

\* Run returns; the deferred Release follows.
RunReturns ==
  /\ Unmark
  /\ Returns(Svc)
  /\ UNCHANGED <<control, hung>>

ProcessDies ==
  /\ Crash
  /\ Dies(Svc)
  /\ C!Forgets
  /\ hung' = {}
  /\ UNCHANGED row

OtherProcess ==
  /\ \E p \in Procs \ {Svc} :
       Start(p) \/ Acquire(p) \/ Returns(p) \/ Release(p) \/ Dies(p)
  /\ UNCHANGED <<vars, control, hung>>

-----------------------------------------------------------------------------
(* Its goroutines.                                                         *)

MainStep ==
  /\ "main" \notin hung
  /\ Boot \/ Mark \/ FirstTrigger \/ SelectTick \/ OverlapAlertSent \/ SelectDone
       \/ Wait
  /\ UNCHANGED <<lockVars, control, hung>>

\* C!Begin begins the record of a cycle whether or not another is going on:
\* that none is, is for AtMostOneCycle to say.
CycleBegins ==
  /\ BeginCycle
  /\ C!Begin
  /\ UNCHANGED <<lockVars, hung>>

\* The stop signal ends a wait in the limiter, which looks at the context; it
\* does not end a mail.
CycleStep ==
  /\ "mail" \notin hung
  /\ "limiter" \in hung => ctxDone
  /\ C!RunCycle
  /\ hung' = hung \ {"limiter"}
  /\ UNCHANGED <<vars, lockVars>>

CycleOver ==
  /\ EndCycle
  /\ C!End
  /\ UNCHANGED <<lockVars, hung>>

ChainStep ==
  /\ ChainCheck
  /\ IF nCycle' > nCycle THEN C!Begin ELSE UNCHANGED control
  /\ UNCHANGED <<lockVars, hung>>

PingStep ==
  /\ C!PingSend \/ C!PingRead
  /\ UNCHANGED <<vars, lockVars, hung>>

-----------------------------------------------------------------------------
(* What it waits for.                                                      *)

(* sendRaw dials without a timeout and sets no deadline: a mail server     *)
(* that accepts and says nothing keeps the goroutine for ever.  The main   *)
(* goroutine sends the restart and the overlap alert, the cycle those      *)
(* about disks, and its report behind ListEventsForCycle.                  *)
MailHangs ==
  /\ \/ /\ (pc = "boot" /\ metaRunning) \/ pc = "overlap"
        /\ hung' = hung \cup {"main"}
     \/ cpc \in {"alarms", "mark"} /\ hung' = hung \cup {"mail"}
  /\ UNCHANGED <<vars, lockVars, control>>

\* A frame is larger than the limiter's bucket (Throttled of TaskQueue).
LimiterHangs ==
  /\ cpc = "work"
  /\ hung' = hung \cup {"limiter"}
  /\ UNCHANGED <<vars, lockVars, control>>

Environment ==
  \/ (TimerFires \/ StopSignal) /\ UNCHANGED <<lockVars, control, hung>>
  \/ C!ConnDies /\ UNCHANGED <<vars, lockVars, hung>>
  \/ MailHangs \/ LimiterHangs

ServiceNext ==
  \/ Locking \/ Runs \/ RunReturns \/ ProcessDies \/ OtherProcess
  \/ MainStep \/ CycleBegins \/ CycleStep \/ CycleOver \/ ChainStep \/ PingStep
  \/ Environment

ServiceSpec == ServiceInit /\ [][ServiceNext]_serviceVars

(* The Go runtime runs every goroutine that can run.  A Go select chooses  *)
(* at random among its ready cases, so that the one of the stop signal is  *)
(* not passed over for ever; Go's mutex does not let the ping goroutine    *)
(* overtake a waiting loadList again and again.  A cycle takes its next    *)
(* step because every dial and every read of a connection to the client    *)
(* has a deadline; a mail has none, and a wait in the limiter may have     *)
(* none: MainStep and CycleStep are disabled while hung says so.  Hangs,   *)
(* ticks, signals, starts and crashes are not fair.                        *)
ServiceFairness ==
  /\ WF_serviceVars(MainStep \/ RunReturns)
  /\ SF_serviceVars(SelectDone /\ UNCHANGED <<lockVars, control, hung>>)
  /\ WF_serviceVars(CycleBegins) /\ WF_serviceVars(CycleOver)
  /\ WF_serviceVars(ChainStep)
  /\ WF_serviceVars(CycleStep) /\ WF_serviceVars(PingStep)
  /\ SF_serviceVars((C!ListSend \/ C!ListNotSent) /\ UNCHANGED <<vars, lockVars, hung>>)

FairServiceSpec == ServiceSpec /\ ServiceFairness

-----------------------------------------------------------------------------
(* Properties.                                                             *)

(* Two services run at once only if they were started at the same moment;  *)
(* a killed service never keeps the lock, nor a second start take it from  *)
(* one that runs.                                                          *)
OneInstance == Exclusive

(* As long as a cycle's goroutine is alive, between cycles and while the   *)
(* service waits for its last one, the lock file is there and names it.    *)
CyclesUnderLock ==
  Alive > 0 => owner = Svc /\ pid = "live"

(* What the cycle compares with its index is the whole answer to the list  *)
(* request of this pass: no frame of an earlier request, none missing that *)
(* the ping goroutine took.                                                *)
ListIsCurrent == cpc = "work" => table = "full"

(* The report of a cycle has every event of the cycle: none is recorded    *)
(* behind its back and left unsent for ever, as no later report looks at   *)
(* the events of an earlier cycle.                                         *)
NoEventLeftBehind == cpc = "close" => unsent = 0

(* The status command shows a cycle as running only while one runs, or if  *)
(* a process died with one.                                                *)
RowSaysRunning == row = "RUNNING" => nCycle > 0 \/ unclean

(* Every accepted trigger is followed by the start of a cycle, so that the *)
(* changes it was meant to pick up are listed after it.  The stop signal   *)
(* excuses, and a cycle that waits for a silent mail server or for tokens  *)
(* that never come; a main goroutine that hangs in its overlap alert does  *)
(* not: the trigger is queued before the mail.                             *)
NoTriggerLost == owed ~> ~owed \/ ctxDone \/ hung \cap {"mail", "limiter"} # {}

(* The stop signal leads to the end of the process, out of a wait in the   *)
(* limiter too; only a mail without an answer keeps it.                    *)
ShutdownCompletes == ctxDone ~> pc = "down" \/ hung \cap {"main", "mail"} # {}

=============================================================================
