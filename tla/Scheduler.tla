------------------------------ MODULE Scheduler ------------------------------
(***************************************************************************)
(* The cycle scheduler, Server.Run of internal/server/scheduler.go: a main *)
(* goroutine that turns timer ticks into triggers, and the goroutine each  *)
(* accepted trigger starts (runChain), which runs cycles until nothing is  *)
(* pending.  The two share running and pending under a mutex; each section *)
(* that holds the mutex is one action.  The service may be signalled,      *)
(* crash, and be started again; the "running" row of the meta table is all *)
(* that survives.                                                          *)
(***************************************************************************)
EXTENDS Naturals

VARIABLES
  pc,           \* where the main goroutine is
  running,      \* a chain goroutine owns the right to run cycles
  pending,      \* one more cycle was requested while one was running
  nSpawned,     \* chain goroutines created, not yet in RunCycle
  nCycle,       \* chain goroutines inside RunCycle
  nCheck,       \* chain goroutines between RunCycle and the mutex
  tick,         \* the ticker's channel (capacity 1) holds a tick
  ctxDone,      \* the stop signal has cancelled the context
  metaRunning,  \* meta["running"] = "1" (persistent)
  alerted,      \* this process sent the restart alert
  owed,         \* history: a trigger was accepted and no cycle has started since
  unclean       \* history: a process that ran cycles died without stopping

vars == <<pc, running, pending, nSpawned, nCycle, nCheck, tick, ctxDone,
          metaRunning, alerted, owed, unclean>>

chainVars == <<running, pending, nSpawned, nCycle, nCheck>>

MainPC == {"down", "boot", "mark", "first", "select", "overlap", "waiting", "unmark"}

\* The goroutines counted by the WaitGroup wg.
Alive == nSpawned + nCycle + nCheck

TypeOK ==
  /\ pc \in MainPC
  /\ running \in BOOLEAN /\ pending \in BOOLEAN
  /\ nSpawned \in Nat /\ nCycle \in Nat /\ nCheck \in Nat
  /\ tick \in BOOLEAN /\ ctxDone \in BOOLEAN
  /\ metaRunning \in BOOLEAN /\ alerted \in BOOLEAN
  /\ owed \in BOOLEAN /\ unclean \in BOOLEAN

Init ==
  /\ pc = "down"
  /\ running = FALSE /\ pending = FALSE
  /\ nSpawned = 0 /\ nCycle = 0 /\ nCheck = 0
  /\ tick = FALSE /\ ctxDone = FALSE
  /\ metaRunning = FALSE /\ alerted = FALSE
  /\ owed = FALSE /\ unclean = FALSE

-----------------------------------------------------------------------------
(* The main goroutine.                                                     *)

StartProcess ==
  /\ pc = "down"
  /\ pc' = "boot"
  /\ UNCHANGED <<chainVars, tick, ctxDone, metaRunning, alerted, owed, unclean>>

\* The flag of the previous process decides whether the restart alert is sent.
Boot ==
  /\ pc = "boot"
  /\ pc' = "mark"
  /\ alerted' = metaRunning
  /\ UNCHANGED <<chainVars, tick, ctxDone, metaRunning, owed, unclean>>

\* SetMeta("running", "1"); the reset of stale tasks is in module TaskQueue.
Mark ==
  /\ pc = "mark"
  /\ pc' = "first"
  /\ metaRunning' = TRUE
  /\ UNCHANGED <<chainVars, tick, ctxDone, alerted, owed, unclean>>

\* Mutants: a trigger that does not look at running; one that drops the
\* request instead of queueing it.
TriggerAlways ==
  /\ running' = TRUE
  /\ nSpawned' = nSpawned + 1
  /\ owed' = TRUE
  /\ pc' = "select"
  /\ UNCHANGED <<pending, nCycle, nCheck>>

TriggerDropping ==
  /\ IF running
     THEN pc' = "overlap" /\ UNCHANGED <<running, nSpawned>>
     ELSE running' = TRUE /\ nSpawned' = nSpawned + 1 /\ pc' = "select"
  /\ owed' = TRUE
  /\ UNCHANGED <<pending, nCycle, nCheck>>

(* trigger(): start a chain; or, when one runs, queue one more cycle and   *)
(* send the overlap alert (a mail, outside the mutex); or, when one is     *)
(* queued already, nothing.                                                *)
Trigger ==
  /\ \/ /\ ~running
        /\ running' = TRUE
        /\ nSpawned' = nSpawned + 1
        /\ pc' = "select"
        /\ UNCHANGED pending
     \/ /\ running /\ ~pending
        /\ pending' = TRUE
        /\ pc' = "overlap"
        /\ UNCHANGED <<running, nSpawned>>
     \/ /\ running /\ pending
        /\ pc' = "select"
        /\ UNCHANGED <<running, pending, nSpawned>>
  /\ owed' = TRUE
  /\ UNCHANGED <<nCycle, nCheck>>

FirstTrigger ==
  /\ pc = "first"
  /\ Trigger
  /\ UNCHANGED <<tick, ctxDone, metaRunning, alerted, unclean>>

SelectTick ==
  /\ pc = "select" /\ tick
  /\ tick' = FALSE
  /\ Trigger
  /\ UNCHANGED <<ctxDone, metaRunning, alerted, unclean>>

OverlapAlertSent ==
  /\ pc = "overlap"
  /\ pc' = "select"
  /\ UNCHANGED <<chainVars, tick, ctxDone, metaRunning, alerted, owed, unclean>>

SelectDone ==
  /\ pc = "select" /\ ctxDone
  /\ pc' = "waiting"
  /\ UNCHANGED <<chainVars, tick, ctxDone, metaRunning, alerted, owed, unclean>>

\* Mutant: the flag is cleared before the wait.
WaitUnmarking ==
  /\ pc = "waiting"
  /\ metaRunning' = FALSE
  /\ pc' = IF Alive = 0 THEN "unmark" ELSE "waiting"
  /\ UNCHANGED <<chainVars, tick, ctxDone, alerted, owed, unclean>>

\* Mutant: no wait for the chain goroutine.
WaitNot ==
  /\ pc = "waiting"
  /\ pc' = "unmark"
  /\ UNCHANGED <<chainVars, tick, ctxDone, metaRunning, alerted, owed, unclean>>

\* wg.Wait()
Wait ==
  /\ pc = "waiting" /\ Alive = 0
  /\ pc' = "unmark"
  /\ UNCHANGED <<chainVars, tick, ctxDone, metaRunning, alerted, owed, unclean>>

\* The deferred SetMeta("running", "0"), then the process exits.
Unmark ==
  /\ pc = "unmark"
  /\ pc' = "down"
  /\ metaRunning' = FALSE /\ unclean' = FALSE
  /\ running' = FALSE /\ pending' = FALSE
  /\ nSpawned' = 0 /\ nCycle' = 0 /\ nCheck' = 0
  /\ tick' = FALSE /\ ctxDone' = FALSE /\ alerted' = FALSE /\ owed' = FALSE

-----------------------------------------------------------------------------
(* The chain goroutine, runChain.                                          *)

BeginCycle ==
  /\ nSpawned > 0
  /\ nSpawned' = nSpawned - 1
  /\ nCycle' = nCycle + 1
  /\ owed' = FALSE
  /\ UNCHANGED <<pc, running, pending, nCheck, tick, ctxDone, metaRunning,
                 alerted, unclean>>

EndCycle ==
  /\ nCycle > 0
  /\ nCycle' = nCycle - 1
  /\ nCheck' = nCheck + 1
  /\ UNCHANGED <<pc, running, pending, nSpawned, tick, ctxDone, metaRunning,
                 alerted, owed, unclean>>

\* Mutants: wg.Done is called twice; or never.
ChainCheckDoneTwice ==
  /\ nCheck > 0
  /\ IF pending /\ ~ctxDone
     THEN /\ pending' = FALSE /\ nCycle' = nCycle + 1 /\ owed' = FALSE
          /\ nCheck' = nCheck - 1
          /\ UNCHANGED running
     ELSE running' = FALSE /\ nCheck' = nCheck - 2 /\ UNCHANGED <<pending, nCycle, owed>>
  /\ UNCHANGED <<pc, nSpawned, tick, ctxDone, metaRunning, alerted, unclean>>

ChainCheckNotDone ==
  /\ nCheck > 0 /\ running
  /\ IF pending /\ ~ctxDone
     THEN /\ pending' = FALSE /\ nCycle' = nCycle + 1 /\ owed' = FALSE
          /\ nCheck' = nCheck - 1
          /\ UNCHANGED running
     ELSE running' = FALSE /\ UNCHANGED <<pending, nCheck, nCycle, owed>>
  /\ UNCHANGED <<pc, nSpawned, tick, ctxDone, metaRunning, alerted, unclean>>

\* Mutant: the chain ends although a cycle is pending.
ChainCheckForgetting ==
  /\ nCheck > 0
  /\ nCheck' = nCheck - 1
  /\ running' = FALSE
  /\ pending' = FALSE
  /\ UNCHANGED <<pc, nSpawned, nCycle, tick, ctxDone, metaRunning, alerted,
                 owed, unclean>>

(* After a cycle: take the pending one, unless the context is cancelled,   *)
(* else give up running and end.  The goroutine's return (wg.Done) follows *)
(* the unlock with nothing in between that anyone could see.               *)
ChainCheck ==
  /\ nCheck > 0
  /\ nCheck' = nCheck - 1
  /\ \/ /\ pending /\ ~ctxDone
        /\ pending' = FALSE
        /\ nCycle' = nCycle + 1
        /\ owed' = FALSE
        /\ UNCHANGED running
     \/ /\ ~(pending /\ ~ctxDone)
        /\ running' = FALSE
        /\ UNCHANGED <<pending, nCycle, owed>>
  /\ UNCHANGED <<pc, nSpawned, tick, ctxDone, metaRunning, alerted, unclean>>

-----------------------------------------------------------------------------
(* The environment.                                                        *)

\* The ticker exists once the first trigger is done; a full channel drops.
TimerFires ==
  /\ pc \in {"select", "overlap", "waiting"}
  /\ tick' = TRUE
  /\ UNCHANGED <<pc, chainVars, ctxDone, metaRunning, alerted, owed, unclean>>

StopSignal ==
  /\ pc # "down" /\ ~ctxDone
  /\ ctxDone' = TRUE
  /\ UNCHANGED <<pc, chainVars, tick, metaRunning, alerted, owed, unclean>>

\* The process dies: everything but the meta table is lost.
Crash ==
  /\ pc # "down"
  /\ pc' = "down"
  /\ unclean' = (unclean \/ Alive > 0)
  /\ running' = FALSE /\ pending' = FALSE
  /\ nSpawned' = 0 /\ nCycle' = 0 /\ nCheck' = 0
  /\ tick' = FALSE /\ ctxDone' = FALSE /\ alerted' = FALSE /\ owed' = FALSE
  /\ UNCHANGED metaRunning

Main == Boot \/ Mark \/ FirstTrigger \/ SelectTick \/ OverlapAlertSent
          \/ SelectDone \/ Wait \/ Unmark

Next ==
  \/ StartProcess
  \/ Main
  \/ BeginCycle \/ EndCycle \/ ChainCheck
  \/ TimerFires \/ StopSignal \/ Crash

\* No fairness: whether a cycle ends depends on what it waits for, which
\* module Service knows.
Spec == Init /\ [][Next]_vars

-----------------------------------------------------------------------------
(* Properties.                                                             *)

(* Two cycles never run at the same time, whatever the ticks: both would   *)
(* rewrite client_files and the task queue.                                *)
AtMostOneCycle == nCycle <= 1

(* Once Run is about to return no cycle runs: the store is closed and the  *)
(* lock file released right after.                                         *)
NoCycleAfterReturn == pc \in {"down", "unmark"} => Alive = 0

(* A process that gets to work has sent the restart alert if an earlier    *)
(* one died with a cycle running and none has stopped cleanly since; a     *)
(* crash while the service waits for its last cycle counts, and a crash    *)
(* during the next boot does not lose the alert.                           *)
RestartAlertSent ==
  pc \in {"first", "select", "overlap", "waiting"} /\ ~alerted => ~unclean

(* The scheduler implements the queue of one.                              *)
CQ == INSTANCE CycleQueue WITH
        active <- Alive > 0,
        queued <- pending /\ Alive > 0 /\ ~ctxDone,
        open   <- pc \notin {"down", "boot", "mark"} /\ ~ctxDone

ImplementsCycleQueue == CQ!Spec

=============================================================================
