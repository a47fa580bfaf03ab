---------------------------- MODULE ServiceProofs ----------------------------
(***************************************************************************)
(* Proofs about the scheduler, about the lock file, and about the service  *)
(* as a whole.  The steps of the service are steps of the scheduler and of *)
(* the lock file, or leave them alone, so that what is proved of these     *)
(* holds of the service; on that rest the properties that relate the       *)
(* parts: the lock and the cycles, the cycle and its row, its events, and  *)
(* its connection.                                                         *)
(***************************************************************************)
EXTENDS Service, TLAPS

-----------------------------------------------------------------------------
(* The scheduler.  The inductive invariant says that the flag running      *)
(* counts the chain goroutines, that none outlives the main goroutine, and *)
(* that a chain goroutine is alive only under a set flag in the meta table.*)

\* The mutex protects one right to run cycles: running is set exactly while
\* one chain goroutine is alive.
RunningCounts == (running => Alive = 1) /\ (~running => Alive = 0)

\* Before the first trigger and after wg.Wait there is no chain goroutine.
QuietMain == pc \in {"down", "boot", "mark", "first", "unmark"} => Alive = 0

\* The first trigger comes after the flag is set, and the flag stays until
\* the wait is over.
FlagCovers ==
  /\ pc \in {"first", "select", "overlap", "waiting", "unmark"} => metaRunning
  /\ Alive > 0 => pc \in {"select", "overlap", "waiting"}

\* An unclean end leaves the flag, and the flag makes the next boot alert.
UncleanFlagged ==
  /\ unclean => metaRunning
  /\ pc \in {"mark", "first", "select", "overlap", "waiting"} /\ unclean => alerted

\* A cycle is pending only behind a running one, except after the signal.
PendingBehind == pending /\ ~ctxDone => running

IInv ==
  /\ TypeOK
  /\ RunningCounts
  /\ QuietMain
  /\ FlagCovers
  /\ UncleanFlagged
  /\ PendingBehind

\* The two halves of TypeOK: one is about truth values, the other counts.
Flags ==
  /\ running \in BOOLEAN /\ pending \in BOOLEAN
  /\ tick \in BOOLEAN /\ ctxDone \in BOOLEAN
  /\ metaRunning \in BOOLEAN /\ alerted \in BOOLEAN
  /\ owed \in BOOLEAN /\ unclean \in BOOLEAN

Counters ==
  /\ pc \in MainPC
  /\ nSpawned \in Nat /\ nCycle \in Nat /\ nCheck \in Nat

LEMMA TypeHalves == TypeOK <=> Flags /\ Counters
  BY DEF TypeOK, Flags, Counters

LEMMA InitIInv == Init => IInv
<1> SUFFICES ASSUME Init PROVE IInv
  OBVIOUS
<1>1. Flags
  BY Zenon DEF Init, Flags
<1>2. Counters /\ Alive = 0
  BY DEF Init, Counters, MainPC, Alive
<1>3. pc = "down" /\ ~running /\ ~pending /\ ~unclean
  BY Zenon DEF Init
<1> QED
  BY <1>1, <1>2, <1>3, TypeHalves
     DEF IInv, RunningCounts, QuietMain, FlagCovers, UncleanFlagged, PendingBehind

\* The flags stay truth values.
LEMMA FlagsKept == Flags /\ [Next]_vars => Flags'
<1> SUFFICES ASSUME Flags, [Next]_vars PROVE Flags'
  OBVIOUS
<1> USE DEF Flags
<1>1. CASE StartProcess \/ Boot \/ Mark
  BY Zenon, <1>1 DEF StartProcess, Boot, Mark, chainVars
<1>2. CASE FirstTrigger \/ SelectTick
  BY Zenon, <1>2 DEF FirstTrigger, SelectTick, Trigger
<1>3. CASE OverlapAlertSent \/ SelectDone \/ Wait
  BY Zenon, <1>3 DEF OverlapAlertSent, SelectDone, Wait, chainVars
<1>4. CASE Unmark
  BY Zenon, <1>4 DEF Unmark
<1>5. CASE BeginCycle \/ EndCycle
  BY Zenon, <1>5 DEF BeginCycle, EndCycle
<1>6. CASE ChainCheck
  BY Zenon, <1>6 DEF ChainCheck
<1>7. CASE TimerFires \/ StopSignal
  BY Zenon, <1>7 DEF TimerFires, StopSignal, chainVars
<1>8. CASE Crash
  BY Zenon, <1>8 DEF Crash
<1>9. CASE UNCHANGED vars
  BY Zenon, <1>9 DEF vars
<1> QED
  BY <1>1, <1>2, <1>3, <1>4, <1>5, <1>6, <1>7, <1>8, <1>9 DEF Next, Main

\* The trigger, alone: it keeps the count, whoever calls it.
LEMMA TriggerCounts ==
  ASSUME IInv, Trigger
  PROVE  /\ running' /\ Alive' = 1
         /\ nSpawned' \in Nat /\ nCycle' = nCycle /\ nCheck' = nCheck
         /\ pc' \in {"select", "overlap"}
  BY DEF IInv, TypeOK, RunningCounts, Trigger, Alive

\* A chain check either goes on with the pending cycle or ends the chain.
LEMMA ChainCheckCounts ==
  ASSUME IInv, ChainCheck
  PROVE  /\ Alive = 1 /\ running
         /\ pending /\ ~ctxDone => Alive' = 1 /\ running' /\ ~pending'
         /\ ~(pending /\ ~ctxDone) => Alive' = 0 /\ ~running' /\ pending' = pending
         /\ nSpawned' \in Nat /\ nCycle' \in Nat /\ nCheck' \in Nat
         /\ UNCHANGED <<pc, ctxDone, metaRunning, alerted, unclean>>
  BY DEF IInv, TypeOK, RunningCounts, ChainCheck, Alive

LEMMA NextIInv == IInv /\ [Next]_vars => IInv'
<1> SUFFICES ASSUME IInv, [Next]_vars PROVE IInv'
  OBVIOUS
<1>0. Flags /\ Flags'
  BY FlagsKept, TypeHalves DEF IInv
<1> SUFFICES /\ Counters' /\ RunningCounts' /\ QuietMain'
             /\ FlagCovers' /\ UncleanFlagged' /\ PendingBehind'
  BY <1>0, TypeHalves DEF IInv, TypeOK, Flags, Counters, MainPC
<1> USE DEF IInv, TypeOK, Counters, RunningCounts, QuietMain, FlagCovers,
            UncleanFlagged, PendingBehind, Alive, MainPC
<1>1. CASE StartProcess
  BY <1>1 DEF StartProcess, chainVars
<1>2. CASE Boot
  BY <1>2 DEF Boot, chainVars
<1>3. CASE Mark
  BY <1>3 DEF Mark, chainVars
<1>4. CASE FirstTrigger
  BY <1>4, TriggerCounts DEF FirstTrigger
<1>5. CASE SelectTick
  BY <1>5, TriggerCounts DEF SelectTick
<1>6. CASE OverlapAlertSent
  BY <1>6 DEF OverlapAlertSent, chainVars
<1>7. CASE SelectDone
  BY <1>7 DEF SelectDone, chainVars
<1>8. CASE Wait
  BY <1>8 DEF Wait, chainVars
<1>9. CASE Unmark
  BY <1>9 DEF Unmark
<1>10. CASE BeginCycle
  BY <1>10 DEF BeginCycle
<1>11. CASE EndCycle
  BY <1>11 DEF EndCycle
<1>12. CASE ChainCheck
  BY <1>12, ChainCheckCounts
<1>13. CASE TimerFires
  BY <1>13 DEF TimerFires, chainVars
<1>14. CASE StopSignal
  BY <1>14 DEF StopSignal, chainVars
<1>15. CASE Crash
  BY <1>15 DEF Crash
<1>16. CASE UNCHANGED vars
  BY <1>16 DEF vars
<1> QED
  BY <1>1, <1>2, <1>3, <1>4, <1>5, <1>6, <1>7, <1>8, <1>9, <1>10, <1>11,
     <1>12, <1>13, <1>14, <1>15, <1>16 DEF Next, Main

LEMMA Invariance == Spec => []IInv
  BY InitIInv, NextIInv, PTL DEF Spec

(* The variables keep their types.                                         *)
THEOREM SchedulerTypes == Spec => []TypeOK
<1>1. IInv => TypeOK
  BY DEF IInv
<1> QED
  BY <1>1, Invariance, PTL

(* At most one cycle runs, whatever the ticks, signals and crashes.        *)
THEOREM OneCycleAtATime == Spec => []AtMostOneCycle
<1>1. IInv => AtMostOneCycle
  BY DEF IInv, TypeOK, RunningCounts, Alive, AtMostOneCycle
<1> QED
  BY <1>1, Invariance, PTL

(* No cycle is left running when Run returns.                              *)
THEOREM ReturnsQuiet == Spec => []NoCycleAfterReturn
<1>1. IInv => NoCycleAfterReturn
  BY DEF IInv, QuietMain, NoCycleAfterReturn
<1> QED
  BY <1>1, Invariance, PTL

(* The restart alert is never missed.                                      *)
THEOREM RestartAlerted == Spec => []RestartAlertSent
<1>1. IInv => RestartAlertSent
  BY DEF IInv, UncleanFlagged, RestartAlertSent
<1> QED
  BY <1>1, Invariance, PTL

-----------------------------------------------------------------------------
(* The scheduler implements the queue of one: its initial state maps to    *)
(* the queue's, and every step to a step of the queue or to none.          *)

LEMMA InitRefines == Init => CQ!Init
  BY DEF Init, CQ!Init, Alive

LEMMA StepRefines == IInv /\ [Next]_vars => [CQ!Next]_(CQ!vars)
<1> SUFFICES ASSUME IInv, [Next]_vars PROVE [CQ!Next]_(CQ!vars)
  OBVIOUS
<1> USE DEF IInv, TypeOK, RunningCounts, QuietMain, PendingBehind, Alive,
            MainPC, CQ!vars
<1>1. CASE StartProcess \/ Boot
  BY <1>1 DEF StartProcess, Boot, chainVars
<1>2. CASE Mark
  BY <1>2 DEF Mark, chainVars, CQ!Open, CQ!Next
<1>3. CASE FirstTrigger \/ SelectTick
  <2>1. pc \in {"first", "select"} /\ pc' \in {"select", "overlap"}
        /\ ctxDone' = ctxDone
    BY <1>3, TriggerCounts DEF FirstTrigger, SelectTick
  <2>2. CASE ~running
    <3>1. running' /\ pending' = pending /\ Alive = 0 /\ Alive' = 1
      BY <1>3, <2>2, TriggerCounts DEF FirstTrigger, SelectTick, Trigger
    <3>2. CQ!Start \/ UNCHANGED CQ!vars
      BY <2>1, <2>2, <3>1 DEF CQ!Start
    <3> QED BY <3>2 DEF CQ!Next
  <2>3. CASE running /\ ~pending
    <3>1. pending' /\ Alive = 1 /\ Alive' = 1
      BY <1>3, <2>3, TriggerCounts DEF FirstTrigger, SelectTick, Trigger
    <3> QED BY <2>1, <2>3, <3>1 DEF CQ!Enqueue, CQ!Next
  <2>4. CASE running /\ pending
    <3>1. pending' = pending /\ Alive = 1 /\ Alive' = 1
      BY <1>3, <2>4, TriggerCounts DEF FirstTrigger, SelectTick, Trigger
    <3> QED BY <2>1, <3>1
  <2> QED BY <2>2, <2>3, <2>4
<1>4. CASE OverlapAlertSent \/ SelectDone \/ Wait
  <2>1. (Alive > 0)' = (Alive > 0) /\ pending' = pending /\ ctxDone' = ctxDone
    BY <1>4 DEF OverlapAlertSent, SelectDone, Wait, chainVars
  <2>2. /\ pc \notin {"down", "boot", "mark"}
        /\ pc' \notin {"down", "boot", "mark"}
    BY <1>4 DEF OverlapAlertSent, SelectDone, Wait
  <2> QED BY <2>1, <2>2
<1>5. CASE Unmark \/ Crash
  BY <1>5 DEF Unmark, Crash, CQ!Abort, CQ!Next
<1>6. CASE BeginCycle \/ EndCycle
  <2>1. Alive' = Alive /\ UNCHANGED <<pc, pending, ctxDone>>
    BY <1>6 DEF BeginCycle, EndCycle
  <2> QED BY <2>1
<1>7. CASE ChainCheck
  <2>1. CASE pending /\ ~ctxDone
    BY <1>7, <2>1, ChainCheckCounts DEF CQ!Promote, CQ!Next
  <2>2. CASE ~(pending /\ ~ctxDone)
    BY <1>7, <2>2, ChainCheckCounts DEF CQ!Finish, CQ!Next
  <2> QED BY <2>1, <2>2
<1>8. CASE TimerFires
  BY <1>8 DEF TimerFires, chainVars
<1>9. CASE StopSignal
  <2>1. (Alive > 0)' = (Alive > 0) /\ UNCHANGED <<pc, pending>> /\ ~ctxDone /\ ctxDone'
    BY <1>9 DEF StopSignal, chainVars
  <2>2. CASE pc \in {"down", "boot", "mark"}
    BY <2>1, <2>2
  <2>3. CASE pc \notin {"down", "boot", "mark"}
    BY <2>1, <2>3 DEF CQ!Close, CQ!Next
  <2> QED BY <2>2, <2>3
<1>10. CASE UNCHANGED vars
  BY <1>10 DEF vars
<1> QED
  BY <1>1, <1>2, <1>3, <1>4, <1>5, <1>6, <1>7, <1>8, <1>9, <1>10 DEF Next, Main

(* The scheduler implements the queue of one.                              *)
THEOREM Refinement == Spec => ImplementsCycleQueue
  BY InitRefines, StepRefines, Invariance, PTL
     DEF Spec, ImplementsCycleQueue, CQ!Spec

-----------------------------------------------------------------------------
(* The lock file.  Starts which do not overlap are exclusive.  The         *)
(* invariant says whose file is there: a live pid belongs to a holder; and,*)
(* without overlap, a holder's file is there with its pid, nobody is about *)
(* to remove or replace a file while there is a holder, and a process that *)
(* writes its pid writes it into the file that has the name.               *)

LiveHolds == pid = "live" => owner \in Procs /\ Holds(owner)

OneAcquires == \A p, q \in Procs : Acquiring(p) /\ Acquiring(q) => p = q

HolderNamed == \A p \in Procs : Holds(p) => owner = p /\ pid = "live"

\* In these states a process has found the file stale, or has its own.
Replacing(p) == lpc[p] \in {"remove", "recreate", "write"}

NoneReplaced == \A p, q \in Procs : Replacing(p) => ~Holds(q)

WriterNamed == \A p \in Procs : lpc[p] = "write" => owner = p /\ pid = "none"

LockInv ==
  /\ LockTypeOK
  /\ LiveHolds
  /\ ~overlap => OneAcquires /\ HolderNamed /\ NoneReplaced /\ WriterNamed

LEMMA LockInitInv == LockInit => LockInv
  BY NoFileAssumption
     DEF LockInit, LockInv, LockTypeOK, LPC, LiveHolds, OneAcquires, HolderNamed,
         NoneReplaced, WriterNamed, Acquiring, Holds, Replacing

LEMMA LockNextInv == LockInv /\ [LockNext]_lockVars => LockInv'
<1> SUFFICES ASSUME LockInv, [LockNext]_lockVars PROVE LockInv'
  OBVIOUS
<1> USE NoFileAssumption
    DEF LockInv, LockTypeOK, LPC, LiveHolds, OneAcquires, HolderNamed, NoneReplaced,
        WriterNamed, Acquiring, Holds, Replacing, Goto, NewFile
<1>0. CASE UNCHANGED lockVars
  BY <1>0 DEF lockVars
<1>1. ASSUME NEW p \in Procs, Start(p) PROVE LockInv'
  BY <1>1 DEF Start
<1>2. ASSUME NEW p \in Procs, Create(p) PROVE LockInv'
  BY <1>2 DEF Create
<1>3. ASSUME NEW p \in Procs, Refused(p) PROVE LockInv'
  BY <1>3 DEF Refused
<1>4. ASSUME NEW p \in Procs, ReadStale(p) PROVE LockInv'
  BY <1>4 DEF ReadStale, IsStale
<1>5. ASSUME NEW p \in Procs, Remove(p) PROVE LockInv'
  BY <1>5 DEF Remove
<1>6. ASSUME NEW p \in Procs, Recreate(p) PROVE LockInv'
  BY <1>6 DEF Recreate
<1>7. ASSUME NEW p \in Procs, WritePid(p) PROVE LockInv'
  BY <1>7 DEF WritePid
<1>8. ASSUME NEW p \in Procs, Returns(p) PROVE LockInv'
  BY <1>8 DEF Returns
<1>9. ASSUME NEW p \in Procs, Release(p) PROVE LockInv'
  BY <1>9 DEF Release
<1>10. ASSUME NEW p \in Procs, Dies(p) PROVE LockInv'
  BY <1>10 DEF Dies
<1> QED
  BY <1>0, <1>1, <1>2, <1>3, <1>4, <1>5, <1>6, <1>7, <1>8, <1>9, <1>10
     DEF LockNext, Acquire

LEMMA LockInvExclusive == LockInv => Exclusive
  BY DEF LockInv, HolderNamed, Exclusive

LEMMA LockInvariant == LockSpec => []LockInv
  BY LockInitInv, LockNextInv, PTL DEF LockSpec

(* Of any number of processes, killed and started in any order, never two  *)
(* hold the lock as long as no two starts overlap (AcquireLock, lock.go).  *)
THEOREM LockExclusive == LockSpec => []Exclusive
  BY LockInvariant, LockInvExclusive, PTL

-----------------------------------------------------------------------------
(* The parts.                                                              *)

LEMMA StepOfScheduler == [ServiceNext]_serviceVars => [Next]_vars
<1> SUFFICES ASSUME [ServiceNext]_serviceVars PROVE [Next]_vars
  OBVIOUS
<1>1. CASE Locking \/ OtherProcess \/ CycleStep \/ PingStep
  BY <1>1 DEF Locking, OtherProcess, CycleStep, PingStep
<1>2. CASE Runs \/ RunReturns \/ ProcessDies
  BY <1>2 DEF Runs, RunReturns, ProcessDies, Next, Main
<1>3. CASE MainStep \/ CycleBegins \/ CycleOver \/ ChainStep
  BY <1>3 DEF MainStep, CycleBegins, CycleOver, ChainStep, Next, Main
<1>4. CASE Environment
  BY <1>4 DEF Environment, MailHangs, LimiterHangs, Next
<1>5. CASE UNCHANGED serviceVars
  BY <1>5 DEF serviceVars
<1> QED
  BY <1>1, <1>2, <1>3, <1>4, <1>5 DEF ServiceNext

LEMMA StepOfLock == [ServiceNext]_serviceVars => [LockNext]_lockVars
<1> SUFFICES ASSUME [ServiceNext]_serviceVars PROVE [LockNext]_lockVars
  OBVIOUS
<1> USE SvcAssumption
<1>1. CASE Locking \/ OtherProcess \/ RunReturns \/ ProcessDies
  BY <1>1 DEF Locking, OtherProcess, RunReturns, ProcessDies, LockNext
<1>2. CASE Runs \/ MainStep \/ CycleBegins \/ CycleStep \/ CycleOver
  BY <1>2 DEF Runs, MainStep, CycleBegins, CycleStep, CycleOver
<1>3. CASE ChainStep \/ PingStep \/ Environment
  BY <1>3 DEF ChainStep, PingStep, Environment, MailHangs, LimiterHangs
<1>4. CASE UNCHANGED serviceVars
  BY <1>4 DEF serviceVars
<1> QED
  BY <1>1, <1>2, <1>3, <1>4 DEF ServiceNext

(* The service behaves as the scheduler of module Scheduler, so that the   *)
(* theorems about the scheduler hold of it.                                *)
THEOREM ServiceSchedules == ServiceSpec => Spec
  BY StepOfScheduler, PTL DEF ServiceSpec, ServiceInit, Spec

(* ... and as one of the processes of module LockFile.                     *)
THEOREM ServiceLocks == ServiceSpec => LockSpec
  BY StepOfLock, PTL DEF ServiceSpec, ServiceInit, LockSpec

(* Two services run at once only if their starts overlapped.               *)
THEOREM ServiceExclusive == ServiceSpec => []OneInstance
  BY ServiceLocks, LockExclusive, PTL DEF OneInstance

-----------------------------------------------------------------------------
(* The lock and the cycles.                                                *)

\* While Run is under way the lock file is this process's, and no other can
\* get past reading it.
RunLocked ==
  pc # "down" =>
    /\ lpc[Svc] = "held" /\ owner = Svc /\ pid = "live"
    /\ \A p \in Procs \ {Svc} : lpc[p] \in {"down", "create", "read"}

LEMMA RunLockedKept ==
  ASSUME LockInv, RunLocked, [ServiceNext]_serviceVars
  PROVE  RunLocked'
<1> USE SvcAssumption, NoFileAssumption DEF RunLocked
<1>1. CASE Locking
  BY <1>1 DEF Locking, vars
<1>2. CASE Runs
  BY <1>2 DEF Runs, lockVars, LockInv, LockTypeOK, LPC, HolderNamed, NoneReplaced,
              Holds, Replacing
<1>3. CASE RunReturns
  BY <1>3 DEF RunReturns, Unmark
<1>4. CASE ProcessDies
  BY <1>4 DEF ProcessDies, Crash
<1>5. CASE OtherProcess
  <2>1. PICK p \in Procs \ {Svc} :
          Start(p) \/ Acquire(p) \/ Returns(p) \/ Release(p) \/ Dies(p)
    BY <1>5 DEF OtherProcess
  <2>2. pc' = pc
    BY <1>5 DEF OtherProcess, vars
  <2> QED
    BY <2>1, <2>2
       DEF LockInv, LockTypeOK, Start, Acquire, Create, Refused, ReadStale, Remove,
           Recreate, WritePid, Returns, Release, Dies, Goto, NewFile, IsStale
<1>6. CASE MainStep \/ CycleBegins \/ CycleOver \/ ChainStep \/ Environment
  <2>1. UNCHANGED lockVars
    BY <1>6 DEF MainStep, CycleBegins, CycleOver, ChainStep, Environment, MailHangs, LimiterHangs
  <2>2. pc' # "down" => pc # "down"
    BY <1>6 DEF MainStep, CycleBegins, CycleOver, ChainStep, Environment, MailHangs,
                LimiterHangs, Boot, Mark,
                FirstTrigger, SelectTick, OverlapAlertSent, SelectDone, Wait,
                BeginCycle, EndCycle, ChainCheck, TimerFires, StopSignal, vars
  <2> QED
    BY <2>1, <2>2 DEF lockVars
<1>7. CASE CycleStep \/ PingStep \/ UNCHANGED serviceVars
  BY <1>7 DEF CycleStep, PingStep, serviceVars, vars, lockVars
<1> QED
  BY <1>1, <1>2, <1>3, <1>4, <1>5, <1>6, <1>7 DEF ServiceNext

LEMMA ServiceInvariants == ServiceSpec => []IInv /\ []LockInv
  BY ServiceSchedules, ServiceLocks, Invariance, LockInvariant, PTL

(* A cycle's goroutine lives only under this process's lock file.          *)
THEOREM CyclesLocked == ServiceSpec => []CyclesUnderLock
<1>1. ServiceInit => RunLocked
  BY DEF ServiceInit, Init, RunLocked
<1>2. LockInv /\ RunLocked /\ [ServiceNext]_serviceVars => RunLocked'
  BY RunLockedKept
<1>3. IInv /\ RunLocked => CyclesUnderLock
  BY DEF IInv, QuietMain, RunLocked, CyclesUnderLock
<1> QED
  BY <1>1, <1>2, <1>3, ServiceInvariants, PTL DEF ServiceSpec

-----------------------------------------------------------------------------
(* The cycle and its row.                                                  *)

\* In a process that has begun to run cycles, an unfinished row is that of a
\* cycle, or a cycle is about to begin.
RowInv ==
  /\ cpc \in {"report", "mark", "close"} => row = "done"
  /\ row = "RUNNING" => nCycle > 0 \/ unclean
  /\ pc \in {"select", "overlap", "waiting", "unmark"} /\ row = "RUNNING" =>
       nCycle > 0 \/ nSpawned > 0

\* A step within a cycle finishes the row, or leaves row and report alone.
LEMMA RowOfStep ==
  ASSUME C!RunCycle \/ C!PingSend \/ C!PingRead \/ C!ConnDies,
         cpc \in {"report", "mark", "close"} => row = "done"
  PROVE  /\ row' \in {row, "done"}
         /\ cpc' \in {"report", "mark", "close"} => row' = "done"
<1> USE DEF C!cycleVars, C!linkVars, C!eventVars
<1>1. CASE C!PingSend \/ C!PingRead \/ C!ConnDies
  BY <1>1 DEF C!PingSend, C!PingRead, C!ConnDies
<1>2. CASE C!ConnectOk \/ C!ConnectRetried \/ C!ConnectFails \/ C!Disk \/ C!Alarms \/ C!Pass
  BY <1>2 DEF C!ConnectOk, C!ConnectRetried, C!ConnectFails, C!Disk, C!Alarms, C!Pass
<1>3. CASE C!ListSend \/ C!ListNotSent \/ C!ListBatch \/ C!ListLast \/ C!ListError \/ C!Work
  BY <1>3 DEF C!ListSend, C!ListNotSent, C!ListBatch, C!ListLast, C!ListError, C!Work
<1>4. CASE C!Finish \/ C!Report \/ C!Mark
  BY <1>4 DEF C!Finish, C!Report, C!Mark
<1> QED
  BY <1>1, <1>2, <1>3, <1>4 DEF C!RunCycle

LEMMA RowInvKept ==
  ASSUME IInv, RowInv, [ServiceNext]_serviceVars
  PROVE  RowInv'
<1> USE DEF RowInv
<1>a. /\ nCycle \in Nat /\ nSpawned \in Nat /\ nCheck \in Nat
      /\ pc \in {"down", "boot", "mark", "first", "unmark"} =>
           nCycle = 0 /\ nSpawned = 0 /\ ~running
  BY DEF IInv, TypeOK, QuietMain, RunningCounts, Alive
<1>1. CASE Locking \/ OtherProcess
  BY <1>1 DEF Locking, OtherProcess, vars, control
<1>2. CASE Runs
  BY <1>2 DEF Runs, StartProcess, chainVars, control
<1>3. CASE RunReturns
  BY <1>3, <1>a DEF RunReturns, Unmark, control
<1>4. CASE ProcessDies
  <2>1. /\ row' = row /\ cpc' = "off" /\ pc' = "down"
        /\ unclean' = (unclean \/ Alive > 0)
    BY <1>4 DEF ProcessDies, Crash, C!Forgets
  <2>2. nCycle > 0 => Alive > 0
    BY <1>a DEF Alive
  <2> QED
    BY <2>1, <2>2
<1>5. CASE MainStep
  <2>1. UNCHANGED <<cpc, row, nCycle, unclean>>
    BY <1>5 DEF MainStep, control, Boot, Mark, FirstTrigger, SelectTick, Trigger,
                OverlapAlertSent, SelectDone, Wait, chainVars
  <2>2. CASE FirstTrigger
    BY <2>1, <2>2, <1>a DEF FirstTrigger, Trigger
  <2>3. CASE Boot \/ Mark \/ SelectTick \/ OverlapAlertSent \/ SelectDone \/ Wait
    BY <2>1, <2>3, <1>a DEF Boot, Mark, SelectTick, Trigger, OverlapAlertSent,
                            SelectDone, Wait, chainVars
  <2> QED
    BY <1>5, <2>2, <2>3 DEF MainStep
<1>6. CASE CycleBegins
  BY <1>6, <1>a DEF CycleBegins, BeginCycle, C!Begin
<1>7. CASE CycleStep \/ PingStep \/ Environment
  <2>1. CASE UNCHANGED vars
    <3>1. C!RunCycle \/ C!PingSend \/ C!PingRead \/ C!ConnDies \/ UNCHANGED control
      BY <1>7 DEF CycleStep, PingStep, Environment, MailHangs, LimiterHangs
    <3> QED
      BY <2>1, <3>1, RowOfStep DEF vars, control
  <2>2. CASE (TimerFires \/ StopSignal) /\ UNCHANGED control
    BY <2>2 DEF TimerFires, StopSignal, chainVars, control
  <2> QED
    BY <1>7, <2>1, <2>2 DEF CycleStep, PingStep, Environment, MailHangs, LimiterHangs
<1>8. CASE CycleOver
  BY <1>8 DEF CycleOver, EndCycle, C!End, C!Forgets
<1>9. CASE ChainStep
  <2>1. CASE nCycle' > nCycle
    BY <1>9, <1>a, <2>1 DEF ChainStep, ChainCheck, C!Begin
  <2>2. CASE ~(nCycle' > nCycle)
    BY <1>9, <1>a, <2>2 DEF ChainStep, ChainCheck, control
  <2> QED
    BY <2>1, <2>2
<1>10. CASE UNCHANGED serviceVars
  BY <1>10 DEF serviceVars, vars, control
<1> QED
  BY <1>1, <1>2, <1>3, <1>4, <1>5, <1>6, <1>7, <1>8, <1>9, <1>10 DEF ServiceNext

(* The last row says RUNNING only while a cycle runs, or if a process died *)
(* with one (CreateCycle and FinalizeCycle, and what the status command    *)
(* shows).                                                                 *)
THEOREM RowsTell == ServiceSpec => []RowSaysRunning
<1>1. ServiceInit => RowInv
  BY DEF ServiceInit, Init, C!ControlInit, RowInv
<1>2. IInv /\ RowInv /\ [ServiceNext]_serviceVars => RowInv'
  BY RowInvKept
<1>3. RowInv => RowSaysRunning
  BY DEF RowInv, RowSaysRunning
<1> QED
  BY <1>1, <1>2, <1>3, ServiceInvariants, PTL DEF ServiceSpec

-----------------------------------------------------------------------------
(* The cycle and its events.                                               *)

\* What a step of the service does to the record of the cycle.
LEMMA StepOfControl ==
  ASSUME [ServiceNext]_serviceVars
  PROVE  \/ C!Begin \/ C!Forgets
         \/ C!RunCycle
         \/ C!PingSend \/ C!PingRead \/ C!ConnDies
         \/ UNCHANGED control
<1>1. CASE Locking \/ Runs \/ RunReturns \/ OtherProcess \/ MainStep
  BY <1>1 DEF Locking, Runs, RunReturns, OtherProcess, MainStep
<1>2. CASE ProcessDies \/ CycleBegins \/ CycleOver \/ ChainStep
  BY <1>2 DEF ProcessDies, CycleBegins, CycleOver, ChainStep, C!End
<1>3. CASE CycleStep \/ PingStep \/ Environment
  BY <1>3 DEF CycleStep, PingStep, Environment, MailHangs, LimiterHangs
<1>4. CASE UNCHANGED serviceVars
  BY <1>4 DEF serviceVars
<1> QED
  BY <1>1, <1>2, <1>3, <1>4 DEF ServiceNext

\* Behind the report no event is recorded, so that those it lists are all.
EventsInv ==
  /\ unsent \in Nat
  /\ cpc = "mark" => listed = unsent
  /\ cpc = "close" => unsent = 0

LEMMA EventsKept ==
  ASSUME EventsInv, [ServiceNext]_serviceVars
  PROVE  EventsInv'
<1> USE DEF EventsInv, C!cycleVars, C!linkVars, C!eventVars
<1>1. CASE C!Begin \/ C!Forgets \/ UNCHANGED control
  BY <1>1 DEF C!Begin, C!Forgets, control
<1>2. CASE C!PingSend \/ C!PingRead \/ C!ConnDies
  BY <1>2 DEF C!PingSend, C!PingRead, C!ConnDies
<1>3. CASE C!RunCycle
  <2> USE DEF C!Event
  <2>1. CASE C!ConnectOk \/ C!ConnectRetried \/ C!ConnectFails \/ C!Disk \/ C!Alarms
    BY <2>1 DEF C!ConnectOk, C!ConnectRetried, C!ConnectFails, C!Disk, C!Alarms
  <2>2. CASE C!Pass \/ C!ListSend \/ C!ListNotSent \/ C!ListBatch \/ C!ListLast
    BY <2>2 DEF C!Pass, C!ListSend, C!ListNotSent, C!ListBatch, C!ListLast
  <2>3. CASE C!ListError \/ C!Work
    BY <2>3 DEF C!ListError, C!Work
  <2>4. CASE C!Finish \/ C!Report \/ C!Mark
    BY <2>4 DEF C!Finish, C!Report, C!Mark
  <2> QED
    BY <1>3, <2>1, <2>2, <2>3, <2>4 DEF C!RunCycle
<1> QED
  BY <1>1, <1>2, <1>3, StepOfControl

(* The report of a cycle has all its events (sendReport, report.go), for   *)
(* any number of them.                                                     *)
THEOREM EventsReported == ServiceSpec => []NoEventLeftBehind
<1>1. ServiceInit => EventsInv
  BY DEF ServiceInit, C!ControlInit, EventsInv
<1>2. EventsInv /\ [ServiceNext]_serviceVars => EventsInv'
  BY EventsKept
<1>3. EventsInv => NoEventLeftBehind
  BY DEF EventsInv, NoEventLeftBehind
<1> QED
  BY <1>1, <1>2, <1>3, PTL DEF ServiceSpec

-----------------------------------------------------------------------------
(* The cycle and its connection.                                           *)

IsList(f) == f.kind \in {"BATCH", "LAST"}

\* Nothing of a list is to be read.
NoList == \A i \in DOMAIN wire : ~IsList(wire[i])

\* What is to be read ends with the whole list just asked for; only that is
\* in front which is not taken for a list.
WholeList ==
  /\ table = "empty" /\ Len(wire) >= 2
  /\ \A i \in 1 .. Len(wire) - 2 : ~IsList(wire[i])
  /\ wire[Len(wire) - 1] = C!Fresh("BATCH")
  /\ wire[Len(wire)] = C!Fresh("LAST")

RestOfList ==
  /\ table = "begun" /\ Len(wire) = 1
  /\ wire[1] = C!Fresh("LAST")

ListInv ==
  /\ wire \in Seq(C!Frame)
  /\ ping = "read" => cpc # "listRead"
  /\ cpc \in {"connect", "disk", "alarms", "pass", "list", "work"} => NoList
  /\ cpc = "listRead" => wire = <<>> \/ WholeList \/ RestOfList
  /\ cpc = "work" => table = "full"

\* Reading and giving up keep the type, and bring no list.
LEMMA WireReads ==
  ASSUME wire \in Seq(C!Frame), C!Reads \/ C!ReadsNothing
  PROVE  wire' \in Seq(C!Frame) /\ (NoList => NoList')
<1>1. CASE C!Reads
  BY <1>1 DEF C!Reads, NoList
<1>2. CASE C!ReadsNothing
  <2>1. \A i \in DOMAIN wire : wire'[i] = [wire[i] EXCEPT !.late = TRUE]
    BY <1>2 DEF C!ReadsNothing
  <2>2. \A i \in DOMAIN wire : wire[i] \in C!Frame
    OBVIOUS
  <2>3. \A i \in DOMAIN wire : wire'[i] \in C!Frame /\ wire'[i].kind = wire[i].kind
    BY <2>1, <2>2 DEF C!Frame
  <2>4. DOMAIN wire' = DOMAIN wire /\ DOMAIN wire = 1 .. Len(wire) /\ Len(wire) \in Nat
    BY <1>2 DEF C!ReadsNothing
  <2>5. wire' \in [1 .. Len(wire) -> C!Frame]
    BY <1>2, <2>3, <2>4 DEF C!ReadsNothing
  <2> QED
    BY <2>3, <2>4, <2>5 DEF NoList, IsList
<1> QED
  BY <1>1, <1>2

LEMMA PingAppends ==
  ASSUME wire \in Seq(C!Frame), C!Asks(<<C!Fresh("PONG")>>)
  PROVE  wire' \in Seq(C!Frame) /\ (NoList => NoList')
<1>1. wire' = Append(wire, C!Fresh("PONG"))
  BY DEF C!Asks
<1> QED
  BY <1>1 DEF C!Frame, C!Fresh, NoList, IsList

LEMMA ListAppends ==
  ASSUME wire \in Seq(C!Frame), NoList, C!Asks(<<C!Fresh("BATCH"), C!Fresh("LAST")>>), table' = "empty"
  PROVE  wire' \in Seq(C!Frame) /\ WholeList'
<1> DEFINE batch == C!Fresh("BATCH")
           last == C!Fresh("LAST")
<1>1. wire' = wire \o <<batch, last>>
  BY DEF C!Asks
<1>2. /\ batch \in C!Frame /\ last \in C!Frame
      /\ batch.kind = "BATCH" /\ last.kind = "LAST"
  BY DEF C!Frame, C!Fresh
<1> HIDE DEF batch, last
<1>3. <<batch, last>> \in Seq(C!Frame) /\ Len(<<batch, last>>) = 2
  BY <1>2
<1>4. wire' \in Seq(C!Frame) /\ Len(wire') = Len(wire) + 2 /\ Len(wire) \in Nat
  BY <1>1, <1>3
<1>5. \A i \in 1 .. Len(wire) : wire'[i] = wire[i]
  BY <1>1, <1>3
<1>6. wire'[Len(wire) + 1] = batch /\ wire'[Len(wire) + 2] = last
  BY <1>1, <1>3
<1>7. \A i \in 1 .. Len(wire') - 2 : ~IsList(wire'[i])
  BY <1>4, <1>5 DEF NoList, IsList
<1> QED
  BY <1>4, <1>6, <1>7 DEF WholeList, IsList, batch, last

\* Of a list that is still to be read whole or in part, the head tells which.
LEMMA HeadOfList ==
  ASSUME wire \in Seq(C!Frame), wire # <<>>, WholeList \/ RestOfList
  PROVE  /\ Head(wire).kind = "BATCH" =>
              /\ table = "empty" /\ ~Head(wire).late
              /\ Len(Tail(wire)) = 1
              /\ Tail(wire)[1] = C!Fresh("LAST")
         /\ Head(wire).kind = "LAST" =>
              table = "begun" /\ ~Head(wire).late /\ Len(Tail(wire)) = 0
<1>1. CASE RestOfList
  BY <1>1 DEF RestOfList, C!Fresh
<1>2. CASE WholeList
  <2>1. CASE Len(wire) = 2
    <3>1. wire[1] = C!Fresh("BATCH")
          /\ wire[2] = C!Fresh("LAST")
      BY <1>2, <2>1 DEF WholeList
    <3>2. Head(wire) = wire[1] /\ Len(Tail(wire)) = 1 /\ Tail(wire)[1] = wire[2]
      BY <2>1
    <3> QED
      BY <1>2, <3>1, <3>2 DEF WholeList, C!Fresh
  <2>2. CASE Len(wire) # 2
    <3>0. Len(wire) \in Nat
      OBVIOUS
    <3>a. Len(wire) >= 2
      BY <1>2, <3>0 DEF WholeList
    <3>b. \A n \in Nat : n >= 2 /\ n # 2 => 1 \in 1 .. n - 2
      OBVIOUS
    <3>1. 1 \in 1 .. Len(wire) - 2
      BY <2>2, <3>0, <3>a, <3>b
    <3>2. Head(wire) = wire[1]
      OBVIOUS
    <3> QED
      BY <1>2, <3>1, <3>2 DEF WholeList, IsList
  <2> QED
    BY <2>1, <2>2
<1> QED
  BY <1>1, <1>2

LEMMA ListKept ==
  ASSUME ListInv, [ServiceNext]_serviceVars
  PROVE  ListInv'
<1> USE DEF C!cycleVars, C!linkVars, C!eventVars
<1>0. wire \in Seq(C!Frame)
  BY DEF ListInv
<1>1. CASE C!Begin \/ C!Forgets
  <2>1. wire' = <<>> /\ ping' = "off" /\ cpc' \in {"connect", "off"}
    BY <1>1 DEF C!Begin, C!Forgets
  <2>2. wire' \in Seq(C!Frame) /\ NoList'
    BY <2>1 DEF NoList
  <2> QED
    BY <2>1, <2>2 DEF ListInv
<1>2. CASE UNCHANGED control
  BY <1>2 DEF control, ListInv, NoList, WholeList, RestOfList
<1>3. CASE C!ConnDies
  BY <1>3 DEF C!ConnDies, ListInv, NoList
<1>4. CASE C!PingSend
  BY <1>4, <1>0, PingAppends DEF C!PingSend, C!MutexFree, ListInv
<1>5. CASE C!PingRead
  BY <1>5, <1>0, WireReads DEF C!PingRead, ListInv
<1>6. CASE C!ListSend
  BY <1>6, <1>0, ListAppends DEF C!ListSend, C!MutexFree, ListInv
<1>7. CASE C!ListBatch
  <2>1. wire # <<>> /\ Head(wire).kind = "BATCH" /\ wire' = Tail(wire) /\ ping # "read"
    BY <1>7 DEF C!ListBatch, C!Got, C!Reads, ListInv
  <2>2. RestOfList'
    BY <1>7, <2>1, <1>0, HeadOfList DEF C!ListBatch, ListInv, RestOfList
  <2> QED
    BY <1>7, <1>0, <2>1, <2>2, WireReads DEF C!ListBatch, ListInv
<1>8. CASE C!ListLast
  <2>1. wire # <<>> /\ Head(wire).kind = "LAST" /\ wire' = Tail(wire)
    BY <1>8 DEF C!ListLast, C!Got, C!Reads
  <2>2. Len(wire') = 0 /\ table' = "full" /\ cpc' = "work"
    BY <1>8, <2>1, <1>0, HeadOfList DEF C!ListLast, ListInv
  <2>3. wire' \in Seq(C!Frame) /\ NoList'
    BY <1>0, <2>1, <2>2 DEF NoList
  <2> QED
    BY <2>2, <2>3 DEF ListInv
<1>9. CASE C!ListError
  BY <1>9, <1>0, WireReads DEF C!ListError, ListInv
<1>10. CASE C!ConnectOk \/ C!ConnectRetried \/ C!ConnectFails
  BY <1>10 DEF C!ConnectOk, C!ConnectRetried, C!ConnectFails, ListInv, NoList
<1>11. CASE C!Disk
  <2>1. wire' = wire \/ wire' = <<[kind |-> "DISK", late |-> TRUE]>>
    BY <1>11 DEF C!Disk
  <2> DEFINE disk == [kind |-> "DISK", late |-> TRUE]
  <2>2. disk \in C!Frame /\ ~IsList(disk)
    BY DEF C!Frame, IsList
  <2> HIDE DEF disk
  <2>3. ASSUME wire' = <<disk>> PROVE wire' \in Seq(C!Frame) /\ NoList'
    BY <2>2, <2>3 DEF NoList
  <2>4. wire' \in Seq(C!Frame) /\ (NoList => NoList')
    BY <2>1, <2>3, <1>0 DEF NoList, disk
  <2> QED
    BY <1>11, <2>4 DEF C!Disk, ListInv
<1>12. CASE C!Alarms \/ C!Pass \/ C!ListNotSent \/ C!Work
  BY <1>12 DEF C!Alarms, C!Pass, C!ListNotSent, C!Work, ListInv, NoList
<1>13. CASE C!Finish \/ C!Report \/ C!Mark
  BY <1>13 DEF C!Finish, C!Report, C!Mark, ListInv, NoList
<1> QED
  BY <1>1, <1>2, <1>3, <1>4, <1>5, <1>6, <1>7, <1>8, <1>9, <1>10, <1>11, <1>12, <1>13,
     StepOfControl DEF C!RunCycle

(* What a cycle compares with its index is the whole of the list it asked  *)
(* for in this pass (loadList, control.go), however many late answers are  *)
(* in front of it and however the ping goroutine comes in between.         *)
THEOREM ListsCurrent == ServiceSpec => []ListIsCurrent
<1>1. ServiceInit => ListInv
  BY DEF ServiceInit, C!ControlInit, ListInv
<1>2. ListInv /\ [ServiceNext]_serviceVars => ListInv'
  BY ListKept
<1>3. ListInv => ListIsCurrent
  BY DEF ListInv, ListIsCurrent
<1> QED
  BY <1>1, <1>2, <1>3, PTL DEF ServiceSpec

=============================================================================
