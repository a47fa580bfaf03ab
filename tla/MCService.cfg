\* Two processes, ticks, stops and crashes anywhere; two passes, one event,
\* one or two late answers.
SPECIFICATION FairServiceSpec
CONSTANTS
  Procs = {svc, other}
  Svc = svc
  NoFile = nofile
  Retries = 2
  MaxPasses = 2
  MaxEvents = 1
  MaxLate = 2
INVARIANTS
  TypeOK
  AtMostOneCycle
  RestartAlertSent
  OneInstance
  CyclesUnderLock
  ListIsCurrent
  NoEventLeftBehind
  RowSaysRunning
PROPERTIES
  ImplementsCycleQueue
  NoTriggerLost
  ShutdownCompletes
