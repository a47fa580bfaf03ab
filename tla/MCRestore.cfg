\* A file of two blocks; one run of two attempts; two things that go wrong.
SPECIFICATION FairSpec
CONSTANTS
  Configs <- MCConfigs
  Versions <- MCVersions
  Blocks = 2
  MaxConn = 2
  MaxRuns = 1
  MaxFaults = 2
CHECK_DEADLOCK FALSE
INVARIANTS
  TypeOK
  RestoredIsSent
  ReplacedAtOnce
  ResumesSameVersion
PROPERTIES
  NewerKept
  CommandEnds
  SlotsFreed
