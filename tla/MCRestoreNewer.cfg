\* One run of the command, one thing that goes wrong.
SPECIFICATION Spec
CONSTANTS
  Configs <- MCConfigs
  Versions <- MCVersions
  Blocks = 1
  MaxConn = 2
  MaxRuns = 1
  MaxFaults = 1
CHECK_DEADLOCK FALSE
PROPERTIES
  NewerNeedsForce
