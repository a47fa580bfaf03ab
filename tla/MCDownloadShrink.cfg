SPECIFICATION FairSpec
CONSTANTS
  Versions = {1, 4}
  Content <- MCContent
  Mtime <- MCMtime
  Tolerance = 2
  DeltaMin = 0
  MaxFaults = 1
PROPERTIES
  ChangedIsStored
CHECK_DEADLOCK FALSE
