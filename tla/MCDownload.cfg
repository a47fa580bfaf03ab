SPECIFICATION FairSpec
CONSTANTS
  Versions = {1, 2, 3, 4}
  Content <- MCContent
  Mtime <- MCMtime
  Tolerance = 2
  DeltaMin = 2
  MaxFaults = 2
INVARIANTS
  TypeOK
  UnchangedIsStored
  PartMatchesMeta
PROPERTIES
  ProgressKept
  StoredUnlessBadOffset
CHECK_DEADLOCK FALSE
