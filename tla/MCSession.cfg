\* Three files, all of a size for delta once they are stored; four attempts
\* for a task and four errors anywhere: answers to earlier requests are taken
\* by plain and by delta transfers, and files are stored with other content.
SPECIFICATION FairSpec
CONSTANTS
  Paths = {1, 2, 3}
  Size <- MCSize
  HasOld = {3}
  DeltaMin = 1
  RetryCount = 4
  MaxFaults = 4
INVARIANTS
  TypeOK
  UnchangedIsStored
PROPERTIES
  StoredInTheEnd
CHECK_DEADLOCK FALSE
