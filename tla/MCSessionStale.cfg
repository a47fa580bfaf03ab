\* A new file and two with an old copy; the default of three attempts; three
\* errors.
SPECIFICATION Spec
CONSTANTS
  Paths = {1, 2, 3}
  Size <- MCSize
  HasOld = {2, 3}
  DeltaMin = 1
  RetryCount = 3
  MaxFaults = 3
INVARIANTS
  StoredAsItIs
CHECK_DEADLOCK FALSE
