\* Two workers, two paths, room for two rows; a retry, two passes, pages of
\* one row, and one crash anywhere.  No symmetry, for CycleEnds.
SPECIFICATION FairSpec
CONSTANTS
  Paths = {p1, p2}
  Ids = {1, 2}
  Workers = {w1, w2}
  RetryCount = 2
  MaxPasses = 2
  PageSize = 1
  MaxCrashes = 1
  NoRow = NoRow
INVARIANTS
  TypeOK
  NoSharedPart
  NilMeansDrained
  OkMeansComplete
PROPERTIES
  RowLifecycle
  CycleEnds
