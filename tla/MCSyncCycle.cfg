\* A pair of twins and a third path; a rename and a rewrite, and one fault
\* anywhere; batches smaller than the tree.
SPECIFICATION FairSpec
CONSTANTS
  Paths <- MCPaths
  Norm <- MCNorm
  MaxChanges = 2
  MaxFaults = 1
  MaxPasses = 2
  BatchLimit = 2
INVARIANTS
  TypeOK
  OkMeansMirrored
PROPERTIES
  TrashedOnlyIfMissed
  Converges
