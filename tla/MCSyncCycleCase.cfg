SPECIFICATION FairSpec
CONSTANTS
  Paths <- MCTwins
  Norm <- MCTwinsNorm
  MaxChanges = 2
  MaxFaults = 0
  MaxPasses = 2
  BatchLimit = 2
PROPERTIES
  UnchangedIsSkipped
