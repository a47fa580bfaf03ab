SPECIFICATION FairSpec
CONSTANTS
  MaxGen = 1
  MaxVersion = 2
  MaxDay = 0
  Retention = 1
  MaxFaults = 1
  Rename = {TRUE}
PROPERTIES
  ReappearedIsDownloaded
CHECK_DEADLOCK FALSE
