SPECIFICATION FairSpec
CONSTANTS
  Jobs = 3
  BlockSize = 1
  MaxConcurrency = 4
  FileSize = 0
  MaxInput = 3
  Faults = {"encode"}
  StopOnError = TRUE
CHECK_DEADLOCK FALSE
PROPERTY CallsReturn
