SPECIFICATION FairSpec
CONSTANTS
  Jobs = 2
  BlockSize = 3
  MaxConcurrency = 4
  FileSize = 5
  MaxInput = 6
  Faults = {"encode", "emit", "end", "flush"}
  StopOnError = FALSE
CHECK_DEADLOCK FALSE
PROPERTY CancelStands
PROPERTY CallsReturn
