SPECIFICATION Spec
CONSTANTS
  Jobs = 3
  BlockSize = 1
  MaxConcurrency = 3
  FileSize = 6
  MaxInput = 6
  Faults = {}
  StopOnError = FALSE
CHECK_DEADLOCK FALSE
INVARIANT AckedIsKept
