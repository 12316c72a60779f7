SPECIFICATION FairSpec
CONSTANTS
  Jobs = 3
  BlockSize = 2
  MaxConcurrency = 4
  FileSize = 0
  MaxInput = 12
  Faults = {"emit", "end", "flush"}
  StopOnError = TRUE
CHECK_DEADLOCK FALSE
INVARIANT TypeOK
INVARIANT TurnExclusion
INVARIANT OrderedPrefix
INVARIANT Conservation
INVARIANT ClosedIsComplete
PROPERTY CancelStands
PROPERTY CallsReturn
PROPERTY ImplementsBlockLog
