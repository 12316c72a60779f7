SPECIFICATION FairSpec
CONSTANTS
  Jobs = 3
  BlockSize = 2
  MaxBlocks = 4
  MaxDamaged = 1
  Kinds = {"ok", "bad", "crc", "big"}
  Ends = {"end", "cut", "torn"}
  ReadSizes = {3}
  Headers = {"valid", "mismatch", "absent"}
  Contexts <- UsualContexts
  StopOnError = FALSE
CHECK_DEADLOCK FALSE
INVARIANT TypeOK
INVARIANT TurnExclusion
INVARIANT RightBlock
INVARIANT PassedOn
INVARIANT DeliveredIsPrefix
INVARIANT EOFIsComplete
INVARIANT UndamagedIsRead
PROPERTY CallsReturn
