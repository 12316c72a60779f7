SPECIFICATION FairSpec
CONSTANTS
  Jobs = 4
  BlockSize = 1
  MaxBlocks = 4
  MaxDamaged = 1
  Kinds = {"ok", "bad"}
  Ends = {"end"}
  ReadSizes = {1}
  Headers = {"valid"}
  Contexts <- OnlyPlain
  StopOnError = TRUE
CHECK_DEADLOCK FALSE
PROPERTY CallsReturn
