SPECIFICATION Spec
CONSTANTS
  ByteBits = 4
  VarIntBytes = 4
  Jobs = 2
  SmallBlock = 3
  ExtraBuffer = 32
  MinTransformed = 128
  MinBlockSize = 16
  MaxBlockSize = 1048576
  SizeUnit = 4
  Requests <- CutTexts
CHECK_DEADLOCK FALSE
INVARIANT Restored
