SPECIFICATION Spec
CONSTANTS
  ByteBits = 4
  VarIntBytes = 4
  Jobs = 2
  SmallBlock = 3
  ExtraBuffer = 32
  MinTransformed = 128
  MinBlockSize = 16
  MaxBlockSize = 1048576
  SizeUnit = 4
  Requests <- MCRequests
CHECK_DEADLOCK FALSE
INVARIANT BlockTypeOK
INVARIANT Restored
INVARIANT Accepted
INVARIANT Mirrored
INVARIANT FitsRoom
INVARIANT ReadsWhatWasWritten
INVARIANT FrequenciesAddUp
INVARIANT CodesAreDecodable
