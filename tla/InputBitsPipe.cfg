SPECIFICATION Spec
CONSTANTS
  ByteBits = 2
  WordBytes = 2
  BufferBytes = 14
  Sizes = {8}
  BitCounts = {2, 3, 4}
  ArraySizes = {3, 11}
  ShortReads = TRUE
  ReadErrors = FALSE
  AsksAtLastByte = FALSE
CHECK_DEADLOCK FALSE
INVARIANT InOrder
