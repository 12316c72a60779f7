SPECIFICATION PipeSpec
CONSTANTS
  ByteBits = 2
  WordBytes = 2
  BufferBytes = 12
  MaxBits = 62
  BitCounts = {2, 3, 4}
  ArraySizes = {5, 17, 30, 33}
  MaxFailures = 1
  ShortArrays = TRUE
  InBufferBytes = 14
  InBitCounts = {3}
  InArraySizes = {9, 18, 29}
  ShortReads = FALSE
  ReadErrors = TRUE
  AsksAtLastByte = FALSE
CHECK_DEADLOCK FALSE
INVARIANT PipeTypeOK
INVARIANT ClosedIsComplete
INVARIANT WrittenIsExact
INVARIANT PipeInOrder
INVARIANT EndIsReal
