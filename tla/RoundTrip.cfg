SPECIFICATION RoundTripSpec
CONSTANTS
  MaxSize = 4
  BufferSize = 2
  InputKinds = {"file", "pipe"}
  Outputs = {"absent", "other", "same", "alias", "null", "stdout", "none"}
  Faults = {"create", "stream", "open", "read", "write", "close", "kill"}
  OldSizes = {5}
  DOutputs = {"absent", "other", "same", "alias", "null", "stdout", "none"}
  DFaults = {"create", "stream", "open", "corrupt", "write", "close", "kill"}
CHECK_DEADLOCK FALSE
INVARIANT SourceKept
INVARIANT FileZeroIsComplete
INVARIANT CompressedKept
INVARIANT CompleteIsAccepted
INVARIANT RoundTrip
