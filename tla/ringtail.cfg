\* A Read begins between the two stores to m_Tail, when everything has been read.
\* The bound on the bytes ends every behaviour, so there are states without a
\* successor.
SPECIFICATION RingSpec
CONSTANTS
  Size = 5
  WriteSizes <- MCSizes
  ReadSizes <- MCSizes
  MaxBytes = 12
  WrapInterrupted = TRUE
CHECK_DEADLOCK FALSE
INVARIANTS
  ReadsInOrder
