\* The ring buffer, m_Tail stored once or twice when it wraps
\* The bound on the bytes ends every behaviour, so there are states without a
\* successor.
SPECIFICATION RingSpec
CONSTANTS
  Size = 5
  WriteSizes <- MCSizes
  ReadSizes <- MCSizes
  MaxBytes = 30
  WrapInterrupted = FALSE
CHECK_DEADLOCK FALSE
INVARIANTS
  RingInv
  ReadsInOrder
  CountsExact
  CopiesDisjoint
  AssertsHold
PROPERTIES
  IsLossyFifo
