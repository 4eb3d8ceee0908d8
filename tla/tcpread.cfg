\* A read request whose header is cut, or that arrives together with a write
\* The bounds end every behaviour, so there are states without a successor.
SPECIFICATION TcpFairSpec
CONSTANTS
  MaxCalls = 2
  MaxConnects = 1
  MaxServers = 1
  ReadLen = 1
  Faults = {}
CHECK_DEADLOCK FALSE
PROPERTIES
  ReadsReturn
