\* Any cut of the streams, two clients, every fault
\* The bounds end every behaviour, so there are states without a successor.
SPECIFICATION CMFairSpec
CONSTANTS
  READ_AHEAD = 3
  AskLengths = {1, 2}
  Layouts = {"frame"}
  MaxCalls = 3
  MaxConnects = 2
  MaxServers = 2
  ReadLen = 3
  Faults = {"die", "sigint", "port", "close", "exit"}
CHECK_DEADLOCK FALSE
INVARIANTS
  TcpInv
  PortInOrder
  RepliesMatch
  RelayInOrder
PROPERTIES
  
  LoneReadReturns
