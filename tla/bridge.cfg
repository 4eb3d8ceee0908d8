\* Server mode with every fault: the exchange protocol, the driver's contract and
\* the serial line
\* The bounds end every behaviour, so there are states without a successor.
SPECIFICATION BridgeSpec
CONSTANTS
  app1 = app1
  app2 = app2
  t1 = t1
  t2 = t2
  none = none
  svc = svc
  Issuers <- TwoApps
  Threads <- MCThreads
  NoThread = none
  NoIssuer = none
  PACKET_SIZE = 1024
  MSG_SIZE = 2048
  PipeQuota = 2
  Ops = {"write", "read", "baud", "ioctl"}
  Lengths = {0, 2}
  Tails <- ZeroTail
  EnvChunks <- MCEnvChunks
  MaxRequests <- MCMaxRequests
  CreateMayFail = TRUE
  MaxStarts = 2
  BlockSizes = {0, 1, 3}
  Faults = {"comopen", "comwrite", "comread", "vcom", "crash"}
  ServiceFirst = FALSE
  AppOps = {"write", "read", "baud"}
  AppLengths = {2}
  AppRequests = 2
CHECK_DEADLOCK FALSE
SYMMETRY Symm
INVARIANTS
  LineInv
  OneExchange
  ReplyFits
  ForwardedIntact
  ReadFits
PROPERTIES
  DriverBehaviour
  IsSerialLine
