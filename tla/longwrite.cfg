\* A write longer than a message of the service
SPECIFICATION BridgeSpec
CONSTANTS
  app1 = app1
  app2 = app2
  t1 = t1
  t2 = t2
  none = none
  svc = svc
  Issuers <- OneApp
  Threads <- MCThreads
  NoThread = none
  NoIssuer = none
  PACKET_SIZE = 1024
  MSG_SIZE = 2048
  PipeQuota = 1
  Ops = {"write", "read", "baud", "ioctl"}
  Lengths = {0, 1025}
  Tails <- ZeroTail
  EnvChunks <- MCEnvChunks
  MaxRequests <- MCMaxRequests
  CreateMayFail = FALSE
  MaxStarts = 1
  BlockSizes = {0, 1, 2}
  Faults = {}
  ServiceFirst = FALSE
  AppOps = {"write"}
  AppLengths = {1025}
  AppRequests = 1
CHECK_DEADLOCK FALSE
INVARIANT ForwardedIntact
