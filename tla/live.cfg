\* The service is started before the port is used: every request completes and
\* every acknowledged write reaches the real port.
\* The bounds end every behaviour, so there are states without a successor.
SPECIFICATION FairSpec
CONSTANTS
  app1 = app1
  app2 = app2
  t1 = t1
  t2 = t2
  none = none
  svc = svc
  Issuers <- TwoApps
  Threads <- MCThreads
  NoThread = none
  NoIssuer = none
  PACKET_SIZE = 1024
  MSG_SIZE = 2048
  PipeQuota = 1
  Ops = {"write", "read", "baud", "ioctl"}
  Lengths = {0, 1}
  Tails <- ZeroTail
  EnvChunks <- MCEnvChunks
  MaxRequests <- MCMaxRequests
  CreateMayFail = FALSE
  MaxStarts = 1
  BlockSizes = {0, 1, 2}
  Faults = {}
  ServiceFirst = TRUE
  AppOps = {"write", "read", "ioctl"}
  AppLengths = {1}
  AppRequests = 2
CHECK_DEADLOCK FALSE
PROPERTIES
  RequestsComplete
  AckedReachesPort
