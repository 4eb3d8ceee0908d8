\* The driver with an arbitrary client; every request kind, one message of quota
SPECIFICATION DriverSpec
CONSTANTS
  app1 = app1
  app2 = app2
  t1 = t1
  t2 = t2
  none = none
  Issuers <- MCIssuers
  Threads <- MCThreads
  NoThread = none
  NoIssuer = none
  PACKET_SIZE = 1024
  MSG_SIZE = 2048
  PipeQuota = 1
  Ops = {"write", "read", "baud", "ioctl"}
  Lengths = {1, 2047}
  Tails <- MCTails
  EnvChunks <- MCEnvChunks
  MaxRequests <- MCMaxRequests
  CreateMayFail = TRUE
SYMMETRY Symm
CHECK_DEADLOCK FALSE
INVARIANTS
  DriverInv
  HandleLive
  NoPipeLeak
  FlagsAgree
  SentIntact
