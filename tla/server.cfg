\* Three threads in any order, the port failing at any open
\* The process ends, so there are states without a successor.
SPECIFICATION ServerFairSpec
CONSTANTS
  MaxOpens = 3
  MaxClients = 2
CHECK_DEADLOCK FALSE
INVARIANTS
  PortKept
PROPERTIES
  NoneAccepted
  ShutdownEnds
