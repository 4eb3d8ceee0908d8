\* Two devices, one after the other, every failure and one death of the host
\* The bounds end every behaviour, so there are states without a successor.
SPECIFICATION LifecycleSpec
CONSTANTS
  MaxAdds = 2
  MaxCrashes = 1
CHECK_DEADLOCK FALSE
INVARIANTS
  LifecycleInv
  RefsCountPointers
  ReleasedOnce
  KeyFollowsDevice
  FreshPipe
