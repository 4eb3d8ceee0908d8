\* Four requests of any kind, in any order
SPECIFICATION IoctlSpec
CONSTANTS
  r1 = r1
  r2 = r2
  r3 = r3
  r4 = r4
  Requests <- MCRequests
  Values = {0, 1, 2}
  MAXULONG = 2
  LineRequests <- MCAllLines
SYMMETRY MCSymm
CHECK_DEADLOCK FALSE
INVARIANTS
  IoctlTypeOK
  LineStored
  AnswersLastSet
  WaitersQueued
  CompletedOnce
PROPERTIES
  WaitFailsOnlyReplaced
