SPECIFICATION Spec
CONSTANTS
  a = a
  b = b
  End <- MCEnd
  HalfRing = 4
  Window = 2
  MaxRetries = 2
  MaxRecvBuffer = 2
  EarlyTimeout = FALSE
  MaxSend <- MCShortSend
  MaxLag = 4
  MaxLoss = 4
  LineCapacity = 4
INVARIANTS
  LinkLossDeclared
CHECK_DEADLOCK FALSE
