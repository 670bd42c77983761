SPECIFICATION FairSpec
CONSTANTS
  a = a
  b = b
  End <- MCEnd
  HalfRing = 3
  Window = 2
  MaxRetries = 8
  MaxRecvBuffer = 2
  EarlyTimeout = FALSE
  MaxSend <- MCBothSend
  MaxLag = 3
  MaxLoss = 2
  LineCapacity = 4
INVARIANTS
  TypeOK
  InOrderDelivery
  ReleasedOnlyIfDelivered
  GapWithinWindow
PROPERTIES
  EverythingArrives
  ImplementsChannel
CHECK_DEADLOCK FALSE
