SPECIFICATION Spec
CONSTANTS
  a = a
  b = b
  Node <- MCNode
  MaxPending = 1
  MaxHeld = 1
  MaxSend <- MCSend
  MaxSessions = 2
INVARIANTS
  TypeOK
  OnePlace
  TrustGate
  StrandedOnlyIfStale
CHECK_DEADLOCK FALSE
