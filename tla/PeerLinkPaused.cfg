SPECIFICATION Spec
CONSTANTS
  a = a
  b = b
  Node <- MCNode
  SmallerKey = a
  SmallerEndpoint = a
  MaxConns = 3
  MaxAttempts = 2
  MaxFaults = 0
  MaxDials = 1
  MaxLeaves = 1
  Prompt = TRUE
INVARIANTS
  StaysDisconnected
CHECK_DEADLOCK FALSE
