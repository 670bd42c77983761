SPECIFICATION Spec
CONSTANTS
  a = a
  b = b
  Node <- MCNode
  SmallerKey = a
  SmallerEndpoint = a
  MaxConns = 3
  MaxAttempts = 2
  MaxFaults = 1
  MaxDials = 2
  MaxLeaves = 0
  Prompt = TRUE
INVARIANTS
  NoMutualResponders
CHECK_DEADLOCK FALSE
