SPECIFICATION Spec
CONSTANTS
  a = a
  b = b
  Node <- MCNode
  First = a
  Preempted = FALSE
  EarlyTimeout = TRUE
  MaxCalls = 2
  MaxOverlaps = 0
  MaxReplaced = 0
INVARIANTS
  SameSas
CHECK_DEADLOCK FALSE
