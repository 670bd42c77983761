SPECIFICATION FairSpec
CONSTANTS
  a = a
  b = b
  Node <- MCNode
  SmallerKey = a
  SmallerEndpoint = a
  MaxConns = 3
  MaxAttempts = 2
  MaxFaults = 1
  MaxDials = 2
  MaxLeaves = 1
  Prompt = TRUE
INVARIANTS
  TypeOK
  
  NoStrayConnection
  

PROPERTIES
  Settles
CHECK_DEADLOCK FALSE
