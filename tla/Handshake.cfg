SPECIFICATION FairSpec
CONSTANTS
  a = a
  b = b
  Node <- MCNode
  First = a
  Preempted = TRUE
  EarlyTimeout = TRUE
  MaxCalls = 2
  MaxOverlaps = 1
  MaxReplaced = 1
INVARIANTS
  TypeOK
  SameSasIfTimely
  ConvergesAtRest
  AnswerMatchesSession
  WaiterBelongsToCall
PROPERTIES
  EveryCallReturns
  DialConverges
CHECK_DEADLOCK FALSE
