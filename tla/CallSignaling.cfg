SPECIFICATION Spec
CONSTANTS
  a = a
  b = b
  Node <- MCNode
  Apps = {"desktop", "android"}
  MaxCalls = 2
  MaxBreaks = 1
  MaxFaults = 1
  MaxOverlaps = 2
  MaxTroubles = 2
SYMMETRY Symmetry
INVARIANTS
  TypeOK
  
  
  
  CandidatesArrive
CHECK_DEADLOCK FALSE
