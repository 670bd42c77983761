SPECIFICATION FairSpec
CONSTANTS
  Chunks = 3
  Window = 2
  MaxRounds = 1
  MaxLoss = 1
  MaxFaults = 1
INVARIANTS
  TypeOK
  CompleteMeansReceived
  OneOutcome
  EveryChunkTracked
  NoOrphan
PROPERTIES
  TransferEnds
CHECK_DEADLOCK FALSE
