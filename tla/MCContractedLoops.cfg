CONSTANTS
  NodeID <- MCNodeID
  fast_hash <- MCHash
  Epsilon = 1
  SearchSpace = 3
  Inputs <- MCLoopInputs
  Priorities = {0, 1}
  MaxPriority = 9
  RenumberBelow = 3
  BaseCore = 1
  Queries <- MCQueries
  TwoSegments = FALSE
  Offsets = {0, 1}
SPECIFICATION ContractorSpec
INVARIANT OnewayLoops
CHECK_DEADLOCK FALSE
