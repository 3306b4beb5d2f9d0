CONSTANTS
  NodeID <- MCNodeID
  fast_hash <- MCHash
  Epsilon = 1
  SearchSpace = 3
  Inputs <- MCExcludeInputs
  Priorities = {0, 1}
  MaxPriority = 9
  RenumberBelow = 3
  BaseCore = 1
  Queries <- MCQueries
  TwoSegments = FALSE
  Offsets = {0}
SPECIFICATION ContractorSpec
INVARIANT ExcludesAreRouted
CHECK_DEADLOCK FALSE
