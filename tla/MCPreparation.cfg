CONSTANTS
  NodeID <- MCNodeID
  fast_hash <- MCHash
  Epsilon = 1
  SearchSpace = 3
  Inputs <- MCInputs
  Priorities = {0, 1}
  MaxPriority = 9
  RenumberBelow = 3
  BaseCore = 1
  Queries <- MCQueries
  TwoSegments = TRUE
  Offsets = {0, 1}
\* Two road networks of six nodes; ways of up to six nodes, over all the roads of the
\* longest restriction and the next.
  Junctions <- MCJunctions
  ProcessTurn <- MCProcessTurn
  Maps <- MCMaps
  Conditions = {"rush"}
  MaxWay = 6
SPECIFICATION Spec
INVARIANTS  OverridesResolved DistancesPreserved RoundsContract ContractedApart 
CHECK_DEADLOCK FALSE
