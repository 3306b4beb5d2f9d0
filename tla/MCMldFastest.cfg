CONSTANTS
  NodeID <- MCNodeID
  NUM_BISECTION_BITS = 3
  max_cell_sizes <- MCCellSizes
  Inputs <- MCStreets
  Bisections <- MCBisections
  NUM_PARTITION_BITS = 64
  Queries <- MCStreetQueries
  TableQueries <- MCTableQueries
  ViaQueries <- MCViaQueries
SPECIFICATION MldSpec
INVARIANT FastestRoutes
CHECK_DEADLOCK FALSE
