CONSTANTS
  NodeID <- MCNodeID
  NUM_BISECTION_BITS = 3
  max_cell_sizes <- MCCellSizes
  Inputs <- MCInputs
  Bisections <- MCBisections
  NUM_PARTITION_BITS = 8
  Queries <- MCQueries
  TableQueries <- MCTableQueries
  ViaQueries <- MCViaQueries
SPECIFICATION MldSpec
INVARIANTS CellsNested  CellsExact MldRoutesShortest TablesAreShortest ViaRoutesShortest
CHECK_DEADLOCK FALSE
