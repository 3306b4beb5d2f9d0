----------------------------- MODULE Partitioner -----------------------------
(***************************************************************************)
(* osrm-partition after the bisection: cells of every level from the       *)
(* bisection ids (bisection_to_partition.cpp), the repair of nodes that    *)
(* have no edge inside their cell (remove_unconnected.hpp) and the new     *)
(* numbering of the nodes (renumber.cpp, partitioner.cpp).                 *)
(*                                                                         *)
(* A bisection id is the set of its one bits. A cell is a set of nodes, as *)
(* the order of the nodes inside a range of the permutation is not used.   *)
(***************************************************************************)
EXTENDS EdgeBasedGraph, Sequences, FiniteSetsExt

CONSTANTS NodeID,               \* 0 .. number of nodes - 1
          NUM_BISECTION_BITS,
          max_cell_sizes,       \* of each level, from the lowest to the highest
          Inputs                \* edge-expanded graphs with bisection ids

ASSUME PartitionerAssumption ==
  /\ NUM_BISECTION_BITS \in Nat \ {0}
  /\ max_cell_sizes \in Seq(Nat \ {0}) /\ Len(max_cell_sizes) > 0
  /\ IsFiniteSet(NodeID) /\ NodeID = 0..(Cardinality(NodeID) - 1)
  /\ \A in \in Inputs :
       /\ in.ids \in [NodeID -> SUBSET (0..(NUM_BISECTION_BITS - 1))]
       /\ IsFiniteSet(in.edges)
       /\ \A e \in in.edges : e.source \in NodeID /\ e.target \in NodeID /\ e.weight \in Int

Levels == 1..Len(max_cell_sizes)
INVALID_CELL_ID == -1

VARIABLES
  input,         \* the dataset that is prepared
  stage,         \* what the tools are doing
  cells,         \* CellBisection: the cells, in the order they were made
  large,         \* large_cells: the indices of this round that are still to come
  level,         \* the level that is worked on
  node,          \* the node that removeUnconnectedBoundaryNodes comes to
  partitions,    \* the cell of each node on each level
  num_cells,     \* level_to_num_cells: the number of cells before the repair
  permutation    \* the new id of each node

partitionVars == <<input, stage, cells, large, level, node, partitions, num_cells, permutation>>

CellBisection(nodes, bit, tabu) == [nodes |-> nodes, bit |-> bit, tabu |-> tabu]

PartitionInit ==
  /\ input \in Inputs
  /\ stage = "bisect"
  /\ cells = <<CellBisection(NodeID, NUM_BISECTION_BITS - 1, FALSE)>>
  /\ large = {}
  /\ level = Len(max_cell_sizes)
  /\ node = 0
  /\ partitions = [l \in Levels |-> [n \in NodeID |-> INVALID_CELL_ID]]
  /\ num_cells = [l \in Levels |-> 0]
  /\ permutation = [n \in NodeID |-> n]
-----------------------------------------------------------------------------
(***************************************************************************)
(* bisectionToPartition: from the highest level down, large cells are      *)
(* split at the highest bit in which their nodes may differ.               *)
(***************************************************************************)
getLargeCells ==
  {i \in 1..Len(cells) :
     ~cells[i].tabu /\ Cardinality(cells[i].nodes) > max_cell_sizes[level]}

StartRound ==
  /\ stage = "bisect" /\ large = {} /\ getLargeCells # {}
  /\ large' = getLargeCells
  /\ UNCHANGED <<input, stage, cells, level, node, partitions, num_cells, permutation>>

\* The cells after cell i was split, one side staying in its place.
SplitCells(i, bit) ==
  LET nodes == cells[i].nodes
      left == {n \in nodes : bit \in input.ids[n]}
      Part(side) == CellBisection(side, IF bit > 0 THEN bit - 1 ELSE cells[i].bit, bit = 0)
  IN IF left = nodes THEN [cells EXCEPT ![i] = Part(nodes)]
     ELSE Append([cells EXCEPT ![i] = Part(left)], Part(nodes \ left))

SplitCell ==
  /\ stage = "bisect" /\ large # {}
  /\ LET i == Min(large)
         sum == UNION {input.ids[n] : n \in cells[i].nodes}
         masked_sum == {b \in sum : b <= cells[i].bit}
     IN cells' = IF masked_sum = {} THEN [cells EXCEPT ![i].tabu = TRUE]
                 ELSE SplitCells(i, Max(masked_sum))
  /\ large' = large \ {Min(large)}
  /\ UNCHANGED <<input, stage, level, node, partitions, num_cells, permutation>>

cellsToPartition == [n \in NodeID |-> CHOOSE i \in 1..Len(cells) : n \in cells[i].nodes]

FinishLevel ==
  /\ stage = "bisect" /\ large = {} /\ getLargeCells = {}
  /\ partitions' = [partitions EXCEPT ![level] = cellsToPartition]
  /\ num_cells' = [num_cells EXCEPT ![level] = Len(cells)]
  /\ IF level > 1 THEN level' = level - 1 /\ stage' = stage
     ELSE level' = Len(max_cell_sizes) /\ stage' = "reconnect"
  /\ UNCHANGED <<input, cells, large, node, permutation>>
-----------------------------------------------------------------------------
(***************************************************************************)
(* removeUnconnectedBoundaryNodes: a node whose edges all leave its cell   *)
(* moves to the cell of a neighbour, on this level and all levels below.   *)
(***************************************************************************)
BaseGraph == LoadEdgeBasedGraph(input.edges)

IsUnconnected(n) ==
  /\ AdjacentEdges(BaseGraph, n) # {}
  /\ \A e \in AdjacentEdges(BaseGraph, n) : partitions[level][e.target] # partitions[level][n]

\* The neighbours in other cells, but in the same cell of the level above.
Witnesses(n) ==
  {w \in {e.target : e \in AdjacentEdges(BaseGraph, n)} :
     level < Len(max_cell_sizes) => partitions[level + 1][w] = partitions[level + 1][n]}

InducedBorderEdges(n, w) ==
  Cardinality({p \in AdjacentEdges(BaseGraph, n) \X (1..level) :
                 partitions[p[2]][p[1].target] # partitions[p[2]][w]})

\* The first of the edges of n that leads to a witness with the fewest border edges.
BestWitness(n) ==
  CHOOSE w \in Witnesses(n) :
    \A v \in Witnesses(n) :
      \/ InducedBorderEdges(n, w) < InducedBorderEdges(n, v)
      \/ InducedBorderEdges(n, w) = InducedBorderEdges(n, v) /\ w <= v

\* Mutant: neighbours in other cells of the level above are witnesses as well.
ReconnectAnywhere ==
  /\ stage = "reconnect" /\ node \in NodeID
  /\ LET w == CHOOSE w \in {e.target : e \in AdjacentEdges(BaseGraph, node)} : TRUE
     IN partitions' = IF IsUnconnected(node)
                      THEN [l \in Levels |-> IF l > level THEN partitions[l]
                              ELSE [partitions[l] EXCEPT ![node] = partitions[l][w]]]
                      ELSE partitions
  /\ node' = node + 1
  /\ UNCHANGED <<input, stage, cells, large, level, num_cells, permutation>>

Reconnect ==
  /\ stage = "reconnect" /\ node \in NodeID
  /\ partitions' = IF IsUnconnected(node) /\ Witnesses(node) # {}
                   THEN [l \in Levels |-> IF l > level THEN partitions[l]
                           ELSE [partitions[l] EXCEPT ![node] = partitions[l][BestWitness(node)]]]
                   ELSE partitions
  /\ node' = node + 1
  /\ UNCHANGED <<input, stage, cells, large, level, num_cells, permutation>>

FinishReconnect ==
  /\ stage = "reconnect" /\ node \notin NodeID
  /\ node' = 0
  /\ IF level > 1 THEN level' = level - 1 /\ stage' = stage
     ELSE level' = level /\ stage' = "renumber"
  /\ UNCHANGED <<input, cells, large, partitions, num_cells, permutation>>
-----------------------------------------------------------------------------
(***************************************************************************)
(* makePermutation and renumber: nodes on the border of high levels get    *)
(* low ids, nodes of a cell are numbered together. All files change.       *)
(***************************************************************************)
getHighestBorderLevel(n) ==
  Max({0} \cup {l \in Levels : \E e \in BaseGraph :
         n \in {e.source, e.target} /\ partitions[l][e.source] # partitions[l][e.target]})

\* m comes before n: a higher border level, then the cells from the highest level down.
OrderedBefore(m, n) ==
  LET differ == {l \in Levels : partitions[l][m] # partitions[l][n]}
      border_m == getHighestBorderLevel(m)
      border_n == getHighestBorderLevel(n)
  IN \/ border_m > border_n
     \/ /\ border_m = border_n
        /\ IF differ = {} THEN m < n ELSE partitions[Max(differ)][m] < partitions[Max(differ)][n]

makePermutation == [n \in NodeID |-> Cardinality({m \in NodeID : OrderedBefore(m, n)})]

\* inplacePermutation: the value of an old id is found at its new id.
Permuted(f, new) == [n \in NodeID |-> f[CHOOSE m \in NodeID : new[m] = n]]

\* .ebg, .enw and .ebg_nodes.
Renumbered(in, new) ==
  [in EXCEPT
     !.edges = {[e EXCEPT !.source = new[e.source], !.target = new[e.target]]
                  : e \in graphToEdges(BaseGraph)},
     !.node_weights = Permuted(in.node_weights, new),
     !.node_durations = Permuted(in.node_durations, new),
     !.filters = [f \in 1..Len(in.filters) |-> {new[n] : n \in in.filters[f]}]]

Renumber ==
  /\ stage = "renumber"
  /\ permutation' = makePermutation
  /\ input' = Renumbered(input, permutation')
  /\ partitions' = [l \in Levels |-> Permuted(partitions[l], permutation')]
  /\ stage' = "partitioned"
  /\ UNCHANGED <<cells, large, level, node, num_cells>>

PartitionNext ==
  \/ StartRound \/ SplitCell \/ FinishLevel
  \/ Reconnect \/ FinishReconnect
  \/ Renumber

PartitionSpec == PartitionInit /\ [][PartitionNext]_partitionVars
-----------------------------------------------------------------------------
(***************************************************************************)
(* Cells are nested: nodes in the same cell of a level are in the same     *)
(* cell of the level above. The repair moves a node on several levels at   *)
(* once (remove_unconnected.hpp 99-102); everything that reads the         *)
(* partition later relies on this.                                         *)
(***************************************************************************)
Finished(l) == stage # "bisect" \/ l > level
CellsNested ==
  \A l \in Levels \ {Len(max_cell_sizes)} : Finished(l) =>
    \A m, n \in NodeID :
      partitions[l][m] = partitions[l][n] => partitions[l + 1][m] = partitions[l + 1][n]
=============================================================================
