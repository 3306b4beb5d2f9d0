--------------------------- MODULE MultiLevelGraph ---------------------------
(* The partition of a graph into cells of several levels, and the graph      *)
(* sorted by it.                                                             *)
EXTENDS EdgeBasedGraph, Sequences, FiniteSetsExt, SequencesExt

(***************************************************************************)
(* MultiLevelPartition: the cells of a node on all levels, packed into one *)
(* integer (multi_level_partition.hpp).                                    *)
(*                                                                         *)
(* A partition is given as partitions[level][node]. The packed one is a    *)
(* record: offset[l] is the first bit of level l and offset[num_level] the *)
(* first bit that is not used, packed[n] the integer of node n, and        *)
(* children[l] the first child of every cell of level l, then a sentinel.  *)
(***************************************************************************)

\* The bits for a number of cells: one number more than there are cells, for the sentinel.
BitsFor(num_cells) == CHOOSE b \in 0..num_cells : 2^b >= num_cells + 1 /\ (b > 0 => 2^(b - 1) < num_cells + 1)

\* Mutant: just enough bits for the ids of the cells.
MakeTightOffsets(num_cells) ==
  [l \in 1..(Len(num_cells) + 1) |-> FoldLeft(LAMBDA acc, k : acc + BitsFor(k - 1), 0, SubSeq(num_cells, 1, l - 1))]

MakeLevelOffsets(num_cells) ==
  [l \in 1..(Len(num_cells) + 1) |-> FoldLeft(LAMBDA acc, k : acc + BitsFor(k), 0, SubSeq(num_cells, 1, l - 1))]

GetNumberOfLevels(mlp) == Len(mlp.offset)

GetCell(mlp, l, n) == (mlp.packed[n] \div 2^mlp.offset[l]) % 2^(mlp.offset[l + 1] - mlp.offset[l])

\* The sentinel is the node after the last one.
SentinelNode(mlp) == Max(DOMAIN mlp.packed)
GetNumberOfCells(mlp, l) == GetCell(mlp, l, SentinelNode(mlp))

GetHighestDifferentLevel(mlp, m, n) ==
  LET differ == {b \in 0..(mlp.offset[Len(mlp.offset)] - 1) :
                   (mlp.packed[m] \div 2^b) % 2 # (mlp.packed[n] \div 2^b) % 2}
  IN IF differ = {} THEN 0
     ELSE Max({l \in 1..(Len(mlp.offset) - 1) : mlp.offset[l] <= Max(differ)})

GetQueryLevel(mlp, start, target, n) ==
  Min({GetHighestDifferentLevel(mlp, start, n), GetHighestDifferentLevel(mlp, target, n)})

BeginChildren(mlp, l, cell) == mlp.children[l][cell + 1]
EndChildren(mlp, l, cell) == mlp.children[l][cell + 2]
-----------------------------------------------------------------------------
(***************************************************************************)
(* InitializePartitionIDs: the nodes are sorted by the cells of every      *)
(* level, the highest level first. A new id begins where the cell changes. *)
(***************************************************************************)
SortedByCells(partitions) ==
  SetToSortSeq(DOMAIN partitions[1], LAMBDA m, n :
    LET differ == {l \in DOMAIN partitions : partitions[l][m] # partitions[l][n]}
    IN IF differ = {} THEN m < n ELSE partitions[Max(differ)][m] < partitions[Max(differ)][n])

\* The positions at which a cell of the level begins.
Begins(order, partition) ==
  {i \in 1..Len(order) : i > 1 => partition[order[i]] # partition[order[i - 1]]}

PackedPartition(partitions, num_cells) ==
  LET order == SortedByCells(partitions)
      levels == 1..Len(num_cells)
      offset == MakeLevelOffsets(num_cells)
      begins == [l \in levels |-> Begins(order, partitions[l])]
      cell_id == [l \in levels |-> [n \in DOMAIN partitions[1] |->
                    Cardinality({i \in begins[l] : \E j \in i..Len(order) : order[j] = n}) - 1]]
      \* Ids that fit in their bits do not overlap: adding them is the bitwise or.
      Pack(id) == FoldSet(LAMBDA l, acc : acc + id[l] * 2^offset[l], 0, levels)
      Child(l, i) == cell_id[l - 1][order[i]]
  IN [offset |-> offset,
      packed |-> [n \in DOMAIN partitions[1] \cup {Len(order)} |->
                    Pack([l \in levels |-> IF n = Len(order) THEN Cardinality(begins[l])
                                           ELSE cell_id[l][n]])],
      children |-> [l \in levels \ {1} |->
                      [k \in 1..Cardinality(begins[l]) |-> Child(l, SetToSortSeq(begins[l], <)[k])]
                      \o <<Child(l, Len(order)) + 1>>]]
-----------------------------------------------------------------------------
(***************************************************************************)
(* MultiLevelGraph: the edges of a node sorted by the highest level whose  *)
(* cells they connect, so that the border edges of a level are the last    *)
(* ones of the node (multi_level_graph.hpp).                               *)
(*                                                                         *)
(* edges[n] is the part of the edge array that belongs to node n. The      *)
(* offsets are kept for the nodes up to the highest border node only.      *)
(***************************************************************************)

EdgeOffsets == 256     \* EdgeOffset is std::uint8_t

EdgeLevel(mlp, e) == GetHighestDifferentLevel(mlp, e.source, e.target)

\* By level and target. Two edges between the same nodes come in any order.
SortEdgesByHighestLevel(mlp, edges) ==
  SetToSortSeq(edges, LAMBDA e, f :
    \/ EdgeLevel(mlp, e) < EdgeLevel(mlp, f)
    \/ EdgeLevel(mlp, e) = EdgeLevel(mlp, f) /\ e.target < f.target
    \/ EdgeLevel(mlp, e) = EdgeLevel(mlp, f) /\ e.target = f.target /\ e.forward /\ ~f.forward)

\* InitializeOffsetsFromSortedEdges: the edges below each level.
Offsets(mlp, sorted) ==
  [l \in 0..(GetNumberOfLevels(mlp) - 1) |->
     Cardinality({i \in 1..Len(sorted) : EdgeLevel(mlp, sorted[i]) < l}) % EdgeOffsets]

MakeMultiLevelGraph(mlp, nodes, edges) ==
  LET sorted == [n \in nodes |-> SortEdgesByHighestLevel(mlp, AdjacentEdges(edges, n))]
      border == {e \in edges : EdgeLevel(mlp, e) > 0}
      max_border_node == Max({0} \cup {e.source : e \in border} \cup {e.target : e \in border})
  IN [edges |-> sorted,
      offsets |-> [n \in 0..max_border_node |-> Offsets(mlp, sorted[n])]]

\* How many of the edges of n come before its border edges of the level.
BeginBorderEdges(g, l, n) ==
  IF n \in DOMAIN g.offsets THEN g.offsets[n][l]
  ELSE IF l = 0 THEN 0 ELSE Len(g.edges[n])

GetBorderEdgeRange(g, l, n) == SubSeq(g.edges[n], BeginBorderEdges(g, l, n) + 1, Len(g.edges[n]))
GetInternalEdgeRange(g, l, n) == SubSeq(g.edges[n], 1, BeginBorderEdges(g, l, n))
=============================================================================
