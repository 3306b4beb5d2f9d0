----------------------------- MODULE CellStorage -----------------------------
(* The cells of a multi-level partition and their customization.             *)
EXTENDS MultiLevelGraph, PriorityQueue

(***************************************************************************)
(* CellStorage: the boundary nodes of all cells of all levels, and where   *)
(* the matrix of each cell lies in the arrays of a metric                  *)
(* (cell_storage.hpp).                                                     *)
(*                                                                         *)
(* A metric is one array of values, each a weight and a duration.          *)
(***************************************************************************)

MAXIMAL_EDGE_DURATION == 1000000
Invalid == [weight |-> INVALID_EDGE_WEIGHT, duration |-> MAXIMAL_EDGE_DURATION]

\* The other ends of the edges of n inside its cell, in one direction.
InCell(mlp, edges, l, n, direction) ==
  {e \in AdjacentEdges(edges, n) :
     /\ GetCell(mlp, l, e.target) = GetCell(mlp, l, n)
     /\ IF direction = "forward" THEN e.forward ELSE e.backward}

IsBoundaryNode(mlp, edges, l, n) ==
  \E e \in AdjacentEdges(edges, n) : GetCell(mlp, l, e.target) # GetCell(mlp, l, n)

IsSource(mlp, edges, l, n) ==
  IsBoundaryNode(mlp, edges, l, n) /\ InCell(mlp, edges, l, n, "forward") # {}

\* A node without edges in the cell is kept with an empty column.
IsDestination(mlp, edges, l, n) ==
  /\ IsBoundaryNode(mlp, edges, l, n)
  /\ InCell(mlp, edges, l, n, "backward") # {} \/ InCell(mlp, edges, l, n, "forward") = {}

\* All cells of all levels, in the order of the array.
CellOrder(mlp) ==
  FoldLeft(LAMBDA acc, l : acc \o [k \in 1..GetNumberOfCells(mlp, l) |-> [level |-> l, id |-> k - 1]],
           << >>, [l \in 1..(GetNumberOfLevels(mlp) - 1) |-> l])

MakeCellStorage(mlp, nodes, edges) ==
  LET order == CellOrder(mlp)
      Boundary(c, Is(_, _, _, _)) ==
        SetToSortSeq({n \in nodes : GetCell(mlp, c.level, n) = c.id /\ Is(mlp, edges, c.level, n)}, <)
      sources == [k \in 1..Len(order) |-> Boundary(order[k], IsSource)]
      destinations == [k \in 1..Len(order) |-> Boundary(order[k], IsDestination)]
      Before(k, Size(_)) == FoldLeft(LAMBDA acc, j : acc + Size(j), 0, [j \in 1..(k - 1) |-> j])
  IN [cells |-> [k \in 1..Len(order) |->
        [value_offset |-> Before(k, LAMBDA j : Len(sources[j]) * Len(destinations[j])),
         source_boundary_offset |-> Before(k, LAMBDA j : Len(sources[j])),
         destination_boundary_offset |-> Before(k, LAMBDA j : Len(destinations[j])),
         num_source_nodes |-> Len(sources[k]),
         num_destination_nodes |-> Len(destinations[k])]],
      source_boundary |-> FlattenSeq(sources),
      destination_boundary |-> FlattenSeq(destinations),
      level_to_cell_offset |->
        [l \in 1..(GetNumberOfLevels(mlp) - 1) |-> Cardinality({k \in 1..Len(order) : order[k].level < l})]]

ValuesOf(cell) == cell.num_source_nodes * cell.num_destination_nodes

MakeMetric(storage) ==
  LET last == storage.cells[Len(storage.cells)]
  IN [v \in 0..(last.value_offset + ValuesOf(last)) |-> Invalid]

CellAt(storage, l, id) == storage.cells[storage.level_to_cell_offset[l] + id + 1]
GetSourceNodes(storage, cell) ==
  SubSeq(storage.source_boundary, cell.source_boundary_offset + 1,
         cell.source_boundary_offset + cell.num_source_nodes)
GetDestinationNodes(storage, cell) ==
  SubSeq(storage.destination_boundary, cell.destination_boundary_offset + 1,
         cell.destination_boundary_offset + cell.num_destination_nodes)

\* Where a row (counted from 0) of the matrix begins.
Row(cell, row) == cell.value_offset + cell.num_destination_nodes * row

PositionIn(seq, n) == CHOOSE i \in 1..Len(seq) : seq[i] = n

\* GetOutRange: the row of node n, with the destination of each value.
GetOutRange(storage, cell, metric, n) ==
  LET sources == GetSourceNodes(storage, cell)
      destinations == GetDestinationNodes(storage, cell)
      row == PositionIn(sources, n) - 1
  IN IF n \notin Range(sources) THEN << >>
     ELSE [j \in 1..Len(destinations) |->
             [node |-> destinations[j], value |-> metric[Row(cell, row) + j - 1]]]

\* GetInRange: the column of node n, with the source of each value.
GetInRange(storage, cell, metric, n) ==
  LET sources == GetSourceNodes(storage, cell)
      destinations == GetDestinationNodes(storage, cell)
      column == PositionIn(destinations, n) - 1
  IN IF n \notin Range(destinations) THEN << >>
     ELSE [i \in 1..Len(sources) |->
             [node |-> sources[i], value |-> metric[Row(cell, i - 1) + column]]]
-----------------------------------------------------------------------------
(***************************************************************************)
(* CellCustomizer: the matrix of a cell, from the edges inside the cell    *)
(* and from the matrices of its cells one level below                      *)
(* (cell_customizer.hpp).                                                  *)
(***************************************************************************)

HeapData(from_clique, duration) == [from_clique |-> from_clique, duration |-> duration]

\* A node is reached: the smaller weight counts, then the smaller duration.
Improved(heap, to, w, data) ==
  IF ~Inserted(heap, to) THEN With(heap, to, w, data)
  ELSE IF w < KeyOf(heap, to) \/ (w = KeyOf(heap, to) /\ data.duration < DataOf(heap, to).duration)
       THEN Decreased(heap, to, w, data)
       ELSE heap

\* The arcs of the cell below that n lies in, unless n was reached by one, then the
\* edges between cells of the level below. A value that is valid has a destination that
\* is allowed, so the loop never skips one.
RelaxNode(mlp, g, storage, allowed, metric, heap, l, n) ==
  LET w == KeyOf(heap, n)
      d == DataOf(heap, n).duration
      arcs == IF l = 1 \/ DataOf(heap, n).from_clique THEN << >>
              ELSE SelectSeq(GetOutRange(storage, CellAt(storage, l - 1, GetCell(mlp, l - 1, n)), metric, n),
                             LAMBDA a : a.value.weight # INVALID_EDGE_WEIGHT /\ a.node \in allowed)
      internal == SelectSeq(GetInternalEdgeRange(g, l, n), LAMBDA e :
                    /\ e.target \in allowed /\ e.forward
                    /\ l = 1 \/ GetCell(mlp, l - 1, n) # GetCell(mlp, l - 1, e.target))
      over_cells == FoldLeft(LAMBDA h, a : Improved(h, a.node, w + a.value.weight,
                                                    HeapData(TRUE, d + a.value.duration)), heap, arcs)
  IN FoldLeft(LAMBDA h, e : Improved(h, e.target, w + e.weight, HeapData(FALSE, d + e.duration)),
              over_cells, internal)

\* The heap after the search from source: it ends when all destinations have left it.
SearchFrom(mlp, g, storage, allowed, metric, l, destinations, source) ==
  LET steps[k \in Nat] ==
        IF k = 0 THEN <<Entry(source, 0, HeapData(FALSE, 0))>>
        ELSE LET heap == steps[k - 1]
                 Settled(n) == Inserted(heap, n) /\ ~IsQueued(heap, n)
             IN IF NothingQueued(heap) \/ \A n \in destinations \cap allowed : Settled(n) THEN heap
                ELSE RelaxNode(mlp, g, storage, allowed, metric, WithoutTop(heap), l, TopNode(heap))
  IN steps[Cardinality(DOMAIN g.edges)]

\* Customize: the values of one cell. The rows of sources that are excluded stay invalid.
Customize(mlp, g, storage, allowed, metric, l, id) ==
  LET cell == CellAt(storage, l, id)
      sources == GetSourceNodes(storage, cell)
      destinations == GetDestinationNodes(storage, cell)
      Value(heap, n) == IF Inserted(heap, n) THEN [weight |-> KeyOf(heap, n), duration |-> DataOf(heap, n).duration]
                        ELSE Invalid
  IN FoldLeft(LAMBDA m, i :
       IF sources[i] \notin allowed THEN m
       ELSE LET heap == SearchFrom(mlp, g, storage, allowed, m, l, Range(destinations), sources[i])
                first == Row(cell, i - 1)
            IN [v \in DOMAIN m |-> IF v \in first..(first + Len(destinations) - 1)
                                   THEN Value(heap, destinations[v - first + 1]) ELSE m[v]],
       metric, [i \in 1..Len(sources) |-> i])
=============================================================================
