------------------------------ MODULE MldRouting ------------------------------
(***************************************************************************)
(* The search of the engine on a multi-level graph (routing_base_mld.hpp,  *)
(* insertNodesInHeaps of routing_base.hpp).                                *)
(*                                                                         *)
(* A facade is a record of what the data facade gives access to: mlp,      *)
(* graph, storage and metric, the nodes that are not excluded, the weights *)
(* and durations of nodes and the penalties of turns. A phantom node is a  *)
(* sequence of at most two segments as in ChRouting, with a duration.      *)
(***************************************************************************)
EXTENDS CellStorage

SPECIAL_NODEID == -1

MldHeapData(parent, from_clique_arc) == [parent |-> parent, from_clique_arc |-> from_clique_arc]

\* The arguments of a search: the phantom nodes of a route, or a level and a cell of the
\* level above it, which the search does not leave.
Unrestricted(source, target) == [source |-> source, target |-> target]
Restricted(level, parent) == [level |-> level, parent |-> parent]

\* The level of a node: the lowest of all combinations of segments, or the one that is given.
getNodeQueryLevel(f, n, args) ==
  IF "level" \in DOMAIN args THEN args.level
  ELSE Min({GetQueryLevel(f.mlp, args.source[i].node, args.target[j].node, n)
              : i \in DOMAIN args.source, j \in DOMAIN args.target})

checkParentCellRestriction(f, level, n, args) ==
  "parent" \in DOMAIN args => GetCell(f.mlp, level, n) = args.parent

\* The arcs of the cell of n on a level, away from n or towards it.
CliqueArcs(f, level, n, direction) ==
  LET cell == CellAt(f.storage, level, GetCell(f.mlp, level, n))
      range == IF direction = "forward" THEN GetOutRange(f.storage, cell, f.metric, n)
               ELSE GetInRange(f.storage, cell, f.metric, n)
  IN SelectSeq(range, LAMBDA a : a.value.weight # INVALID_EDGE_WEIGHT /\ a.node # n)

\* The weight of an edge as the search adds it up.
TurnWeight(f, n, e, direction) ==
  f.node_weights[IF direction = "forward" THEN n ELSE e.target] + f.penalties[e.turn_id].weight

\* The border edges of n that can be driven in the direction to nodes that are not excluded.
BorderEdges(f, level, n, direction) ==
  SelectSeq(GetBorderEdgeRange(f.graph, level, n), LAMBDA e :
    /\ IF direction = "forward" THEN e.forward ELSE e.backward
    /\ e.target \in f.allowed)

RelaxArcs(f, heap, n, level, direction) ==
  FoldLeft(LAMBDA h, a : Relaxed(h, a.node, KeyOf(heap, n) + a.value.weight, MldHeapData(n, TRUE)),
           heap, CliqueArcs(f, level, n, direction))

RelaxBorder(f, heap, n, level, direction, args) ==
  FoldLeft(LAMBDA h, e : Relaxed(h, e.target, KeyOf(heap, n) + TurnWeight(f, n, e, direction),
                                 MldHeapData(n, FALSE)),
           heap, SelectSeq(BorderEdges(f, level, n, direction), LAMBDA e :
                   checkParentCellRestriction(f, level + 1, e.target, args)))

\* Mutant: border edges are followed from nodes that were reached by an arc only.
RelaxAlternately(f, heap, n, level, direction, args) ==
  IF level = 0 \/ DataOf(heap, n).from_clique_arc THEN RelaxBorder(f, heap, n, level, direction, args)
  ELSE RelaxArcs(f, heap, n, level, direction)

\* First the arcs of the cell, unless n was reached by one, then the border edges.
relaxOutgoingEdges(f, heap, n, level, direction, args) ==
  RelaxBorder(f, IF level = 0 \/ DataOf(heap, n).from_clique_arc THEN heap
                 ELSE RelaxArcs(f, heap, n, level, direction),
              n, level, direction, args)

\* Loops that are forced rule out ways that meet at the node where a heap began.
NO_LOOPS == [forward |-> FALSE, reverse |-> FALSE]
Opposite(direction) == IF direction = "forward" THEN "reverse" ELSE "forward"

routingStep(f, own, other, best, loops, direction, args) ==
  LET n == TopNode(own)
      path_weight == KeyOf(own, n) + KeyOf(other, n)
      better == /\ Inserted(other, n)
                /\ ~(loops[direction] /\ DataOf(own, n).parent = n)
                /\ ~(loops[Opposite(direction)] /\ DataOf(other, n).parent = n)
                /\ path_weight >= 0 /\ path_weight < best.weight
  IN [best |-> IF better THEN [middle |-> n, weight |-> path_weight] ELSE best,
      heap |-> relaxOutgoingEdges(f, WithoutTop(own), n, getNodeQueryLevel(f, n, args), direction, args)]

\* The key a heap had when it last was not empty.
MinKey(heap, before) == IF NothingQueued(heap) THEN before ELSE TopKey(heap)

\* A step of the search in one direction, unless its heap is empty.
After(s, direction, stepped) ==
  [s EXCEPT ![direction] = stepped.heap, !.best = stepped.best, !.min[direction] = MinKey(stepped.heap, @)]
Step(f, s, loops, direction, args) ==
  IF NothingQueued(s[direction]) THEN s
  ELSE After(s, direction,
             routingStep(f, s[direction], s[Opposite(direction)], s.best, loops, direction, args))

\* One turn of the loop in search: forward, then backward.
Turn(f, s, loops, args) ==
  IF \/ NothingQueued(s.forward) /\ NothingQueued(s.reverse)
     \/ s.min.forward + s.min.reverse >= s.best.weight
  THEN s ELSE Step(f, Step(f, s, loops, "forward", args), loops, "reverse", args)

\* A node leaves a heap once, so the loop ends within as many turns as there are nodes.
Searched(f, forward, reverse, loops, args) ==
  LET start == [forward |-> forward, reverse |-> reverse,
                min |-> [forward |-> TopKey(forward), reverse |-> TopKey(reverse)],
                best |-> [middle |-> SPECIAL_NODEID, weight |-> INVALID_EDGE_WEIGHT]]
      turns[k \in Nat] == IF k = 0 THEN start ELSE Turn(f, turns[k - 1], loops, args)
  IN turns[Cardinality(DOMAIN f.graph.edges)]
-----------------------------------------------------------------------------
(***************************************************************************)
(* The packed path: edges and arcs of cells, from source to target.        *)
(***************************************************************************)
PackedEdge(from, to, overlay) == [from |-> from, to |-> to, overlay |-> overlay]

\* retrievePackedPathFromSingleHeap: the way from n back to the root of the heap.
TracedBack(heap, n, direction) ==
  LET trace[k \in Nat, m \in Range([i \in 1..Len(heap) |-> heap[i].node])] ==
        LET data == DataOf(heap, m)
        IN IF k = 0 \/ data.parent = m THEN << >>
           ELSE <<IF direction = "forward" THEN PackedEdge(data.parent, m, data.from_clique_arc)
                  ELSE PackedEdge(m, data.parent, data.from_clique_arc)>> \o trace[k - 1, data.parent]
  IN trace[Len(heap), n]

PackedPath(s) ==
  Reverse(TracedBack(s.forward, s.best.middle, "forward")) \o TracedBack(s.reverse, s.best.middle, "reverse")

Start(n) == <<Entry(n, 0, MldHeapData(n, FALSE))>>

\* The restricted search for the arc of a cell: one level down, inside the cell.
Subpath(f, loops, level, from, to) ==
  Searched(f, Start(from), Start(to), loops, Restricted(level - 1, GetCell(f.mlp, level, from)))

\* The nodes of the way, after the first one: arcs are replaced by the ways they stand for,
\* and the arcs on these one level further down. An arc whose way is not found leaves a hole.
AtLevel(level, e) == [from |-> e.from, to |-> e.to, level |-> IF e.overlay THEN level ELSE 0]
WayOfArc(e, s) ==
  IF s.best.middle = SPECIAL_NODEID THEN <<AtLevel(0, PackedEdge(e.from, SPECIAL_NODEID, FALSE))>>
  ELSE LET path == PackedPath(s) IN [i \in DOMAIN path |-> AtLevel(e.level - 1, path[i])]
UnpackedOnce(f, loops, edges) ==
  FlattenSeq([i \in DOMAIN edges |->
    IF edges[i].level = 0 THEN <<edges[i]>>
    ELSE WayOfArc(edges[i], Subpath(f, loops, edges[i].level, edges[i].from, edges[i].to))])
NodesTo(edges) == [i \in DOMAIN edges |-> edges[i].to]
UnpackedNodes(f, loops, packed, args) ==
  LET unpacked[k \in Nat] ==
        IF k = 0 THEN [i \in DOMAIN packed |-> AtLevel(getNodeQueryLevel(f, packed[i].from, args), packed[i])]
        ELSE UnpackedOnce(f, loops, unpacked[k - 1])
  IN NodesTo(unpacked[GetNumberOfLevels(f.mlp)])
-----------------------------------------------------------------------------
\* insertNodesInHeaps: the source with negative weights.
SourceHeap(source) == [i \in 1..Len(source) |->
  Entry(source[i].node, -source[i].weight, MldHeapData(source[i].node, FALSE))]
TargetHeap(target) == [i \in 1..Len(target) |->
  Entry(target[i].node, target[i].weight, MldHeapData(target[i].node, FALSE))]

SearchRoute(f, source, target) ==
  Searched(f, SourceHeap(source), TargetHeap(target), NO_LOOPS, Unrestricted(source, target))

\* The nodes from source to target of a route that was found.
RouteNodes(f, loops, source, target, s) ==
  LET packed == PackedPath(s)
  IN <<IF packed = << >> THEN s.best.middle ELSE packed[1].from>>
     \o UnpackedNodes(f, loops, packed, Unrestricted(source, target))
=============================================================================
