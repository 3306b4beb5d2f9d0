------------------------------ MODULE ChRouting ------------------------------
(***************************************************************************)
(* The search of the engine on a contracted graph (routing_base_ch.hpp,    *)
(* routing_base_ch.cpp, insertNodesInHeaps of routing_base.hpp).           *)
(*                                                                         *)
(* A graph is a set of edges as in ContractorGraph. A phantom node is a    *)
(* sequence of at most two records, the node of its forward segment and    *)
(* that of its reverse segment with the weight from the start of the node  *)
(* to the position (GetForwardWeightPlusOffset). No loops are forced, as   *)
(* in getNetworkDistance and for the legs of a route that may turn round.  *)
(***************************************************************************)
EXTENDS ContractorGraph, PriorityQueue, FiniteSetsExt, SequencesExt

FORWARD_DIRECTION == TRUE
REVERSE_DIRECTION == FALSE
SPECIAL_NODEID == -1

EdgesTowards(g, n, direction) ==
  {e \in AdjacentEdges(g, n) : IF direction = FORWARD_DIRECTION THEN e.forward ELSE e.backward}

stallAtNode(g, heap, n, direction) ==
  \E e \in EdgesTowards(g, n, ~direction) :
    Inserted(heap, e.target) /\ KeyOf(heap, e.target) + e.weight < KeyOf(heap, n)

relaxOutgoingEdges(g, heap, n, direction) ==
  FoldSet(LAMBDA e, h : Relaxed(h, e.target, KeyOf(heap, n) + e.weight, n), heap,
          EdgesTowards(g, n, direction))

\* The smallest loop at n that makes a negative weight one that can be driven.
LoopWeights(g, n, direction, new_weight) ==
  {w \in {new_weight + e.weight : e \in {e \in EdgesTowards(g, n, direction) : e.target = n}} :
     w >= 0}

\* The searches meet at n: a new upper bound, unless it would be driving backwards.
Met(g, best, n, direction, new_weight) ==
  LET candidates == IF new_weight < 0 THEN LoopWeights(g, n, direction, new_weight)
                    ELSE {new_weight}
      better == {w \in candidates : w < best.weight}
  IN IF new_weight >= best.weight \/ better = {} THEN best
     ELSE [middle |-> n, weight |-> Min(better)]

\* own is the heap of the direction, other the one of the opposite direction.
routingStep(g, own, other, best, direction, min_edge_offset) ==
  LET n == TopNode(own)
      heap == WithoutTop(own)
      met == IF Inserted(other, n)
             THEN Met(g, best, n, direction, KeyOf(own, n) + KeyOf(other, n)) ELSE best
  IN [best |-> met,
      heap |-> IF KeyOf(own, n) + min_edge_offset > met.weight THEN Emptied(heap)
               ELSE IF stallAtNode(g, heap, n, direction) THEN heap
               ELSE relaxOutgoingEdges(g, heap, n, direction)]

\* One turn of the loop in search: a step of each heap that is not empty.
Turn(g, s, min_edge_offset) ==
  LET there == IF NothingQueued(s.forward) THEN [best |-> s.best, heap |-> s.forward]
               ELSE routingStep(g, s.forward, s.reverse, s.best, FORWARD_DIRECTION, min_edge_offset)
      back == IF NothingQueued(s.reverse) THEN [best |-> there.best, heap |-> s.reverse]
              ELSE routingStep(g, s.reverse, there.heap, there.best, REVERSE_DIRECTION,
                               min_edge_offset)
  IN [forward |-> there.heap, reverse |-> back.heap, best |-> back.best]

\* insertNodesInHeaps: the source with negative weights.
ForwardHeap(source) == [i \in 1..Len(source) |->
                          Entry(source[i].node, -source[i].weight, source[i].node)]
ReverseHeap(target) == [i \in 1..Len(target) |->
                          Entry(target[i].node, target[i].weight, target[i].node)]

\* Mutant: the search ends as if no weight were negative.
SearchedWithoutOffset(g, source, target) ==
  LET start == [forward |-> ForwardHeap(source), reverse |-> ReverseHeap(target),
                best |-> [middle |-> SPECIAL_NODEID, weight |-> INVALID_EDGE_WEIGHT]]
      turns[k \in Nat] == IF k = 0 THEN start ELSE Turn(g, turns[k - 1], 0)
  IN turns[Cardinality(NodeID)]

\* A node enters a heap and leaves it once, so the loop ends within that many turns.
Searched(g, source, target) ==
  LET start == [forward |-> ForwardHeap(source), reverse |-> ReverseHeap(target),
                best |-> [middle |-> SPECIAL_NODEID, weight |-> INVALID_EDGE_WEIGHT]]
      min_edge_offset == Min({0, TopKey(start.forward)})
      turns[k \in Nat] == IF k = 0 THEN start ELSE Turn(g, turns[k - 1], min_edge_offset)
  IN turns[Cardinality(NodeID)]
-----------------------------------------------------------------------------
\* retrievePackedPathFromSingleHeap: the parents of n, nearest first.
Parents(heap, n) ==
  LET parents[k \in Nat, m \in NodeID] ==
        IF k = 0 \/ DataOf(heap, m) = m THEN << >>
        ELSE <<DataOf(heap, m)>> \o parents[k - 1, DataOf(heap, m)]
  IN parents[Len(heap), n]

PackedPath(s) ==
  LET middle == s.best.middle
  IN IF s.best.weight # KeyOf(s.forward, middle) + KeyOf(s.reverse, middle)
     THEN <<middle, middle>>
     ELSE Reverse(Parents(s.forward, middle)) \o <<middle>> \o Parents(s.reverse, middle)

\* FindSmallestEdge in one direction, then in the other.
FindSmallestEdge(g, m, n) ==
  LET there == {e \in g : e.source = m /\ e.target = n /\ e.forward}
      back == {e \in g : e.source = n /\ e.target = m /\ e.backward}
      found == IF there # {} THEN there ELSE back
  IN {e \in found : \A f \in found : e.weight <= f.weight}

\* Unpacking replaces a shortcut by its two halves until only edges of the input are
\* left. Any of the smallest edges may be the one that is found. The result is the set
\* of the sequences of edges that come out; an edge that is missing leaves none.
Unpacked(g, m, n) ==
  LET halves[k \in Nat, p \in NodeID \X NodeID] ==
        UNION {IF ~e.shortcut THEN {<<[from |-> p[1], to |-> p[2], weight |-> e.weight]>>}
               ELSE IF k = 0 THEN {}
               ELSE {a \o b : a \in halves[k - 1, <<p[1], e.id>>], b \in halves[k - 1, <<e.id, p[2]>>]}
               : e \in FindSmallestEdge(g, p[1], p[2])}
  IN halves[Cardinality(NodeID), <<m, n>>]

UnpackedPath(g, packed) ==
  FoldLeft(LAMBDA acc, i : {a \o b : a \in acc, b \in Unpacked(g, packed[i], packed[i + 1])},
           {<< >>}, [i \in 1..(Len(packed) - 1) |-> i])
=============================================================================
