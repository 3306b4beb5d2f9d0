---------------------------- MODULE EdgeBasedGraph ----------------------------
(***************************************************************************)
(* The edge-expanded graph as osrm-partition and osrm-customize load it    *)
(* (edge_based_graph_reader.hpp).                                          *)
(*                                                                         *)
(* An edge is a turn from one node to another. Its weight and duration are *)
(* those of the source and of the turn. forward says that it can be driven *)
(* from source to target, backward that it can be driven the other way.    *)
(* Distances in meters, which are treated as durations are, are left out.  *)
(***************************************************************************)
EXTENDS Integers

INVALID_EDGE_WEIGHT == 1000000

EdgeBasedEdge(s, t, turn_id, w, d, forward, backward) ==
  [source |-> s, target |-> t, turn_id |-> turn_id, weight |-> w, duration |-> d,
   forward |-> forward, backward |-> backward]

AtLeastOne(w) == IF w > 1 THEN w ELSE 1

\* Every edge is stored at both of its nodes. An edge without a weight is dropped.
splitBidirectionalEdges(edges) ==
  LET valid == {e \in edges : e.weight # INVALID_EDGE_WEIGHT}
  IN {EdgeBasedEdge(e.source, e.target, e.turn_id, AtLeastOne(e.weight), e.duration,
                    e.forward, e.backward) : e \in valid}
     \cup
     {EdgeBasedEdge(e.target, e.source, e.turn_id, AtLeastOne(e.weight), e.duration,
                    e.backward, e.forward) : e \in valid}

\* The edge that the sort by weight puts first.
SmallestEdge(edges) == CHOOSE e \in edges : \A f \in edges : e.weight <= f.weight

\* What is kept of the edges from s to t: the smallest forward and the smallest backward
\* one, merged into one edge with the turn of the forward one if their weights agree.
EdgesBetween(edges, s, t) ==
  LET there == {e \in edges : e.source = s /\ e.target = t /\ e.forward}
      back == {e \in edges : e.source = s /\ e.target = t /\ e.backward}
      f == SmallestEdge(there)
      b == SmallestEdge(back)
  IN IF there = {} \/ back = {}
     THEN (IF there = {} THEN {} ELSE {f}) \cup (IF back = {} THEN {} ELSE {b})
     ELSE IF f.weight = b.weight
          THEN {EdgeBasedEdge(s, t, f.turn_id, f.weight, f.duration, TRUE, TRUE)}
          ELSE {f, b}

prepareEdgesForUsageInGraph(edges) ==
  UNION {EdgesBetween(edges, e.source, e.target) : e \in {e \in edges : e.source # e.target}}

LoadEdgeBasedGraph(edges) == prepareEdgesForUsageInGraph(splitBidirectionalEdges(edges))

\* What osrm-partition writes back: the forward edges, by the id of their turn.
graphToEdges(g) ==
  {EdgeBasedEdge(e.source, e.target, e.turn_id, e.weight, e.duration, TRUE, FALSE)
     : e \in {e \in g : e.forward}}

AdjacentEdges(g, n) == {e \in g : e.source = n}
=============================================================================
