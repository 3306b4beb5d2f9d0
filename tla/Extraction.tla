----------------------------- MODULE Extraction ------------------------------
(***************************************************************************)
(* Extractor::run from the node-based graph on: compression, the graph of  *)
(* the restrictions, and the expansion to the edge-based graph, compared   *)
(* with the ways through the roads as they were mapped.                    *)
(***************************************************************************)
EXTENDS EdgeBasedGraphFactory

CONSTANTS
  Maps,          \* roads, barriers, signals, restrictions and overrides
  Conditions,    \* the conditions of restrictions
  MaxWay         \* how many nodes the ways have that are compared

VARIABLES
  map,           \* what was mapped
  extraction     \* what the extractor does

extractVars == <<compressorVars, restrictionVars, factoryVars, map, extraction>>

ExtractInit ==
  /\ map \in Maps
  /\ node_based_graph = map.roads
  /\ barrier_nodes = map.barriers
  /\ traffic_signals = map.signals
  /\ turn_restrictions = map.restrictions
  /\ maneuver_overrides = map.overrides
  /\ node_v = 0
  /\ rg = NoRestrictions
  /\ built = [builder |-> "path", index |-> 1]
  /\ segment_data = << >>
  /\ nbe_to_ebn = << >>
  /\ ebn = << >>
  /\ segments = {}
  /\ ebg = {}
  /\ conditionals = {}
  /\ turn_to_ebn = << >>
  /\ intersection = 0
  /\ extraction = "compress"

Compress ==
  /\ extraction = "compress"
  /\ CompressNode
  /\ UNCHANGED <<restrictionVars, factoryVars, map, extraction>>

\* The end of NodeBasedGraphFactory, and removeInvalidRestrictions.
FinishGraph ==
  /\ extraction = "compress" /\ node_v \notin Junctions
  /\ AddUncompressedEdges
  /\ segment_data' = CompressGeometry(node_based_graph')
  /\ turn_restrictions' = RemoveInvalidRestrictions(node_based_graph', turn_restrictions)
  /\ extraction' = "restrictions"
  /\ UNCHANGED <<barrier_nodes, traffic_signals, maneuver_overrides, node_v, restrictionVars, map>>
  /\ UNCHANGED <<nbe_to_ebn, ebn, segments, ebg, conditionals, turn_to_ebn, intersection>>

ConstructRestrictionGraph ==
  /\ extraction = "restrictions"
  /\ \/ (AddRestriction \/ PathsBuilt) /\ UNCHANGED extraction
     \/ RenumberViaNodes /\ extraction' = "nodes"
  /\ UNCHANGED <<compressorVars, factoryVars, map>>

GenerateEdgeExpandedNodes ==
  /\ extraction = "nodes"
  /\ ExpandNodes
  /\ extraction' = "edges"
  /\ UNCHANGED <<compressorVars, restrictionVars, map>>
  /\ UNCHANGED <<segment_data, ebg, conditionals, turn_to_ebn, intersection>>

GenerateEdgeExpandedEdges ==
  /\ extraction = "edges"
  /\ ExpandIntersection
  /\ extraction' = IF intersection' \in Junctions THEN "edges" ELSE "done"
  /\ UNCHANGED <<compressorVars, restrictionVars, map, segment_data, nbe_to_ebn, ebn, segments>>

ExtractNext == \/ Compress \/ FinishGraph \/ ConstructRestrictionGraph
               \/ GenerateEdgeExpandedNodes \/ GenerateEdgeExpandedEdges

(***************************************************************************)
(* The ways through the mapped roads that obey the rules of the road: no   *)
(* way through a barrier, no turning back where one can go on, and none    *)
(* that a restriction forbids. A restriction over a road that may not be   *)
(* driven counts for nothing.                                              *)
(***************************************************************************)
InForce(active) ==
  {r \in ToSet(map.restrictions) :
     IsValidRestriction(map.roads, r) /\ r.condition \in active \cup {"none"}}

\* The way w, if its last turn is the only one that may be forbidden.
LastTurnLegal(w, rules) ==
  LET k == Len(w)
      before == SubSeq(w, 1, k - 1)
      atNode == {r \in rules : IsUnconditional(r) /\ <<r.from>> \o r.via = SubSeq(w, k - 2, k - 1)}
  IN /\ \A r \in rules : IsSuffix(<<r.from>> \o r.via, before) => ~IsTurnRestricted(r, w[k])
     /\ IF w[k] = w[k - 2] THEN UturnAllowed(map.roads, atNode, w[k - 2], w[k - 1])
        ELSE w[k - 1] \notin barrier_nodes

LegalToTheEnd(w, rules) ==
  /\ Traversable(map.roads, w[Len(w) - 1], Last(w))
  /\ Len(w) > 2 => LastTurnLegal(w, rules)
LegalWays(active) ==
  LET rules == InForce(active)
      Longer(ways, k) ==
        ways \cup {w \in {Append(w, n) : w \in {w \in ways : Len(w) = k - 1}, n \in Junctions} :
                     LegalToTheEnd(w, rules)}
  IN FoldLeft(Longer, {<<n>> : n \in Junctions}, [i \in 1 .. MaxWay - 1 |-> i + 1])

MappedWeight(w) ==
  FoldLeft(LAMBDA acc, i : acc + map.roads[<<w[i], w[i + 1]>>].weight
             + IF i = 1 THEN 0 ELSE ProcessTurn(w[i] \in map.signals, w[i - 1] = w[i + 1]),
           0, [i \in 1 .. Len(w) - 1 |-> i])

\* The ways in the edge-based graph, from any road on, by the zipped geometry. A penalty
\* repeats a node.
WithoutRepeats(s) ==
  FoldLeft(LAMBDA acc, n : IF Last(acc) = n THEN acc ELSE Append(acc, n), <<s[1]>>, Tail(s))
IsForward(n) == ebn[n].road \in DOMAIN segment_data
Nodes(n) ==
  WithoutRepeats(IF IsForward(n) THEN segment_data[ebn[n].road].nodes
                 ELSE Reverse(segment_data[Turned(ebn[n].road)].nodes))
GeometryWeight(n) ==
  FoldLeft(+, 0, IF IsForward(n) THEN segment_data[ebn[n].road].fwd_weights
                 ELSE segment_data[Turned(ebn[n].road)].rev_weights)

ExtractedWays(active) ==
  LET open == OpenEdges(active)
      roads == [n \in DOMAIN ebn |-> Nodes(n)]
      Continue(ways, i) ==
        ways \cup
        {v \in UNION {{[nodes |-> w.nodes \o Tail(roads[e.target]), last |-> e.target,
                        weight |-> w.weight + e.weight]
                         : e \in {e \in open : e.source = w.last}} : w \in ways}
           : Len(v.nodes) <= MaxWay}
      first == {[nodes |-> roads[n], last |-> n, weight |-> 0] : n \in {n \in 1 .. Base : Len(roads[n]) <= MaxWay}}
  IN FoldLeft(Continue, first, [i \in 1 .. MaxWay - 2 |-> i])

\* Every mapped road is one segment of the r-tree, and the zipped geometry has its weights
\* in both directions at the place the segment names.
SegmentsExact ==
  /\ \A a \in Pairs(map.roads) :
       Cardinality({s \in segments : {s.source, s.target} = {a[1], a[2]}}) = 1
  /\ \A s \in segments :
       /\ segment_data[s.road].fwd_weights[s.position] = map.roads[<<s.source, s.target>>].weight
       /\ segment_data[s.road].rev_weights[s.position] = map.roads[<<s.target, s.source>>].weight

Kept == {a[1] : a \in Roads(node_based_graph)}

(***************************************************************************)
(* The edge-based graph has exactly the ways that were mapped, between     *)
(* nodes that were not compressed, with their weights: through any         *)
(* restrictions over one node or several roads, overlapping or nested, for *)
(* a time or always (restriction_graph.cpp, restriction_compressor.cpp     *)
(* and edge_based_graph_factory.cpp 713-1052); and the segments and their  *)
(* weights are those that were mapped (ZipEdges, InsertEdgeBasedNode).     *)
(***************************************************************************)
WaysExact ==
  extraction = "done" =>
    /\ SegmentsExact
    /\ \A active \in SUBSET Conditions :
         {<<w.nodes, w.weight + GeometryWeight(w.last)>> : w \in ExtractedWays(active)} =
         {<<w, MappedWeight(w)>>
            : w \in {w \in LegalWays(active) : Len(w) > 1 /\ {w[1], Last(w)} \subseteq Kept}}

LegalTurn(t) ==
  /\ Traversable(map.roads, t.from, t.via)
  /\ LegalToTheEnd(<<t.from, t.via, t.to>>, InForce({}))
\* A turn with which the way into a way restriction begins.
EntersRestriction(t) ==
  \E r \in InForce(Conditions) :
    Len(r.via) > 1 /\ SubSeq(<<r.from>> \o r.via, 1, 3) = <<t.from, t.via, t.to>>

(***************************************************************************)
(* A maneuver override at nodes that were not compressed, of turns that    *)
(* may be made, is resolved to edge-based nodes that begin and end with    *)
(* the mapped roads of its turns and, where one turn follows the other, to *)
(* turns of the edge-based graph, so that routes are found to have it      *)
(* (edge_based_graph_factory.cpp 1024-1040, 1101-1132, and                 *)
(* restriction_compressor.cpp 170-239 for the compressed neighbours).      *)
(* Overrides that go on along a way restriction are another matter.        *)
(***************************************************************************)
OverridesResolved ==
  extraction = "done" =>
    \A i \in DOMAIN map.overrides :
      LET turns == map.overrides[i]
          sequence == NodeSequence(maneuver_overrides[i])
      IN (/\ \A k \in DOMAIN turns : turns[k].via \in Kept /\ LegalTurn(turns[k])
          /\ \A k \in 1 .. Len(turns) - 1 : ~EntersRestriction(turns[k]))
         => /\ Unresolved \notin ToSet(sequence)
            /\ IsSuffix(<<turns[1].from, turns[1].via>>, Nodes(sequence[1]))
            /\ \A k \in DOMAIN turns :
                 /\ IsPrefix(<<turns[k].via, turns[k].to>>, Nodes(sequence[k + 1]))
                 /\ k = 1 \/ Last(Nodes(sequence[k])) = turns[k].via =>
                      \E e \in ebg : <<e.source, e.target>> = <<sequence[k], sequence[k + 1]>>
=============================================================================
