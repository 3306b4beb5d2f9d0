------------------------ MODULE EdgeBasedGraphFactory ------------------------
(***************************************************************************)
(* The edge-based graph: a node for every direction of a road, further     *)
(* copies of the roads inside way restrictions, and an edge for every turn *)
(* that is allowed from one to the next.                                   *)
(*                                                                         *)
(* The turns at a junction do not depend on those at another, so that the  *)
(* pipeline's parallel stage, whose results are put out in order, is one   *)
(* step per junction. Bearings, lanes and roundabouts are left out.        *)
(***************************************************************************)
EXTENDS RestrictionGraph

\* What a turn that was never found leaves in an override.
Unresolved == 0

VARIABLES
  segment_data,      \* the zipped geometry of each pair of roads
  nbe_to_ebn,        \* the edge-based node of each road that may be driven
  ebn,               \* the edge-based nodes: the road, the weight and whether it is a oneway
  segments,          \* where the edge-based nodes lie: for the r-tree
  ebg,               \* the edges: source, target and weight
  conditionals,      \* the conditions on edges
  turn_to_ebn,       \* the edge of each turn of a maneuver override
  intersection       \* the junction that is expanded next

factoryVars == <<segment_data, nbe_to_ebn, ebn, segments, ebg, conditionals, turn_to_ebn,
                 intersection>>

Pairs(g) == {a \in Roads(g) : a[1] < a[2]}
Turned(a) == <<a[2], a[1]>>
\* The direction of a pair that comes first: one that may be driven.
Forward(g, a) == IF g[a].reversed THEN Turned(a) ELSE a

\* ZipEdges: the nodes from one end to the other, with the weights of the segments that
\* lead there in either direction.
ZipEdges(g, a) ==
  LET forward == g[a].bucket
      reverse == Reverse(g[Turned(a)].bucket)
  IN [nodes |-> <<reverse[1].node>> \o Map(forward, LAMBDA s : s.node),
      fwd_weights |-> Map(forward, LAMBDA s : s.weight),
      rev_weights |-> Map(reverse, LAMBDA s : s.weight)]
CompressGeometry(g) == [a \in {Forward(g, p) : p \in Pairs(g)} |-> ZipEdges(g, a)]

\* LabelEdgeBasedNodes: the roads that may be driven, numbered from one.
LabelEdgeBasedNodes(g) ==
  LET driven == {a \in Roads(g) : ~g[a].reversed}
      UpTo(a) == {b \in driven : b[1] < a[1] \/ (b[1] = a[1] /\ b[2] <= a[2])}
  IN [a \in driven |-> Cardinality(UpTo(a))]

\* InsertEdgeBasedNode and the copies of GenerateEdgeExpandedNodes. A node's weight carries
\* a bit that marks a oneway, in the copy too.
BaseNode(g, a) == [road |-> a, weight |-> g[a].weight, oneway |-> g[Turned(a)].reversed]
EdgeExpandedNodes(g, labels) ==
  LET base == Cardinality(DOMAIN labels)
      Road(n) == IF n <= base THEN CHOOSE a \in DOMAIN labels : labels[a] = n
                 ELSE DuplicatedViaEdge(n - base)
  IN [n \in 1 .. base + rg.num_via_nodes |-> BaseNode(g, Road(n))]

\* The segments of a pair of roads, each with its place in the geometry; the entry of a
\* penalty is none.
SegmentsOf(g, a) ==
  LET nodes == <<a[1]>> \o Map(g[a].bucket, LAMBDA s : s.node)
  IN {[road |-> a, source |-> nodes[i], target |-> nodes[i + 1], position |-> i]
        : i \in {i \in 1 .. Len(nodes) - 1 : nodes[i] # nodes[i + 1]}}

Base == Cardinality(DOMAIN nbe_to_ebn)

(***************************************************************************)
(* Turns.                                                                  *)
(***************************************************************************)
\* Whether one may turn back on the way from m at n: the code counts the roads that lead to
\* n, oneways included.
UturnAllowed(g, restrictions, m, n) ==
  LET exits == {to \in Adjacent(g, n) :
                  Traversable(g, n, to) /\ \A r \in restrictions : ~IsTurnRestricted(r, to)}
      entries == {to \in Adjacent(g, n) : Traversable(g, to, n)}
  IN \/ n \in barrier_nodes
     \/ GetOutDegree(g, n) = 1
     \/ Cardinality(exits) = 1
     \/ Cardinality(entries) <= 1

IsTurnAllowed(g, m, n, to) ==
  LET restrictions == Unconditional(NodeRestrictions(m, n))
  IN /\ Traversable(g, m, n) /\ Traversable(g, n, to)
     /\ \A r \in restrictions : ~IsTurnRestricted(r, to)
     /\ IF m = to THEN UturnAllowed(g, restrictions, m, n) ELSE n \notin barrier_nodes

\* An edge of the edge-based graph, with the conditions on it.
GenerateEdge(g, source, target, m, n, to, restrictions) ==
  [source |-> source, target |-> target,
   weight |-> g[<<m, n>>].weight + ProcessTurn(n \in traffic_signals, m = to),
   conditions |-> {r.condition : r \in restrictions}]

\* The edge from the road itself; to a copy if a way restriction begins with the turn.
ContinuousEdge(g, m, n, to) ==
  GenerateEdge(g, nbe_to_ebn[<<m, n>>],
               RemapIfRestrictionStart(nbe_to_ebn[<<n, to>>], m, n, to, Base),
               m, n, to, {r \in Conditional(NodeRestrictions(m, n)) : IsTurnRestricted(r, to)})

\* The edges from the copies of the road, unless the restrictions there forbid them.
DelayedEdges(g, m, n, to) ==
  {GenerateEdge(g, Base + id, RemapIfRestrictionVia(nbe_to_ebn[<<n, to>>], Base + id, to, Base),
                m, n, to, Restricting(id, to))
     : id \in {id \in DuplicatedNodeIDs(m, n) : Unconditional(Restricting(id, to)) = {}}}

TurnsAt(g, n) ==
  {<<p[1], n, p[2]>> : p \in {p \in Adjacent(g, n) \X Adjacent(g, n) : IsTurnAllowed(g, p[1], n, p[2])}}

EdgesAt(g, n) ==
  UNION {{ContinuousEdge(g, t[1], n, t[3])} \cup DelayedEdges(g, t[1], n, t[3]) : t \in TurnsAt(g, n)}

Overridden(n) ==
  {t \in UNION {ToSet(o) : o \in ToSet(maneuver_overrides)} :
     <<t.from, t.via, t.to>> \in TurnsAt(node_based_graph, n)}

ExpandNodes ==
  LET g == node_based_graph
      labels == LabelEdgeBasedNodes(g)
  IN /\ nbe_to_ebn' = labels
     /\ ebn' = EdgeExpandedNodes(g, labels)
     /\ segments' = UNION {SegmentsOf(g, Forward(g, p)) : p \in Pairs(g)}

ExpandIntersection ==
  /\ intersection \in Junctions
  /\ intersection' = intersection + 1
  /\ LET edges == EdgesAt(node_based_graph, intersection)
     IN /\ ebg' = ebg \cup {[source |-> e.source, target |-> e.target, weight |-> e.weight] : e \in edges}
        /\ conditionals' = conditionals \cup
             UNION {{[from_node |-> e.source, to_node |-> e.target, condition |-> c]
                       : c \in e.conditions} : e \in edges}
  /\ turn_to_ebn' =
       [t \in DOMAIN turn_to_ebn \cup Overridden(intersection) |->
          IF t \in DOMAIN turn_to_ebn THEN turn_to_ebn[t]
          ELSE LET e == ContinuousEdge(node_based_graph, t.from, t.via, t.to)
               IN <<e.source, e.target>>]

\* The nodes of an override: those of a turn come before what the next turn begins with.
NodeSequence(override) ==
  [i \in 1 .. Len(override) + 1 |->
     IF i > 1 /\ override[i - 1] \in DOMAIN turn_to_ebn THEN turn_to_ebn[override[i - 1]][2]
     ELSE IF i <= Len(override) /\ override[i] \in DOMAIN turn_to_ebn THEN turn_to_ebn[override[i]][1]
     ELSE Unresolved]

\* IndexConditionals and updateConditionalTurns: the edges that are left when the conditions
\* in active hold.
OpenEdges(active) ==
  {e \in ebg : \A c \in conditionals :
     c.condition \in active => <<c.from_node, c.to_node>> # <<e.source, e.target>>}
=============================================================================
