-------------------------- MODULE RestrictionGraph ---------------------------
(***************************************************************************)
(* The graph of the turn restrictions: for each road on which a            *)
(* restriction begins a start node, from which the roads in "via" lead     *)
(* along a prefix tree of via nodes; transfers lead from one tree to       *)
(* another where the end of one path is the beginning of another.          *)
(*                                                                         *)
(* rg.nodes[id] has the restrictions that hold on leaving the node and the *)
(* edges to further via nodes; rg.start and rg.via index the nodes by      *)
(* their road. The ranges of edges and restrictions that the builders read *)
(* are taken to keep their values while they append: the code's iterators  *)
(* into these vectors are only valid as long as nothing is reallocated.    *)
(***************************************************************************)
EXTENDS GraphCompressor

VARIABLES
  rg,             \* the restriction graph
  built           \* which builder works on which restriction next

restrictionVars == <<rg, built>>

NoRestrictions == [nodes |-> << >>, start |-> << >>, via |-> {}, num_via_nodes |-> 0]

\* removeInvalidRestrictions
IsValidRestriction(g, r) ==
  LET path == <<r.from>> \o r.via \o <<r.to>>
  IN \A i \in 1 .. Len(path) - 1 : Traversable(g, path[i], path[i + 1])
RemoveInvalidRestrictions(g, restrictions) ==
  SelectSeq(restrictions, LAMBDA r : IsValidRestriction(g, r))

NewNode == [restrictions |-> << >>, edges |-> << >>]
insertEdge(graph, id, edge) == [graph EXCEPT !.nodes[id].edges = Append(@, edge)]
insertRestriction(graph, id, r) == [graph EXCEPT !.nodes[id].restrictions = Append(@, r)]

\* The first edge of a node to a road, or 0.
First(places) == IF places = {} THEN 0 ELSE Min(places)
EdgeTo(graph, id, to) ==
  First({i \in DOMAIN graph.nodes[id].edges : graph.nodes[id].edges[i].node_based_to = to})

GetOrInsertStartNode(graph, road) ==
  IF road \in DOMAIN graph.start THEN graph
  ELSE [graph EXCEPT !.nodes = Append(@, NewNode),
                     !.start = [a \in DOMAIN @ \cup {road} |->
                                  IF a = road THEN Len(graph.nodes) + 1 ELSE @[a]]]
InsertViaNode(graph, road) ==
  [graph EXCEPT !.nodes = Append(@, NewNode), !.via = @ \cup {<<road, Len(graph.nodes) + 1>>}]

\* The pairs of neighbours in "via": none for a node restriction.
ViaRoads(r) == [i \in 1 .. Len(r.via) - 1 |-> <<r.via[i], r.via[i + 1]>>]
StartRoad(r) == <<r.from, r.via[1]>>

\* pathBuilder
PathNext(b, road) ==
  LET i == EdgeTo(b.rg, b.cur_node, road[2])
      id == Len(b.rg.nodes) + 1
  IN IF i # 0 THEN [b EXCEPT !.cur_node = b.rg.nodes[@].edges[i].target]
     ELSE [rg |-> insertEdge(InsertViaNode(b.rg, road), b.cur_node,
                             [node_based_to |-> road[2], target |-> id, is_transfer |-> FALSE]),
           cur_node |-> id]
BuildPath(graph, r) ==
  LET started == GetOrInsertStartNode(graph, StartRoad(r))
      end == FoldLeft(PathNext, [rg |-> started, cur_node |-> started.start[StartRoad(r)]], ViaRoads(r))
  IN insertRestriction(end.rg, end.cur_node, r)

\* transferBuilder: suffix_nodes are the ends of the paths that are a suffix of the path to
\* cur_node, the longest first.
NextSuffixes(b, road) ==
  LET Along(id) == {e \in ToSet(b.rg.nodes[id].edges) : e.node_based_to = road[2] /\ ~e.is_transfer}
      longer == SelectSeq(b.suffix_nodes, LAMBDA id : Along(id) # {})
  IN Map(longer, LAMBDA id : (CHOOSE e \in Along(id) : TRUE).target)
       \o (IF road \in DOMAIN b.rg.start THEN <<b.rg.start[road]>> ELSE << >>)

\* Mutant: the paths stay apart.
AddNoTransfer(graph, cur_node, suffix_node) == graph

\* The edges of the suffix, unless a restriction forbids the turn or there is an edge already.
AddSuffixTransfer(graph, cur_node, suffix_node) ==
  LET Add(acc, e) ==
        IF \/ e.is_transfer
           \/ \E r \in ToSet(acc.nodes[cur_node].restrictions) :
                IsTurnRestricted(r, e.node_based_to) /\ IsUnconditional(r)
           \/ EdgeTo(acc, cur_node, e.node_based_to) # 0
        THEN acc
        ELSE insertEdge(acc, cur_node, [e EXCEPT !.is_transfer = TRUE])
  IN FoldLeft(Add, graph, graph.nodes[suffix_node].edges)

TransferNext(b, road) ==
  LET cur == b.rg.nodes[b.cur_node].edges[EdgeTo(b.rg, b.cur_node, road[2])].target
      suffixes == NextSuffixes(b, road)
      linked == FoldLeft(LAMBDA acc, id : AddSuffixTransfer(acc, cur, id), b.rg, suffixes)
      Inherit(acc, id) == [acc EXCEPT !.nodes[cur].restrictions = @ \o acc.nodes[id].restrictions]
  IN [rg |-> FoldLeft(Inherit, linked, suffixes), cur_node |-> cur, suffix_nodes |-> suffixes]
BuildTransfers(graph, r) ==
  FoldLeft(TransferNext, [rg |-> graph, cur_node |-> graph.start[StartRoad(r)], suffix_nodes |-> << >>],
           ViaRoads(r)).rg

\* The via nodes are put first, so that their numbers are those of the duplicated nodes.
ViaNodesFirst(graph) ==
  LET vias == {v[2] : v \in graph.via}
      ids == [i \in 1 .. Len(graph.nodes) |-> i]
      ordering == SelectSeq(ids, LAMBDA i : i \in vias) \o SelectSeq(ids, LAMBDA i : i \notin vias)
      permutation == [i \in DOMAIN ids |-> First({k \in DOMAIN ids : ordering[k] = i})]
      Moved(node) == [node EXCEPT !.edges = Map(@, LAMBDA e : [e EXCEPT !.target = permutation[@]])]
  IN [nodes |-> Map(ordering, LAMBDA i : Moved(graph.nodes[i])),
      start |-> [a \in DOMAIN graph.start |-> permutation[graph.start[a]]],
      via |-> {<<v[1], permutation[v[2]]>> : v \in graph.via},
      num_via_nodes |-> Cardinality(vias)]

\* constructRestrictionGraph, one restriction at a time.
AddRestriction ==
  /\ built.index <= Len(turn_restrictions)
  /\ LET r == turn_restrictions[built.index]
     IN rg' = IF built.builder = "path" THEN BuildPath(rg, r) ELSE BuildTransfers(rg, r)
  /\ built' = [built EXCEPT !.index = @ + 1]

PathsBuilt ==
  /\ built.builder = "path" /\ built.index > Len(turn_restrictions)
  /\ built' = [builder |-> "transfer", index |-> 1]
  /\ UNCHANGED rg

RenumberViaNodes ==
  /\ built.builder = "transfer" /\ built.index > Len(turn_restrictions)
  /\ rg' = ViaNodesFirst(rg)
  /\ UNCHANGED built

(***************************************************************************)
(* The indices over the graph: NodeRestrictionMap and WayRestrictionMap.   *)
(***************************************************************************)
NodeRestrictions(m, n) ==
  IF <<m, n>> \in DOMAIN rg.start THEN ToSet(rg.nodes[rg.start[<<m, n>>]].restrictions) ELSE {}
Unconditional(rs) == {r \in rs : IsUnconditional(r)}
Conditional(rs) == {r \in rs : ~IsUnconditional(r)}

DuplicatedNodeIDs(m, n) == {v[2] : v \in {v \in rg.via : v[1] = <<m, n>>}}
DuplicatedViaEdge(id) == (CHOOSE v \in rg.via : v[2] = id)[1]
Restricting(id, to) == {r \in ToSet(rg.nodes[id].restrictions) : IsTurnRestricted(r, to)}

\* Where an edge leads that may have to lead to a duplicated node, which are numbered from base.
Remapped(node, id, to, base) ==
  LET i == EdgeTo(rg, id, to)
  IN IF i = 0 THEN node ELSE base + rg.nodes[id].edges[i].target
RemapIfRestrictionStart(node, m, n, to, base) ==
  IF <<m, n>> \in DOMAIN rg.start THEN Remapped(node, rg.start[<<m, n>>], to, base) ELSE node
RemapIfRestrictionVia(node, from, to, base) == Remapped(node, from - base, to, base)
=============================================================================
