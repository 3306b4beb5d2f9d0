--------------------------- MODULE ContractedRoutes --------------------------
(***************************************************************************)
(* osrm-contract and the engine together: every route the engine finds on  *)
(* the graph that any contraction leaves, compared with the shortest ways  *)
(* in the graph that was contracted.                                       *)
(***************************************************************************)
EXTENDS Contractor, ChRouting

CONSTANT Queries    \* requests for a route: source and target

\* ContiguousInternalMemoryDataFacade<CH>: the view of the graph for one exclude index.
QueryGraph(f) == {c.edge : c \in {c \in container : f \in c.flags}}

\* The ways from source to target, for the distances d: along one node, from one node to
\* another, and round to the same node because the target lies behind the source.
Ways(d, q) ==
  {LET s == q.source[i]
       t == q.target[j]
       kind == IF s.node # t.node THEN "over" ELSE IF t.weight >= s.weight THEN "along" ELSE "round"
   IN [kind |-> kind,
       weight |-> t.weight - s.weight + IF kind = "along" THEN 0 ELSE d[<<s.node, t.node>>]]
     : i \in 1..Len(q.source), j \in 1..Len(q.target)}

Best(d, q, kinds) ==
  LET weights == {w.weight : w \in {w \in Ways(d, q) : w.kind \in kinds}}
  IN IF weights = {} \/ Min(weights) > Far \div 2 THEN Far ELSE Min(weights)
Straight(d, q) == Best(d, q, {"along", "over"})
Round(d, q) == Best(d, q, {"round"})

\* The best way is straight, and if the target also lies behind the source on a node then
\* it is a way along a node: a heap has one key for a node, that of the target behind.
GoesStraight(d, q) ==
  \/ \A w \in Ways(d, q) : w.kind # "round"
  \/ Best(d, q, {"along"}) <= Best(d, q, {"over", "round"}) /\ Best(d, q, {"along"}) < Far
GoesRound(d, q) == Round(d, q) < Far /\ \A w \in Ways(d, q) : w.kind = "round"

DistancesFor(f) ==
  Distances(NodeID, LAMBDA m, n : Cheapest(FilterGraph(input.edges, Allowed(f)), m, n))

Answer(g, q) == Searched(g, q.source, q.target).best.weight
Answers(f, Expected(_, _), Asked(_, _)) ==
  LET d == DistancesFor(f)
      g == QueryGraph(f)
  IN \A q \in Queries : Asked(d, q) => Answer(g, q) = Expected(d, q)

Filters == 1..Len(input.filters)

\* Ways through the input graph only, never over an excluded node, that begin and end where
\* they should and weigh what the search said.
IsDriven(f, path, q, weight) ==
  /\ \A i \in 1..Len(path) :
       /\ path[i].weight = Cheapest(FilterGraph(input.edges, Allowed(f)), path[i].from, path[i].to)
       /\ i > 1 => path[i].from = path[i - 1].to
  /\ \E i \in 1..Len(q.source), j \in 1..Len(q.target) :
       /\ IF path = << >> THEN q.source[i].node = q.target[j].node
          ELSE path[1].from = q.source[i].node /\ path[Len(path)].to = q.target[j].node
       /\ weight = FoldLeft(LAMBDA acc, e : acc + e.weight,
                            q.target[j].weight - q.source[i].weight, path)
RoutesAreDriven ==
  \A f \in Filters, q \in Queries :
    LET g == QueryGraph(f)
        s == Searched(g, q.source, q.target)
        paths == UnpackedPath(g, PackedPath(s))
    IN s.best.middle # SPECIAL_NODEID =>
         paths # {} /\ \A path \in paths : IsDriven(f, path, q, s.best.weight)

(***************************************************************************)
(* A route without excludes is a shortest way from source to target, for   *)
(* any order of contraction, for phantom nodes on two segments and with    *)
(* negative offsets (routing_base_ch.hpp 116-187), and every route that is *)
(* found unpacks to roads that can be driven (unpackPath, 234-295).        *)
(* Requests whose best way comes back to the node it left are left to      *)
(* OnewayLoops.                                                            *)
(***************************************************************************)
RoutesAreShortest ==
  stage = "query" =>
    /\ \A f \in Filters : Allowed(f) = NodeID => Answers(f, Straight, GoesStraight)
    /\ RoutesAreDriven

(***************************************************************************)
(* A request to go from a place on a oneway to a place behind it gets the  *)
(* shortest way round: "Via points on ring on the same oneway, forces one  *)
(* of the vertices to be top node" (features/testbot/via.feature 274),     *)
(* for which loops are created (graph_contractor.cpp 190-238).             *)
(***************************************************************************)
IsOneway(q) == Len(q.source) = 1 /\ input.weights[q.source[1].node] = INVALID_EDGE_WEIGHT
OnewayLoops ==
  stage = "query" =>
    \A f \in Filters : Answers(f, Round, LAMBDA d, q : IsOneway(q) /\ GoesRound(d, q))

(***************************************************************************)
(* Excluding some nodes leaves every way that avoids them: "will allow you *)
(* to exclude ferries and motorways, or only motorways" (docs/profiles.md  *)
(* 112; the routes of features/testbot/exclude.feature).                   *)
(***************************************************************************)
ExcludesAreRouted == stage = "query" => \A f \in Filters : Answers(f, Straight, GoesStraight)
=============================================================================
