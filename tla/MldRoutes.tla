------------------------------ MODULE MldRoutes ------------------------------
(***************************************************************************)
(* osrm-partition, osrm-customize and the engine together: the cells that  *)
(* any bisection leads to, their matrices for every exclude filter, and    *)
(* the routes and tables the engine finds with them, compared with the     *)
(* shortest ways in the graph that was given.                              *)
(***************************************************************************)
EXTENDS Partitioner, MldTables, ViaRoutes, ShortestPaths

CONSTANTS NUM_PARTITION_BITS,   \* the width of a packed partition
          Queries,              \* requests for a route: source and target
          TableQueries,         \* requests for a table: sources and targets
          ViaQueries            \* requests for a route over several stops

VARIABLES
  given,       \* the dataset before it was renumbered
  mlp,         \* the packed partition, .partition
  storage,     \* the cells, .cells
  graph,       \* the multi-level graph, .mldgr
  metric,      \* the metric that is filled
  todo,        \* the cells of the level that are not customized yet
  metrics      \* the metrics that are finished, one for each filter, .cell_metrics

overlayVars == <<mlp, storage, graph, metric, todo, metrics>>
mldVars == <<partitionVars, given, overlayVars>>

Nothing == << >>

MldInit ==
  /\ PartitionInit
  /\ given = input
  /\ mlp = Nothing /\ storage = Nothing /\ graph = Nothing
  /\ metric = Nothing /\ todo = {} /\ metrics = << >>

Partition == PartitionNext /\ UNCHANGED <<given, overlayVars>>

\* The end of Partitioner::Run: partition, cells and graph are built and written, unless
\* the ids of the cells do not fit in a packed partition.
MakeOverlay ==
  /\ stage = "partitioned"
  /\ LET offsets == MakeLevelOffsets(num_cells)
     IN offsets[Len(offsets)] <= NUM_PARTITION_BITS
  /\ mlp' = PackedPartition(partitions, num_cells)
  /\ storage' = MakeCellStorage(mlp', NodeID, LoadEdgeBasedGraph(input.edges))
  /\ stage' = "customize"
  /\ UNCHANGED <<input, cells, large, level, node, partitions, num_cells, permutation,
                 given, graph, metric, todo, metrics>>

PartitionFails ==
  /\ stage = "partitioned"
  /\ LET offsets == MakeLevelOffsets(num_cells)
     IN offsets[Len(offsets)] > NUM_PARTITION_BITS
  /\ stage' = "failed"
  /\ UNCHANGED <<input, cells, large, level, node, partitions, num_cells, permutation,
                 given, overlayVars>>
-----------------------------------------------------------------------------
(***************************************************************************)
(* Customizer::Run: levels from the lowest up, the cells of a level in     *)
(* parallel, each by one thread (tbb::parallel_for).                       *)
(***************************************************************************)
CellsOf(l) == 0..(GetNumberOfCells(mlp, l) - 1)
Allowed(f) == input.filters[f]
Customized == Len(metrics) + 1     \* the filter that is worked on

StartMetric ==
  /\ stage = "customize" /\ metric = Nothing /\ Customized <= Len(input.filters)
  /\ graph' = MakeMultiLevelGraph(mlp, NodeID, LoadEdgeBasedGraph(input.edges))
  /\ metric' = MakeMetric(storage)
  /\ level' = 1
  /\ todo' = CellsOf(1)
  /\ UNCHANGED <<input, stage, cells, large, node, partitions, num_cells, permutation,
                 given, mlp, storage, metrics>>

CustomizeCell ==
  \E id \in todo :
    /\ metric' = Customize(mlp, graph, storage, Allowed(Customized), metric, level, id)
    /\ todo' = todo \ {id}
    /\ UNCHANGED <<partitionVars, given, mlp, storage, graph, metrics>>

\* Mutant: the next level does not wait for the cells of this one.
NextLevelEarly ==
  /\ metric # Nothing /\ Cardinality(todo) <= 1 /\ level < Len(max_cell_sizes)
  /\ level' = level + 1
  /\ todo' = CellsOf(level + 1)
  /\ UNCHANGED <<input, stage, cells, large, node, partitions, num_cells, permutation,
                 given, mlp, storage, graph, metric, metrics>>

NextLevel ==
  /\ metric # Nothing /\ todo = {} /\ level < Len(max_cell_sizes)
  /\ level' = level + 1
  /\ todo' = CellsOf(level + 1)
  /\ UNCHANGED <<input, stage, cells, large, node, partitions, num_cells, permutation,
                 given, mlp, storage, graph, metric, metrics>>

FinishMetric ==
  /\ metric # Nothing /\ todo = {} /\ level = Len(max_cell_sizes)
  /\ metrics' = Append(metrics, metric)
  /\ metric' = Nothing
  /\ stage' = IF Customized = Len(input.filters) THEN "query" ELSE stage
  /\ UNCHANGED <<input, cells, large, level, node, partitions, num_cells, permutation,
                 given, mlp, storage, graph, todo>>

MldNext ==
  \/ Partition \/ MakeOverlay \/ PartitionFails
  \/ StartMetric \/ CustomizeCell \/ NextLevel \/ FinishMetric

MldSpec == MldInit /\ [][MldNext]_mldVars
-----------------------------------------------------------------------------
(***************************************************************************)
(* The packed partition says what the partition says: the same nodes share *)
(* cells, the highest level on which two nodes differ and the children of  *)
(* a cell are the right ones, and all ids fit (multi_level_partition.hpp). *)
(***************************************************************************)
PartitionPacked ==
  mlp # Nothing =>
    /\ \A m, n \in NodeID :
         /\ \A l \in Levels : (GetCell(mlp, l, m) = GetCell(mlp, l, n)) = (partitions[l][m] = partitions[l][n])
         /\ GetHighestDifferentLevel(mlp, m, n) =
              Max({0} \cup {l \in Levels : partitions[l][m] # partitions[l][n]})
    /\ \A l \in Levels :
         /\ {GetCell(mlp, l, n) : n \in NodeID} = CellsOf(l)
         /\ l > 1 => \A c \in CellsOf(l) :
              {GetCell(mlp, l - 1, n) : n \in {n \in NodeID : GetCell(mlp, l, n) = c}}
                = BeginChildren(mlp, l, c)..(EndChildren(mlp, l, c) - 1)

(***************************************************************************)
(* Costs as one number: weights count first, then durations.               *)
(***************************************************************************)
Scale == 1000
Cost(w, d) == w * Scale + d
Unit(v) == IF v >= Far THEN Invalid ELSE [weight |-> v \div Scale, duration |-> v % Scale]

CheapestTurn(edges, m, n) ==
  LET between == {e \in edges : e.source = m /\ e.target = n}
  IN IF between = {} THEN Far ELSE Min({Cost(e.weight, e.duration) : e \in between})

DistancesAmong(data, nodes) ==
  Distances(nodes, LAMBDA m, n : CheapestTurn(data.edges, m, n))

(***************************************************************************)
(* The matrix of a cell has the shortest ways from its sources to its      *)
(* destinations that stay inside the cell and avoid excluded nodes. It is  *)
(* the same for any order of the cells of a level and for every filter     *)
(* (cell_customizer.hpp 35-235).                                           *)
(***************************************************************************)
CellsExact ==
  metric # Nothing /\ todo = {} =>
    \A l \in 1..level : \A c \in CellsOf(l) :
      LET cell == CellAt(storage, l, c)
          inside == {n \in Allowed(Customized) : GetCell(mlp, l, n) = c}
          d == DistancesAmong(input, inside)
      IN \A s \in Range(GetSourceNodes(storage, cell)) :
           \A i \in 1..cell.num_destination_nodes :
             LET a == GetOutRange(storage, cell, metric, s)[i]
                 t == GetDestinationNodes(storage, cell)[i]
             IN /\ a.node = t
                /\ a.value = IF {s, t} \subseteq inside
                             THEN IF s = t THEN Unit(0) ELSE Unit(d[<<s, t>>]) ELSE Invalid

(***************************************************************************)
(* Routes and tables. Requests are made in the numbers of the graph that   *)
(* was given, and renumbered with it (.fileIndex).                         *)
(***************************************************************************)
Facade(f) ==
  [mlp |-> mlp, graph |-> graph, storage |-> storage, metric |-> metrics[f], allowed |-> Allowed(f),
   node_weights |-> input.node_weights, node_durations |-> input.node_durations,
   penalties |-> input.penalties]

Renumbering(phantom) == [i \in DOMAIN phantom |-> [phantom[i] EXCEPT !.node = permutation[@]]]
Usable(phantom, f) == \A i \in DOMAIN phantom : phantom[i].node \in given.filters[f]

\* The cheapest way between two phantom nodes, for the distances d of the given graph.
CheapestBetween(d, s, t) ==
  LET ends == Cost(t.weight, t.duration) - Cost(s.weight, s.duration)
  IN IF s.node = t.node /\ t.weight >= s.weight THEN ends ELSE Nearer(Far, d[<<s.node, t.node>>] + ends)

Answer(cost) == Unit(IF cost > Far \div 2 THEN Far ELSE cost)

Cheapest(d, source, target) ==
  Answer(Min({CheapestBetween(d, source[i], target[j]) : i \in DOMAIN source, j \in DOMAIN target}))

RoutesShortest(Asked(_)) ==
  stage = "query" =>
    \A f \in 1..Len(metrics) :
      LET d == DistancesAmong(given, given.filters[f])
      IN \A q \in Queries : Usable(q.source, f) /\ Usable(q.target, f) /\ Asked(q) =>
           SearchRoute(Facade(f), Renumbering(q.source), Renumbering(q.target)).best.weight
             = Cheapest(d, q.source, q.target).weight

\* Some target lies behind the source on its node.
LiesBehind(source, target) ==
  \E i \in DOMAIN source, j \in DOMAIN target :
    source[i].node = target[j].node /\ source[i].weight > target[j].weight
HidesNoWay(source, target) ==
  LiesBehind(source, target) => Cardinality(DOMAIN source) = 1 /\ Cardinality(DOMAIN target) = 1

\* The nodes of a route, after all arcs of cells are replaced by the ways they stand for, can
\* be driven one after the other, are not excluded, lead from source to target and weigh
\* what the search said.
DrivenWeight(nodes, source, target) ==
  LET Side(phantom, n) == phantom[CHOOSE i \in DOMAIN phantom : phantom[i].node = n]
      turns == [i \in 1..(Len(nodes) - 1) |-> CheapestTurn(input.edges, nodes[i], nodes[i + 1]) \div Scale]
  IN FoldLeft(LAMBDA acc, w : acc + w, Side(target, Last(nodes)).weight - Side(source, Head(nodes)).weight, turns)

IsDriven(f, nodes, source, target) ==
  /\ Range(nodes) \subseteq Allowed(f)
  /\ Head(nodes) \in {source[i].node : i \in DOMAIN source}
  /\ Last(nodes) \in {target[i].node : i \in DOMAIN target}

RouteIsDriven(f, source, target, weight, nodes) ==
  IsDriven(f, nodes, source, target) /\ weight = DrivenWeight(nodes, source, target)

MldRoutesDriven ==
  stage = "query" =>
    \A f \in 1..Len(metrics), q \in Queries :
      LET source == Renumbering(q.source)
          target == Renumbering(q.target)
          Driven(s) == s.best.middle # SPECIAL_NODEID =>
            RouteIsDriven(f, source, target, s.best.weight, RouteNodes(Facade(f), NO_LOOPS, source, target, s))
      IN Usable(q.source, f) /\ Usable(q.target, f) => Driven(SearchRoute(Facade(f), source, target))

(***************************************************************************)
(* A route is a shortest way from source to target, for any bisection and  *)
(* every exclude filter, also when it leaves a cell and comes back to it   *)
(* or to the node it started from (routing_base_mld.hpp 228-517), and its  *)
(* nodes can be driven once the arcs of cells are unpacked (453-516).      *)
(* Phantom nodes on two segments with a target behind the source need not  *)
(* get a shortest way: see FastestRoutes.                                  *)
(***************************************************************************)
MldRoutesShortest ==
  RoutesShortest(LAMBDA q : HidesNoWay(q.source, q.target)) /\ MldRoutesDriven

(***************************************************************************)
(* Every request gets a shortest way: "Finds the fastest route between     *)
(* coordinates in the supplied order" (docs/http.md 199).                  *)
(***************************************************************************)
FastestRoutes == RoutesShortest(LAMBDA q : TRUE)

(***************************************************************************)
(* Every entry of a table is the weight and the duration of the best way   *)
(* from its source to its target, whichever of the searches the dispatcher *)
(* takes (many_to_many_mld.cpp 213-666).                                   *)
(***************************************************************************)
TablesAreShortest ==
  stage = "query" =>
    \A f \in 1..Len(metrics) :
      LET d == DistancesAmong(given, given.filters[f])
          Given(phantoms) == [i \in 1..Len(phantoms) |-> Renumbering(phantoms[i])]
      IN \A q \in TableQueries :
           (\A p \in Range(q.sources \o q.targets) : Usable(p, f)) =>
             LET table == Table(Facade(f), Given(q.sources), Given(q.targets))
             IN \A i \in 1..Len(q.sources), j \in 1..Len(q.targets) :
                  table[i][j] = Cheapest(d, q.sources[i], q.targets[j])

(***************************************************************************)
(* A route over several stops is a shortest one, and its legs are the ways *)
(* it was chosen for: one for each pair of stops, connected in the right   *)
(* order. Where u-turns are not allowed a leg goes on from the side that   *)
(* the leg before it came to (shortest_path_impl.hpp 231-476).             *)
(***************************************************************************)
CheapestVia(d, stops, uturns) ==
  LET LegCost(k, i, j) == CheapestBetween(d, stops[k][i], stops[k + 1][j])
      Sum(Leg(_)) == FoldLeft(LAMBDA acc, k : Nearer(Far, acc + Leg(k)), 0, [k \in 1..(Len(stops) - 1) |-> k])
      choices == {c \in [1..Len(stops) -> Sides] : \A k \in 1..Len(stops) : c[k] \in DOMAIN stops[k]}
  IN Answer(IF uturns
            THEN Sum(LAMBDA k : Min({LegCost(k, i, j) : i \in DOMAIN stops[k], j \in DOMAIN stops[k + 1]}))
            ELSE Min({Sum(LAMBDA k : LegCost(k, c[k], c[k + 1])) : c \in choices}))

ViaRoutesShortest ==
  stage = "query" =>
    \A f \in 1..Len(metrics) :
      LET d == DistancesAmong(given, given.filters[f])
      IN \A q \in ViaQueries :
           LET stops == [k \in 1..Len(q.stops) |-> Renumbering(q.stops[k])]
               pairs == 1..(Len(stops) - 1)
               Right(route) ==
                 /\ route.weight = CheapestVia(d, q.stops, q.uturns).weight
                 /\ route.weight # INVALID_EDGE_WEIGHT =>
                      /\ Len(route.legs) = Len(stops) - 1
                      /\ \A k \in pairs : IsDriven(f, route.legs[k], stops[k], stops[k + 1])
                      /\ q.uturns \/ \A k \in pairs \ {1} : Head(route.legs[k]) = Last(route.legs[k - 1])
                      /\ route.weight = FoldLeft(LAMBDA acc, k :
                           acc + DrivenWeight(route.legs[k], stops[k], stops[k + 1]), 0, [k \in pairs |-> k])
           IN (/\ \A p \in Range(q.stops) : Usable(p, f)
               /\ \A k \in pairs : HidesNoWay(stops[k], stops[k + 1])) =>
                Right(shortestPathSearch(Facade(f), stops, q.uturns))
=============================================================================
