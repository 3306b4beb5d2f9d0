------------------------------ MODULE Contractor -----------------------------
(***************************************************************************)
(* osrm-contract: contractGraph (graph_contractor.cpp), and                *)
(* contractExcludableGraph, which runs it once for the nodes that may      *)
(* always be used and once more for each set of nodes that a request can   *)
(* restrict a route to (contract_excludable_graph.hpp,                     *)
(* contracted_edge_container.hpp).                                         *)
(*                                                                         *)
(* Each round finds the independent nodes, contracts them in parallel on   *)
(* the unchanged graph, removes the edges to them, inserts the shortcuts   *)
(* and evaluates the priorities of their neighbours anew. Priorities are   *)
(* heuristics: any value may come out of an evaluation. What evaluating    *)
(* does to the weights of nodes (ContractNode as a simulation) is          *)
(* modelled; the threads of one parallel loop may come in any order.       *)
(***************************************************************************)
EXTENDS NodeContraction, ShortestPaths, Sequences, FiniteSets

CONSTANTS Inputs,          \* inputs: edges, node weights, filters
          Priorities,      \* values of priorities
          MaxPriority,     \* numeric_limits<NodePriority>::max()
          RenumberBelow,   \* 0.35 * number_of_nodes
          BaseCore         \* (1 - BASE_CORE) * number_of_nodes

ASSUME ContractorAssumption == Priorities \subseteq Nat /\ MaxPriority \in Nat

VARIABLES input,           \* what osrm-contract reads
          stage,           \* "full", "base", "filters" or "query"
          filter,          \* the filter the graph is contracted for, in stage "filters"
          core_graph, shared_core,      \* what the base contraction left
          container,       \* edge_container: edges with the filters they are for
          graph, node_weights, priorities, is_core, contractable, new_to_old, phase,
          independent,     \* the nodes contracted in this round
          todo,            \* those that no thread has contracted yet
          inserted,        \* the edges that wait for insertion
          renumbered       \* next_renumbering = 0

stageVars == <<input, stage, filter, core_graph, shared_core, container>>
contractorVars == <<stageVars, graph, node_weights, priorities, is_core, contractable, new_to_old,
                    phase, independent, todo, inserted, renumbered>>

remaining_nodes == is_core \cap contractable
CoreSize == IF stage = "base" THEN BaseCore ELSE 0

-----------------------------------------------------------------------------
(***************************************************************************)
(* contractGraph                                                           *)
(***************************************************************************)
Begin(g, core, may_contract) ==
  /\ graph' = g /\ node_weights' = input.weights
  /\ is_core' = core /\ contractable' = may_contract
  /\ priorities' = [n \in NodeID |-> 0]
  /\ new_to_old' = [n \in NodeID |-> n]
  /\ phase' = "priorities"
  /\ independent' = {} /\ todo' = {} /\ inserted' = {}
  /\ renumbered' = FALSE

InitialPriorities ==
  /\ phase = "priorities"
  /\ \E p \in [remaining_nodes -> Priorities] :
       priorities' = [n \in NodeID |-> IF n \in remaining_nodes THEN p[n]
                                       ELSE IF n \in is_core THEN MaxPriority ELSE 0]
  /\ node_weights' \in Simulated(graph, node_weights, remaining_nodes)
  /\ phase' = "round"
  /\ UNCHANGED <<stageVars, graph, is_core, contractable, new_to_old, independent, todo, inserted,
                 renumbered>>

MustRenumber == ~renumbered /\ Cardinality(remaining_nodes) < RenumberBelow

RenumberGraph(g, old_to_new) ==
  {ContractorEdge(old_to_new[e.source], old_to_new[e.target], e.weight, e.shortcut,
                  IF e.shortcut THEN old_to_new[e.id] ELSE e.id, e.forward, e.backward) : e \in g}

\* Remaining nodes get the low ids, all others the high ids, each in their order.
Renumberings ==
  {order \in [NodeID -> NodeID] :
     /\ \A n \in NodeID : \E m \in NodeID : order[m] = n
     /\ \A m, n \in NodeID : order[m] = order[n] => m = n}
KeepsLocality(order) ==
  \A m, n \in NodeID :
    /\ m \in remaining_nodes /\ n \notin remaining_nodes => order[m] < order[n]
    /\ (m \in remaining_nodes <=> n \in remaining_nodes) /\ m < n => order[m] < order[n]

RenumberData ==
  /\ phase = "round" /\ Cardinality(remaining_nodes) > CoreSize /\ MustRenumber
  /\ \E order \in Renumberings :
       LET Permuted(f) == [n \in NodeID |-> f[CHOOSE m \in NodeID : order[m] = n]]
       IN /\ KeepsLocality(order)
          /\ graph' = RenumberGraph(graph, order)
          /\ priorities' = Permuted(priorities)
          /\ node_weights' = Permuted(node_weights)
          /\ new_to_old' = Permuted(new_to_old)
          /\ is_core' = {order[n] : n \in is_core}
          /\ contractable' = {order[n] : n \in contractable}
  /\ renumbered' = TRUE
  /\ UNCHANGED <<stageVars, phase, independent, todo, inserted>>

FindIndependent ==
  /\ phase = "round" /\ Cardinality(remaining_nodes) > CoreSize /\ ~MustRenumber
  /\ independent' = {n \in remaining_nodes : IsNodeIndependent(graph, priorities, new_to_old, n)}
  /\ todo' = independent'
  /\ phase' = "contract"
  /\ UNCHANGED <<stageVars, graph, node_weights, priorities, is_core, contractable, new_to_old,
                 inserted, renumbered>>

\* One thread contracts one node.
ContractNode(n) ==
  /\ phase = "contract" /\ n \in todo
  /\ inserted' = inserted \cup NewEdges(graph, node_weights, n)
  /\ node_weights' \in Noted(graph, node_weights, n, 0)
  /\ todo' = todo \ {n}
  /\ UNCHANGED <<stageVars, graph, priorities, is_core, contractable, new_to_old, phase,
                 independent, renumbered>>

\* The core flags, and DeleteIncomingEdges for all nodes of the round.
DeleteIncoming ==
  /\ phase = "contract" /\ todo = {}
  /\ is_core' = is_core \ independent
  /\ graph' = {e \in graph : ~(/\ e.target \in independent
                               /\ e.source \in Neighbours(graph, e.target))}
  /\ phase' = "insert"
  /\ UNCHANGED <<stageVars, node_weights, priorities, contractable, new_to_old, independent, todo,
                 inserted, renumbered>>

\* One of the edges that the threads left behind is inserted.
InsertEdge(e) ==
  /\ phase = "insert" /\ e \in inserted
  /\ graph' \in AfterInsert(graph, e)
  /\ inserted' = inserted \ {e}
  /\ UNCHANGED <<stageVars, node_weights, priorities, is_core, contractable, new_to_old, phase,
                 independent, todo, renumbered>>

\* UpdateNodeNeighbours for all nodes of the round, and the end of the round.
UpdateNeighbours ==
  LET touched == (UNION {Neighbours(graph, n) : n \in independent}) \cap contractable
  IN /\ phase = "insert" /\ inserted = {}
     /\ \E p \in [touched -> Priorities] :
          priorities' = [n \in NodeID |-> IF n \in touched THEN p[n] ELSE priorities[n]]
     /\ node_weights' \in Simulated(graph, node_weights, touched)
     /\ independent' = {}
     /\ phase' = "round"
     /\ UNCHANGED <<stageVars, graph, is_core, contractable, new_to_old, todo, inserted,
                    renumbered>>

\* The last round is over: ids are those of the input again.
Contracted == phase = "round" /\ Cardinality(remaining_nodes) <= CoreSize
ContractedGraph == RenumberGraph(graph, new_to_old)
ContractedCore == {new_to_old[n] : n \in is_core}
-----------------------------------------------------------------------------
(***************************************************************************)
(* contractExcludableGraph                                                 *)
(***************************************************************************)
FilterGraph(g, nodes) == {e \in g : e.source \in nodes /\ e.target \in nodes}
Allowed(i) == input.filters[i]
always_allowed == {n \in NodeID : \A i \in 1..Len(input.filters) : n \in Allowed(i)}

Flagged(edges, flags) == {[edge |-> e, flags |-> flags] : e \in edges}

\* ContractedEdgeContainer::Filter for every filter.
FilterFlags(e) == {i \in 1..Len(input.filters) : e.source \in Allowed(i) /\ e.target \in Allowed(i)}

\* ContractedEdgeContainer::Merge: an edge that is there already gets one more flag.
Merge(old, edges, i) ==
  {IF c.edge \in edges THEN [c EXCEPT !.flags = @ \cup {i}] ELSE c : c \in old}
    \cup Flagged(edges \ {c.edge : c \in old}, {i})

Idle == /\ graph' = {} /\ is_core' = {} /\ contractable' = {}
        /\ node_weights' = [n \in NodeID |-> 0] /\ priorities' = [n \in NodeID |-> 0]
        /\ new_to_old' = [n \in NodeID |-> n]
        /\ phase' = "done" /\ renumbered' = FALSE
        /\ UNCHANGED <<independent, todo, inserted>>

FinishFull ==
  /\ Contracted /\ stage = "full"
  /\ container' = Flagged(ContractedGraph, {1})
  /\ stage' = "query" /\ Idle
  /\ UNCHANGED <<input, filter, core_graph, shared_core>>

FinishBase ==
  /\ Contracted /\ stage = "base"
  /\ LET core == FilterGraph(ContractedGraph, ContractedCore)
     IN /\ container' = {[edge |-> e, flags |-> FilterFlags(e)] : e \in ContractedGraph \ core}
        /\ core_graph' = core
        /\ shared_core' = ContractedCore
        /\ Begin(FilterGraph(core, Allowed(1)), ContractedCore, ContractedCore)
  /\ stage' = "filters" /\ filter' = 1
  /\ UNCHANGED input

FinishFilter ==
  /\ Contracted /\ stage = "filters"
  /\ container' = Merge(container, ContractedGraph, filter)
  /\ IF filter < Len(input.filters)
     THEN /\ filter' = filter + 1
          /\ Begin(FilterGraph(core_graph, Allowed(filter')), shared_core, shared_core)
          /\ UNCHANGED <<stage, core_graph, shared_core>>
     ELSE /\ stage' = "query" /\ Idle
          /\ core_graph' = {} /\ shared_core' = {}
          /\ UNCHANGED filter
  /\ UNCHANGED input

ContractorInit ==
  /\ input \in Inputs
  /\ stage = IF input.filters = <<NodeID>> THEN "full" ELSE "base"
  /\ filter = 0 /\ core_graph = {} /\ shared_core = {} /\ container = {}
  /\ graph = toContractorGraph(input.edges) /\ node_weights = input.weights
  /\ is_core = NodeID
  /\ contractable = always_allowed
  /\ priorities = [n \in NodeID |-> 0] /\ new_to_old = [n \in NodeID |-> n]
  /\ phase = "priorities"
  /\ independent = {} /\ todo = {} /\ inserted = {}
  /\ renumbered = FALSE

ContractorNext ==
  \/ InitialPriorities \/ RenumberData \/ FindIndependent \/ DeleteIncoming
  \/ UpdateNeighbours \/ FinishFull \/ FinishBase \/ FinishFilter
  \/ \E n \in NodeID : ContractNode(n)
  \/ \E e \in inserted : InsertEdge(e)

ContractorSpec == ContractorInit /\ [][ContractorNext]_contractorVars
-----------------------------------------------------------------------------
\* The graph that the contraction of this stage began with.
StartGraph == IF stage = "filters" THEN FilterGraph(core_graph, Allowed(filter))
              ELSE toContractorGraph(input.edges)

(***************************************************************************)
(* Between two rounds the nodes that are left are as far from each other,  *)
(* in the graph that is left, as they were in the beginning: no round      *)
(* loses a shortest way, whichever nodes it contracts together and         *)
(* whatever the order of its threads (graph_contractor.cpp 650-768).       *)
(***************************************************************************)
DistancesPreserved ==
  phase = "round" =>
    LET before == Distances(NodeID, LAMBDA m, n : Cheapest(StartGraph, m, n))
        now == Distances(is_core, LAMBDA m, n : Cheapest(FilterGraph(graph, is_core), m, n))
    IN \A m, n \in is_core : m # n => now[<<m, n>>] = before[<<new_to_old[m], new_to_old[n]>>]

(***************************************************************************)
(* Every round contracts a node, or contractGraph would never end:         *)
(* "BOOST_ASSERT(end_independent_nodes_idx - begin_independent_nodes_idx > *)
(* 0)" (graph_contractor.cpp 759).                                         *)
(***************************************************************************)
RoundsContract == phase = "contract" => independent # {}

(***************************************************************************)
(* No two nodes that are contracted together touch the same node. Their    *)
(* threads rely on it when they write the weights of neighbours and remove *)
(* edges without a lock: "This guarantees that source is not connected to  *)
(* another node that is contracted" (graph_contractor.cpp 199-201).        *)
(***************************************************************************)
ContractedApart ==
  phase = "contract" =>
    \A m, n \in independent :
      m # n => Neighbours(graph, m) \cap (Neighbours(graph, n) \cup {n}) = {}
=============================================================================
