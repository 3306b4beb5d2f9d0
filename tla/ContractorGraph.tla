--------------------------- MODULE ContractorGraph ---------------------------
(***************************************************************************)
(* The graph of the contractor and the questions it asks of it             *)
(* (contractor_graph.hpp, graph_contractor.cpp).                           *)
(*                                                                         *)
(* A graph is a set of edges. An edge is stored at its source; forward     *)
(* says that it can be used from source to target, backward that it can be *)
(* used from target to source. Every connection of two nodes is stored at  *)
(* both, until one of them is contracted. id is the middle node of a       *)
(* shortcut. Durations, distances and the count of original edges, which   *)
(* only enter the priorities, are left out.                                *)
(***************************************************************************)
EXTENDS Integers

CONSTANTS NodeID,      \* node ids, 0 .. number of nodes - 1
          Epsilon,     \* numeric_limits<float>::epsilon(), in units of priorities
          fast_hash    \* XORFastHash

ASSUME ContractorGraphAssumption ==
  NodeID \subseteq Nat /\ Epsilon \in Nat \ {0} /\ fast_hash \in [NodeID -> Nat]

INVALID_EDGE_WEIGHT == 1000000
NoMiddle == -1

ContractorEdge(s, t, w, shortcut, id, forward, backward) ==
  [source |-> s, target |-> t, weight |-> w, shortcut |-> shortcut, id |-> id,
   forward |-> forward, backward |-> backward]

AdjacentEdges(g, n) == {e \in g : e.source = n}
Neighbours(g, n) == {e.target : e \in AdjacentEdges(g, n)} \ {n}

\* Mutant: nodes of the same hash block each other.
HashBias(a, b) == fast_hash[a] <= fast_hash[b]

\* A total order of the nodes that breaks ties between priorities.
Bias(a, b) == fast_hash[a] < fast_hash[b] \/ (fast_hash[a] = fast_hash[b] /\ a < b)

\* Whether m keeps n from being contracted in this round: its priority is lower, or the
\* same and m wins the tie. Ties are decided by the ids the nodes had in the beginning.
Precedes(priorities, new_to_old, m, n) ==
  \/ priorities[n] > priorities[m]
  \/ /\ priorities[n] - priorities[m] < Epsilon
     /\ priorities[m] - priorities[n] < Epsilon
     /\ Bias(new_to_old[n], new_to_old[m])

\* Mutant: only direct neighbours are looked at.
OneHopIndependent(g, priorities, new_to_old, n) ==
  \A u \in Neighbours(g, n) : ~Precedes(priorities, new_to_old, u, n)

\* A node is independent if no node at most two hops away precedes it.
IsNodeIndependent(g, priorities, new_to_old, n) ==
  /\ \A u \in Neighbours(g, n) : ~Precedes(priorities, new_to_old, u, n)
  /\ \A u \in Neighbours(g, n) : \A e \in AdjacentEdges(g, u) :
       e.target # n => ~Precedes(priorities, new_to_old, e.target, n)
=============================================================================
