--------------------------- MODULE NodeContraction ---------------------------
(***************************************************************************)
(* What contracting nodes makes of a graph, as operators                   *)
(* (graph_contractor.cpp, contractor_search.cpp,                           *)
(* graph_contractor_adaptors.hpp).                                         *)
(***************************************************************************)
EXTENDS ContractorGraph, FiniteSetsExt

CONSTANT SearchSpace   \* FULL_SEARCH_SPACE_SIZE: nodes a witness search may settle

(***************************************************************************)
(* toContractorGraph: edges of no weight and loops are dropped, weights    *)
(* are at least 1, of parallel edges the cheapest is kept for each         *)
(* direction, and two directions of the same weight become one edge.       *)
(***************************************************************************)
Usable(edges, s, t) ==
  {e \in edges : /\ e.weight # INVALID_EDGE_WEIGHT
                 /\ \/ e.source = s /\ e.target = t /\ e.forward
                    \/ e.source = t /\ e.target = s /\ e.backward}

Cheapest(edges, s, t) ==
  LET usable == Usable(edges, s, t)
  IN IF usable = {} THEN INVALID_EDGE_WEIGHT ELSE Min({Max({e.weight, 1}) : e \in usable})

ConnectingEdges(edges, s, t) ==
  LET there == Cheapest(edges, s, t)
      back == Cheapest(edges, t, s)
      One(w, forward, backward) == ContractorEdge(s, t, w, FALSE, NoMiddle, forward, backward)
      candidates == IF there = back THEN {One(there, TRUE, TRUE)}
                    ELSE {One(there, TRUE, FALSE), One(back, FALSE, TRUE)}
  IN {e \in candidates : s # t /\ e.weight # INVALID_EDGE_WEIGHT}

toContractorGraph(edges) ==
  UNION {ConnectingEdges(edges, s, t) : s \in NodeID, t \in NodeID}
-----------------------------------------------------------------------------
(***************************************************************************)
(* The search for witnesses, contractor::search: Dijkstra from source that *)
(* avoids one node and gives up after SearchSpace nodes, beyond the weight *)
(* limit, or when all targets are settled. Its result are the weights in   *)
(* the heap, those of unsettled nodes included. Nodes of the same weight   *)
(* are settled in the order of their ids.                                  *)
(***************************************************************************)
\* Mutant: the search may go through the node that is contracted.
RelaxAll(g, search, n, forbidden) ==
  LET Reached(m) == {search.key[n] + e.weight :
                       e \in {e \in AdjacentEdges(g, n) : e.forward /\ e.target = m}}
      Touched == {e.target : e \in {e \in AdjacentEdges(g, n) : e.forward}}
  IN [search EXCEPT !.key = [m \in NodeID |->
                               IF m \in Touched THEN Min(Reached(m) \cup {search.key[m]})
                               ELSE search.key[m]],
                    !.open = @ \cup {m \in Touched : m \notin search.settled}]

relaxNode(g, search, n, forbidden) ==
  LET Reached(m) == {search.key[n] + e.weight :
                       e \in {e \in AdjacentEdges(g, n) : e.forward /\ e.target = m}}
      Touched == {e.target : e \in {e \in AdjacentEdges(g, n) : e.forward}} \ {forbidden}
  IN [search EXCEPT !.key = [m \in NodeID |->
                               IF m \in Touched THEN Min(Reached(m) \cup {search.key[m]})
                               ELSE search.key[m]],
                    !.open = @ \cup {m \in Touched : m \notin search.settled}]

Settle(g, search, targets, limit, forbidden) ==
  LET n == CHOOSE n \in search.open :
             \A m \in search.open : \/ search.key[n] < search.key[m]
                                    \/ search.key[n] = search.key[m] /\ n <= m
      next == [search EXCEPT !.open = @ \ {n}, !.settled = @ \cup {n}]
  IN IF search.over \/ search.open = {} THEN search
     ELSE IF search.key[n] > limit \/ (n \in targets /\ targets \subseteq next.settled)
     THEN [next EXCEPT !.over = TRUE]
     ELSE relaxNode(g, next, n, forbidden)

WitnessKeys(g, source, targets, limit, forbidden) ==
  LET start == [key |-> [n \in NodeID |-> IF n = source THEN 0 ELSE INVALID_EDGE_WEIGHT],
                open |-> {source} \cup targets, settled |-> {}, over |-> FALSE]
      search[k \in 0..SearchSpace] ==
        IF k = 0 THEN start ELSE Settle(g, search[k - 1], targets, limit, forbidden)
  IN search[SearchSpace].key
-----------------------------------------------------------------------------
(***************************************************************************)
(* ContractNode: for every way into the node and every way out, a shortcut *)
(* unless the search found a way that is not longer.                       *)
(***************************************************************************)
InEdges(g, n) == {e \in AdjacentEdges(g, n) : e.target # n /\ e.backward}
OutEdges(g, n) == {e \in AdjacentEdges(g, n) : e.target # n /\ e.forward}

\* Both directions of the shortcut, each stored at its own source.
ShortcutPair(s, t, w, n) ==
  {ContractorEdge(s, t, w, TRUE, n, TRUE, FALSE), ContractorEdge(t, s, w, TRUE, n, FALSE, TRUE)}

ShortcutsFrom(g, n, in) ==
  LET outs == OutEdges(g, n)
      others == {e \in outs : e.target # in.target}
      limit == Max({0} \cup {in.weight + e.weight : e \in others})
      key == WitnessKeys(g, in.target, {e.target : e \in others}, limit, n)
  IN UNION {ShortcutPair(in.target, e.target, in.weight + e.weight, n) :
              e \in {e \in others : in.weight + e.weight < key[e.target]}}

\* The weights of the ways from a neighbour to n and straight back that are shorter than
\* what is noted for n.
Returns(g, weights, n, s) ==
  {w \in {in.weight + e.weight : in \in {f \in InEdges(g, n) : f.target = s},
                                 e \in {f \in OutEdges(g, n) : f.target = s}} :
     w < weights[n]}

Loops(g, weights, n) ==
  UNION {UNION {ShortcutPair(s, s, w, n) : w \in Returns(g, weights, n, s)} :
           s \in Neighbours(g, n)}

\* Shortcuts that differ in direction only become one edge.
Merged(new) ==
  LET Same(e) == {f \in new : f.source = e.source /\ f.target = e.target /\ f.weight = e.weight}
  IN {ContractorEdge(e.source, e.target, e.weight, TRUE, e.id,
                     \E f \in Same(e) : f.forward, \E f \in Same(e) : f.backward) : e \in new}

NewEdges(g, weights, n) ==
  Merged((UNION {ShortcutsFrom(g, n, in) : in \in InEdges(g, n)}) \cup Loops(g, weights, n))

\* The weights noted for the neighbours: of several loops the last one stays. A
\* simulation notes one more, so that the loop is still inserted later.
Noted(g, weights, n, more) ==
  {w \in [NodeID -> {weights[m] : m \in NodeID} \cup
            UNION {{r + more : r \in Returns(g, weights, n, s)} : s \in Neighbours(g, n)}] :
     \A m \in NodeID :
       LET returns == IF m \in Neighbours(g, n) THEN Returns(g, weights, n, m) ELSE {}
       IN IF returns = {} THEN w[m] = weights[m] ELSE w[m] - more \in returns}

\* What simulating the contraction of the nodes S, one after the other in any order,
\* makes of the weights.
Simulated(g, weights, S) ==
  LET outcomes[T \in SUBSET S] ==
        IF T = {} THEN {weights}
        ELSE UNION {UNION {Noted(g, w, n, 1) : w \in outcomes[T \ {n}]} : n \in T}
  IN outcomes[S]
-----------------------------------------------------------------------------
(***************************************************************************)
(* Inserting one edge. FindEdge returns the first edge to the target in    *)
(* the order of the adjacency array, which may be any of them.             *)
(***************************************************************************)
AfterInsert(g, e) ==
  LET known == {f \in g : f.source = e.source /\ f.target = e.target}
      Replace(f) == IF f.shortcut /\ f.forward = e.forward /\ f.backward = e.backward
                    THEN IF e.weight < f.weight THEN (g \ {f}) \cup {e} ELSE g
                    ELSE g \cup {e}
  IN IF known = {} THEN {g \cup {e}} ELSE {Replace(f) : f \in known}
=============================================================================
