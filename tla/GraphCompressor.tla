--------------------------- MODULE GraphCompressor ---------------------------
(***************************************************************************)
(* The node-based graph of the extractor and its compression: nodes with   *)
(* two neighbours disappear into one road between these, and the turn      *)
(* restrictions and maneuver overrides that name them are rewritten.       *)
(*                                                                         *)
(* node_based_graph has a record for every pair of connected nodes, in     *)
(* both directions: "reversed" is set for the direction that may not be    *)
(* driven, "bucket" is the compressed geometry of the road (empty as long  *)
(* as the container has none), "flags" and "name" stand for what must be   *)
(* the same on two roads that become one. There are no parallel roads.     *)
(* A turn restriction has one node in "via", or several (a way             *)
(* restriction), and no condition or one that makes it hold at times.      *)
(***************************************************************************)
EXTENDS Integers, SequencesExt

CONSTANTS
  Junctions,               \* the nodes, 0 .. n - 1
  ProcessTurn(_, _)        \* the profile's penalty: at a traffic light?, a U-turn?

VARIABLES
  barrier_nodes, traffic_signals,
  node_based_graph,
  turn_restrictions,       \* a sequence
  maneuver_overrides,      \* a sequence of sequences of turns
  node_v                   \* the node the compressor looks at next

compressorVars == <<barrier_nodes, traffic_signals, node_based_graph, turn_restrictions,
                    maneuver_overrides, node_v>>

Roads(g) == DOMAIN g
Adjacent(g, n) == {m \in Junctions : <<n, m>> \in Roads(g)}
GetOutDegree(g, n) == Cardinality(Adjacent(g, n))
Traversable(g, m, n) == <<m, n>> \in Roads(g) /\ ~g[<<m, n>>].reversed

IsTurnRestricted(r, n) == IF r.is_only THEN r.to # n ELSE r.to = n
IsUnconditional(r) == r.condition = "none"

\* CompressedEdgeContainer: each entry is a node and the weight of the way to it; a penalty
\* of the node between the roads is an entry of its own.
CompressEdge(e1, e2, via, target, penalty) ==
  (IF e1.bucket = << >> THEN <<[node |-> via, weight |-> e1.weight]>> ELSE e1.bucket)
    \o penalty
    \o (IF e2.bucket = << >> THEN <<[node |-> target, weight |-> e2.weight]>> ELSE e2.bucket)

Extended(e1, e2, via, target, penalty) ==
  [e1 EXCEPT !.weight = @ + e2.weight + (IF penalty = << >> THEN 0 ELSE penalty[1].weight),
             !.bucket = CompressEdge(e1, e2, via, target, penalty)]

\* restriction_via_nodes: where a restriction is entered and left.
RestrictionViaNodes(restrictions) ==
  UNION {{r.via[1], Last(r.via)} : r \in ToSet(restrictions)}

\* The neighbours u and w of v, such that a road that leads one way leads from u to w. For
\* a road in both directions the code goes by the order of the edges; u and w can be
\* exchanged in all that follows.
Ends(g, v) ==
  CHOOSE p \in Adjacent(g, v) \X Adjacent(g, v) :
    p[1] # p[2] /\ (g[<<v, p[2]>>].reversed => g[<<v, p[1]>>].reversed)

CanCompress(g, u, v, w) ==
  LET f1 == g[<<u, v>>]
      f2 == g[<<v, w>>]
      r1 == g[<<w, v>>]
      r2 == g[<<v, u>>]
  IN /\ <<u, w>> \notin Roads(g) /\ <<w, u>> \notin Roads(g)
     /\ f1.name = r1.name /\ f2.name = r2.name
     /\ f1.flags = f2.flags /\ r1.flags = r2.flags
     /\ f1.reversed = f2.reversed /\ r1.reversed = r2.reversed
     /\ f1.name = f2.name /\ r1.name = r2.name

\* u - v - w becomes u - w.
Shortcut(g, u, v, w) ==
  LET penalty == IF v \in traffic_signals
                   THEN <<[node |-> v, weight |-> ProcessTurn(TRUE, FALSE)]>> ELSE << >>
      kept == {a \in Roads(g) : v \notin {a[1], a[2]}}
  IN [a \in kept \cup {<<u, w>>, <<w, u>>} |->
        CASE a = <<u, w>> -> Extended(g[<<u, v>>], g[<<v, w>>], v, w, penalty)
          [] a = <<w, u>> -> Extended(g[<<w, v>>], g[<<v, u>>], v, u, penalty)
          [] OTHER -> g[a]]

\* RestrictionCompressor: what was at v is at the far end of the new road.
Across(u, w, near) == IF near = w THEN u ELSE w

\* Mutant: the way into a turn is moved, the way out of it is not.
MovedFrom(t, u, v, w) == [t EXCEPT !.from = IF @ = v THEN Across(u, w, t.via) ELSE @]

MovedTurn(t, u, v, w) ==
  [t EXCEPT !.from = IF @ = v THEN Across(u, w, t.via) ELSE @,
            !.to = IF @ = v THEN Across(u, w, t.via) ELSE @]
MovedRestriction(r, u, v, w) ==
  [r EXCEPT !.from = IF @ = v THEN Across(u, w, r.via[1]) ELSE @,
            !.to = IF @ = v THEN Across(u, w, Last(r.via)) ELSE @,
            !.via = Remove(@, v)]

Map(s, Op(_)) == [i \in 1..Len(s) |-> Op(s[i])]

CompressNode ==
  /\ node_v \in Junctions
  /\ node_v' = node_v + 1
  /\ LET g == node_based_graph
         u == Ends(g, node_v)[1]
         w == Ends(g, node_v)[2]
     IN IF /\ GetOutDegree(g, node_v) = 2
           /\ node_v \notin barrier_nodes
           /\ node_v \notin RestrictionViaNodes(turn_restrictions)
           /\ CanCompress(g, u, node_v, w)
        THEN /\ node_based_graph' = Shortcut(g, u, node_v, w)
             /\ turn_restrictions' =
                  Map(turn_restrictions, LAMBDA r : MovedRestriction(r, u, node_v, w))
             /\ maneuver_overrides' =
                  Map(maneuver_overrides, LAMBDA o : Map(o, LAMBDA t : MovedTurn(t, u, node_v, w)))
        ELSE UNCHANGED <<node_based_graph, turn_restrictions, maneuver_overrides>>
  /\ UNCHANGED <<barrier_nodes, traffic_signals>>

\* The second loop: every road that was not compressed gets a geometry of one entry.
AddUncompressedEdges ==
  node_based_graph' =
    [a \in Roads(node_based_graph) |->
       LET e == node_based_graph[a]
       IN IF e.bucket # << >> THEN e
          ELSE [e EXCEPT !.bucket = <<[node |-> a[2], weight |-> e.weight]>>]]
=============================================================================
