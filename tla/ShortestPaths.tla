---------------------------- MODULE ShortestPaths ----------------------------
(***************************************************************************)
(* The reference the routing models are compared with: shortest distances  *)
(* by the rule of Floyd and Warshall, which allows one node more as an     *)
(* intermediate stop at a time.                                            *)
(*                                                                         *)
(* Cost(m, n) is the weight of the cheapest direct connection, or at least *)
(* Far when there is none. The distance from a node to itself is the       *)
(* weight of its shortest cycle.                                           *)
(***************************************************************************)
EXTENDS Integers, FiniteSetsExt

Far == 1000000     \* INVALID_EDGE_WEIGHT

Nearer(a, b) == IF a < b THEN a ELSE b

Distances(nodes, Cost(_, _)) ==
  LET Direct == [p \in nodes \X nodes |-> Nearer(Cost(p[1], p[2]), Far)]
      Through(k, d) == [p \in nodes \X nodes |-> Nearer(d[p], d[<<p[1], k>>] + d[<<k, p[2]>>])]
  IN FoldSet(Through, Direct, nodes)
=============================================================================
