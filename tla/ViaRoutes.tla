------------------------------ MODULE ViaRoutes ------------------------------
(***************************************************************************)
(* Routes over several waypoints: the dynamic program that searches one    *)
(* leg after the other and keeps the best way to each side of a waypoint   *)
(* (shortest_path_impl.hpp).                                               *)
(*                                                                         *)
(* A stop is a phantom node: a function from its valid sides, 1 for the    *)
(* forward and 2 for the reverse segment, to segments. A side that can be  *)
(* reached can also be left.                                               *)
(***************************************************************************)
EXTENDS MldRouting

Sides == {1, 2}

needsLoop(source, target, side) ==
  /\ side \in DOMAIN source \cap DOMAIN target
  /\ source[side].node = target[side].node /\ source[side].weight > target[side].weight

NoLeg == [weight |-> INVALID_EDGE_WEIGHT, nodes |-> << >>]

LegFound(f, source, target, loops, s) ==
  IF s.best.middle = SPECIAL_NODEID THEN NoLeg
  ELSE [weight |-> s.best.weight, nodes |-> RouteNodes(f, loops, source, target, s)]

\* One search from some sides of the source to some sides of the target.
LegBetween(f, source, target, from, to, total, loops) ==
  LET Root(n, key) == Entry(n, key, MldHeapData(n, FALSE))
      Heap(S, Key(_), stop) ==
        FoldLeft(LAMBDA heap, side : IF side \in S THEN Append(heap, Root(stop[side].node, Key(side))) ELSE heap,
                 << >>, <<1, 2>>)
  IN LegFound(f, source, target, loops,
              Searched(f, Heap(from, LAMBDA i : total[i] - source[i].weight, source),
                       Heap(to, LAMBDA i : target[i].weight, target),
                       loops, Unrestricted(source, target)))

\* The way so far: the sides that were reached, the weights and the legs to each of them.
NoWay == [from |-> {}, total |-> <<INVALID_EDGE_WEIGHT, INVALID_EDGE_WEIGHT>>, legs |-> <<(<< >>), << >>>>]
FirstStop(source) == [from |-> DOMAIN source, total |-> <<0, 0>>, legs |-> <<(<< >>), << >>>>]

\* A leg to any side of the target, which then counts as the leg to each side.
searchWithUTurn(f, way, source, target) ==
  LET to == DOMAIN target
      Added(leg) == IF leg = NoLeg THEN NoLeg ELSE [leg EXCEPT !.weight = @ + Min({way.total[1], way.total[2]})]
      ToEach(leg) == <<IF 1 \in to THEN leg ELSE NoLeg, IF 2 \in to THEN leg ELSE NoLeg>>
  IN ToEach(Added(LegBetween(f, source, target, way.from, to, <<0, 0>>,
                             [forward |-> way.from # Sides /\ needsLoop(source, target, 1),
                              reverse |-> to # Sides /\ needsLoop(source, target, 2)])))

\* A leg to each side of the target.
LegTo(f, way, source, target, i) ==
  IF i \notin DOMAIN target THEN NoLeg
  ELSE LegBetween(f, source, target, way.from, {i}, way.total,
                  [forward |-> i = 1 /\ needsLoop(source, target, 1),
                   reverse |-> i = 2 /\ needsLoop(source, target, 2)])
searchStraight(f, way, source, target) ==
  <<LegTo(f, way, source, target, 1), LegTo(f, way, source, target, 2)>>

\* Mutant: the legs to one side of the source are not copied when both new legs begin there.
ConnectedWithoutCopy(legs, found, source) ==
  LET LeavesFrom(i, side) == found[i] # NoLeg /\ side \in DOMAIN source /\ found[i].nodes[1] = source[side].node
  IN IF LeavesFrom(1, 2) \/ LeavesFrom(2, 1) THEN <<legs[2], legs[1]>> ELSE legs

\* How the new legs connect to the previous ones: copied if both begin on the same side
\* of the source, swapped if they cross.
Connected(legs, found, source) ==
  LET LeavesFrom(i, side) == found[i] # NoLeg /\ side \in DOMAIN source /\ found[i].nodes[1] = source[side].node
  IN IF LeavesFrom(1, 1) /\ LeavesFrom(2, 1) THEN <<legs[1], legs[1]>>
     ELSE IF LeavesFrom(1, 2) /\ LeavesFrom(2, 2) THEN <<legs[2], legs[2]>>
     ELSE IF LeavesFrom(1, 2) \/ LeavesFrom(2, 1) THEN <<legs[2], legs[1]>>
     ELSE legs

\* The way with the legs that were found. Without a leg to any side there is no route.
Longer(way, found, source) ==
  LET legs == IF way.legs = NoWay.legs THEN way.legs ELSE Connected(way.legs, found, source)
      LegsTo(i) == IF found[i] = NoLeg THEN << >> ELSE Append(legs[i], found[i].nodes)
      reached == {i \in Sides : found[i] # NoLeg}
  IN IF reached = {} THEN NoWay
     ELSE [from |-> reached, total |-> <<found[1].weight, found[2].weight>>,
           legs |-> <<LegsTo(1), LegsTo(2)>>]

\* One turn of the loop.
WayToNext(f, way, source, target, uturns) ==
  IF way = NoWay THEN NoWay
  ELSE Longer(way, IF uturns THEN searchWithUTurn(f, way, source, target)
                   ELSE searchStraight(f, way, source, target), source)

\* The way to the last stop on the better side, then on the one with fewer nodes.
shortestPathSearch(f, stops, uturns) ==
  LET ways[k \in Nat] == IF k = 1 THEN FirstStop(stops[1])
                         ELSE WayToNext(f, ways[k - 1], stops[k - 1], stops[k], uturns)
      Size(legs) == FoldLeft(LAMBDA acc, leg : acc + Len(leg), 0, legs)
      Better(way) == IF \/ way.total[1] < way.total[2]
                        \/ way.total[1] = way.total[2] /\ Size(way.legs[1]) < Size(way.legs[2]) THEN 1 ELSE 2
      Route(way) == [weight |-> way.total[Better(way)], legs |-> way.legs[Better(way)]]
  IN Route(ways[Len(stops)])
=============================================================================
