-------------------------- MODULE MCContractedRoutes --------------------------
(***************************************************************************)
(* Small graphs for ContractedRoutes. Each has something that a            *)
(* contraction must get right.                                             *)
(***************************************************************************)
EXTENDS ContractedRoutes, TLC

CONSTANTS TwoSegments,   \* whether phantom nodes on two segments are asked for
          Offsets        \* weights from the start of a node to a phantom node

MCNodeID == 0..3
MCHash == (0 :> 2) @@ (1 :> 1) @@ (2 :> 1) @@ (3 :> 3)

Oneway(s, t, w) == [source |-> s, target |-> t, weight |-> w, forward |-> TRUE, backward |-> FALSE]
Twoway(s, t, w) == [Oneway(s, t, w) EXCEPT !.backward = TRUE]
OnewayNodes == [n \in MCNodeID |-> INVALID_EDGE_WEIGHT]
NoExcludes == <<MCNodeID>>
Input(edges, filters) == [edges |-> edges, weights |-> OnewayNodes, filters |-> filters]

\* Two ways of the same weight: each is a witness for the other.
Square == {Twoway(0, 1, 4), Twoway(0, 2, 4), Twoway(1, 3, 4), Twoway(2, 3, 4)}
\* A ring in one direction with a chord.
Ring == {Oneway(0, 1, 4), Oneway(1, 2, 5), Oneway(2, 3, 4), Oneway(3, 0, 4), Oneway(1, 3, 7)}
\* Different weights for the two directions, a parallel edge and one of no weight.
Skewed == {Oneway(0, 1, 4), Oneway(1, 0, 9), Twoway(1, 2, 5), Oneway(2, 1, 4), Twoway(2, 3, 5),
           Oneway(0, 3, 6), Oneway(3, 0, INVALID_EDGE_WEIGHT)}
\* Three oneways between two crossings: node 0 leads to the crossing the others leave.
ThreeStreets == {Oneway(0, 1, 3), Oneway(0, 2, 3), Oneway(1, 0, 2), Oneway(2, 0, 4)}
\* The short way from 0 to 2 is excluded, the long one is not.
Detour == {Oneway(0, 1, 3), Oneway(1, 2, 3), Oneway(0, 3, 2), Oneway(3, 2, 2)}

MCInputs == {Input(Square, NoExcludes), Input(Ring, NoExcludes), Input(Skewed, NoExcludes),
             Input(Square, <<MCNodeID, {0, 1, 3}>>)}
MCLoopInputs == {Input(ThreeStreets, NoExcludes)}
MCExcludeInputs == {Input(Detour, <<MCNodeID, {0, 1, 2}>>)}

Segment(n, w) == [node |-> n, weight |-> w]
OneSegment == {<<Segment(n, w)>> : n \in MCNodeID, w \in Offsets}
Sources == OneSegment \cup
             IF TwoSegments THEN {<<Segment(n, 4), Segment((n + 1) % 4, 0)>> : n \in MCNodeID} ELSE {}
Targets == OneSegment \cup
             IF TwoSegments THEN {<<Segment(n, 0), Segment((n + 2) % 4, 4)>> : n \in MCNodeID} ELSE {}

MCQueries == {[source |-> s, target |-> t] : s \in Sources, t \in Targets}
=============================================================================
