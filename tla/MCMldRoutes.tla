----------------------------- MODULE MCMldRoutes -----------------------------
(***************************************************************************)
(* Small graphs for MldRoutes, with several bisections of each.            *)
(***************************************************************************)
EXTENDS MldRoutes, TLC

CONSTANT Bisections     \* bisection ids, as sequences of sets of bits

MCNodeID == 0..5
MCCellSizes == <<1, 2, 3>>

Turning(s, t, weight, duration) == [from |-> s, to |-> t, weight |-> weight, duration |-> duration]

\* The weight of an edge is that of the node it leaves and of the turn.
Data(weights, durations, turns, ids, filters) ==
  [edges |-> {EdgeBasedEdge(turns[i].from, turns[i].to, i, weights[turns[i].from + 1] + turns[i].weight,
                            durations[turns[i].from + 1] + turns[i].duration, TRUE, FALSE)
                : i \in 1..Len(turns)},
   penalties |-> [i \in 1..Len(turns) |-> [weight |-> turns[i].weight, duration |-> turns[i].duration]],
   node_weights |-> [n \in MCNodeID |-> weights[n + 1]],
   node_durations |-> [n \in MCNodeID |-> durations[n + 1]],
   ids |-> [n \in MCNodeID |-> ids[n + 1]],
   filters |-> filters]

\* A ring that can be driven in both directions, with a chord in one direction and a
\* turn that is as short as another one but takes longer.
Ring(ids) ==
  Data(<<3, 3, 4, 2, 3, 5>>, <<2, 3, 4, 5, 3, 2>>,
       <<Turning(0, 1, 0, 0), Turning(1, 0, 0, 0), Turning(1, 2, 1, 0), Turning(2, 1, 2, 0),
         Turning(2, 3, 0, 2), Turning(3, 2, 1, 1), Turning(3, 4, 0, 0), Turning(4, 3, 0, 0),
         Turning(4, 5, 2, 0), Turning(5, 4, 1, 3), Turning(5, 0, 0, 1), Turning(0, 5, 1, 0),
         Turning(0, 3, 6, 3)>>,
       ids, <<MCNodeID, MCNodeID \ {1}>>)

\* Oneways round two blocks, with a dead end.
Blocks(ids) ==
  Data(<<2, 2, 3, 4, 2, 2>>, <<2, 2, 3, 3, 2, 4>>,
       <<Turning(0, 1, 0, 0), Turning(1, 2, 0, 1), Turning(2, 3, 1, 0), Turning(3, 0, 0, 0),
         Turning(2, 4, 0, 0), Turning(4, 0, 3, 0), Turning(1, 4, 4, 0), Turning(3, 5, 0, 0)>>,
       ids, <<MCNodeID, MCNodeID \ {3}, MCNodeID \ {2, 5}>>)

MCInputs == {Ring(ids) : ids \in Bisections} \cup {Blocks(ids) : ids \in Bisections}

\* Ids of three bits: nodes that are near each other in one bisection are apart in
\* another one, and some share all of their bits. The chain has too many large cells.
BitsOf(x) == {b \in 0..2 : (x \div 2^b) % 2 = 1}
Chain == <<{2}, {1}, {0}, {}, {}, {}>>
MCBisections == {[n \in 1..6 |-> BitsOf((a * n + b) % 8)] : a \in 1..7, b \in {0, 3}} \cup {Chain}

Segment(n, w, d) == [node |-> n, weight |-> w, duration |-> d]
OneSegment == {<<Segment(n, w, w)>> : n \in MCNodeID, w \in {0, 2}}
TwoSegments(w) == {<<Segment(n, w, 1), Segment((n + 1) % 6, 1, 0)>> : n \in {0, 2, 5}}
MCQueries == {[source |-> s, target |-> t] : s \in OneSegment \cup TwoSegments(2), t \in OneSegment \cup TwoSegments(0)}

\* A street driven in both directions, with a turn at each of its ends and a oneway that
\* leads from one end to the other. Nodes 3 to 5 are reached from the street.
Street(ids) ==
  Data(<<10, 10, 5, 3, 3, 3>>, <<10, 10, 5, 3, 3, 3>>,
       <<Turning(0, 1, 0, 0), Turning(1, 0, 0, 0), Turning(1, 2, 0, 0), Turning(2, 1, 0, 0),
         Turning(0, 3, 0, 0), Turning(3, 4, 0, 0), Turning(4, 5, 0, 0), Turning(5, 3, 0, 0)>>,
       ids, <<MCNodeID>>)
MCStreets == {Street(ids) : ids \in Bisections}

\* From a place on the street to a side of it that has just been passed in one direction.
MCStreetQueries ==
  {[source |-> <<Segment(0, w, w), Segment(1, 10 - w, 10 - w)>>, target |-> <<Segment(1, v, v)>>]
     : w \in {3, 7, 9}, v \in {1, 5}}

Ends == <<(<<Segment(0, 1, 1)>>), (<<Segment(2, 0, 0)>>), (<<Segment(0, 0, 0), Segment(5, 1, 1)>>),
          (<<Segment(4, 2, 1)>>)>>
MCTableQueries ==
  {[sources |-> s, targets |-> t] :
     s \in {<<Ends[1]>>, <<Ends[3]>>, <<Ends[2], Ends[4]>>, <<Ends[1], Ends[2], Ends[3]>>},
     t \in {<<Ends[3]>>, <<Ends[4], Ends[1]>>, <<Ends[2], Ends[3], Ends[4]>>}}
\* Streets with both sides, oneways, and the side of a street.
Stops == {<<Segment(0, 1, 1), Segment(1, 2, 2)>>, <<Segment(2, 2, 2), Segment(3, 1, 1)>>,
          <<Segment(4, 1, 1)>>, 2 :> Segment(5, 2, 2)}
MCViaQueries == {[stops |-> <<a, b, c>>, uturns |-> u] : a, b, c \in Stops, u \in BOOLEAN}
=============================================================================
