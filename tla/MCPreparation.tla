---------------------------- MODULE MCPreparation -----------------------------
(***************************************************************************)
(* The extractor's expansion of roads and the contraction for TLC, one at  *)
(* a time: only the tool that was chosen runs.                             *)
(*                                                                         *)
(* The extractor gets small maps. A town: two crossings 1 and 3 with a     *)
(* dead end each, between which one goes over 2 or over 5. A valley: one   *)
(* road from 0 to 4, of which 5 is a branch at 3.                          *)
(*                                                                         *)
(*        2                                 5                              *)
(*   0 - 1 3 - 4              0 - 1 - 2 - 3 - 4                            *)
(*        5                                                                *)
(***************************************************************************)
EXTENDS Extraction, MCContractedRoutes

MCJunctions == 0 .. 5
MCProcessTurn(light, uturn) == (IF light THEN 3 ELSE 0) + (IF uturn THEN 20 ELSE 0)

Town == {<<0, 1>>, <<1, 2>>, <<2, 3>>, <<3, 4>>, <<1, 5>>, <<5, 3>>}
Valley == {<<0, 1>>, <<1, 2>>, <<2, 3>>, <<3, 4>>, <<3, 5>>}
RoadWeight(a) == 10 + a[1] + 2 * a[2]

\* Roads that lead one way only, and roads of another name.
Network(streets, oneways, renamed) ==
  [a \in streets \cup {Turned(s) : s \in streets} |->
     [weight |-> RoadWeight(a), reversed |-> Turned(a) \in oneways, bucket |-> << >>, flags |-> 0,
      name |-> IF {a, Turned(a)} \cap renamed # {} THEN 1 ELSE 0]]

Restriction(path, only, condition) ==
  [from |-> path[1], via |-> SubSeq(path, 2, Len(path) - 1), to |-> Last(path),
   is_only |-> only, condition |-> condition]
Override(path) ==
  [i \in 1 .. Len(path) - 2 |-> [from |-> path[i], via |-> path[i + 1], to |-> path[i + 2]]]

\* Restrictions that overlap, contain each other or go round, two or three at a time.
Paths == {<<0, 1, 2>>, <<1, 2, 3>>, <<2, 3, 5>>, <<0, 1, 2, 3, 4>>, <<0, 1, 2, 3, 5>>,
          <<1, 2, 3, 5>>, <<2, 3, 5, 1>>, <<2, 3, 5, 1, 0>>, <<3, 5, 1, 2>>}
Rules == {Restriction(p, o, c) : p \in Paths, o \in BOOLEAN, c \in {"none", "rush"}}
Always == {r \in Rules : IsUnconditional(r) /\ ~r.is_only}
Towns ==
  {[roads |-> Network(Town, {}, {}), barriers |-> {}, signals |-> {2}, restrictions |-> rs,
    overrides |-> <<Override(<<0, 1, 2>>), Override(<<0, 1, 5, 3>>)>>]
     : rs \in {<<r>> : r \in Rules} \cup (Rules \X Rules) \cup {rs \in Always \X Always \X Always : IsInjective(rs)}}

\* One restriction, and all that can keep nodes from being compressed.
Valleys ==
  {[roads |-> Network(Valley, oneways, renamed), barriers |-> barriers, signals |-> signals,
    restrictions |-> rs, overrides |-> <<Override(<<2, 3, 5>>), Override(<<5, 3, 2>>)>>]
     : oneways \in {{}, {<<1, 2>>, <<2, 3>>}, {<<2, 1>>, <<3, 2>>}, {<<1, 2>>}},
       renamed \in {{}, {<<2, 3>>}}, barriers \in {{}, {2}, {3}}, signals \in {{}, {1, 2}},
       rs \in {<< >>} \cup {<<Restriction(p, o, "none")>>
                 : p \in {<<2, 3, 5>>, <<5, 3, 2>>, <<0, 1, 2, 3, 4>>, <<5, 3, 2, 1>>}, o \in BOOLEAN}}

NoRoads == [roads |-> << >>, barriers |-> {}, signals |-> {}, restrictions |-> << >>, overrides |-> << >>]

MCMaps == {NoRoads} \cup Towns \cup Valleys
-----------------------------------------------------------------------------
VARIABLE tool

Init == /\ tool \in {"extract", "contract"}
        /\ ExtractInit /\ (tool # "extract" => map = NoRoads)
        /\ ContractorInit /\ (tool # "contract" => input = CHOOSE i \in Inputs : TRUE)

Extract == tool = "extract" /\ ExtractNext /\ UNCHANGED <<tool, contractorVars>>
Contract == tool = "contract" /\ ContractorNext /\ UNCHANGED <<tool, extractVars>>

Spec == Init /\ [][Extract \/ Contract]_<<tool, extractVars, contractorVars>>
=============================================================================
