--------------------------- MODULE ContractorProofs --------------------------
(***************************************************************************)
(* No two nodes that are contracted together touch the same node, and      *)
(* every round contracts one, for every graph, every choice of priorities  *)
(* and every set of filters.                                               *)
(*                                                                         *)
(* Independence is decided by looking at the nodes two hops away, from     *)
(* each node for itself. That this keeps two nodes apart needs that they   *)
(* see each other: every connection of nodes that are not contracted yet   *)
(* is stored at both ends, through all rounds, renumberings and filters.   *)
(***************************************************************************)
EXTENDS Contractor, FiniteSetTheorems, WellFoundedInduction, TLAPS

\* The ordered pairs of nodes that a graph connects.
Arcs(g) == {<<e.source, e.target>> : e \in g}

\* What nodes of S are connected to is in S and is connected back.
BothWays(A, S) == \A m \in S : \A n : <<m, n>> \in A => n \in S /\ <<n, m>> \in A

Apart(g, S) ==
  \A m, n \in S : m # n => Neighbours(g, m) \cap (Neighbours(g, n) \cup {n}) = {}

\* The inductive invariant.
ConnectedInv ==
  /\ is_core \subseteq NodeID
  /\ Arcs(graph) \subseteq NodeID \X NodeID
  /\ new_to_old \in Renumberings
  /\ priorities \in [NodeID -> Int]
  /\ phase \in {"priorities", "round", "contract", "insert", "done"}
  /\ phase \in {"priorities", "round"} => BothWays(Arcs(graph), is_core) /\ inserted = {}
  /\ phase = "contract" => /\ BothWays(Arcs(graph), is_core)
                           /\ independent \subseteq is_core
                           /\ Apart(graph, independent)
                           /\ todo \subseteq independent
                           /\ Arcs(inserted) \subseteq (is_core \ independent) \X (is_core \ independent)
                           /\ BothWays(Arcs(inserted), is_core \ independent)
  /\ phase = "insert" => /\ BothWays(Arcs(graph) \cup Arcs(inserted), is_core)
                         /\ Arcs(inserted) \subseteq NodeID \X NodeID
  /\ BothWays(Arcs(core_graph), shared_core)
  /\ Arcs(core_graph) \subseteq NodeID \X NodeID
  /\ shared_core \subseteq NodeID
-----------------------------------------------------------------------------
(***************************************************************************)
(* Of two nodes one precedes the other (the tie breaking of                *)
(* IsNodeIndependent, graph_contractor.cpp 517-529).                       *)
(***************************************************************************)
LEMMA PrecedesTotal ==
  ASSUME NEW p \in [NodeID -> Int], NEW o \in Renumberings,
         NEW m \in NodeID, NEW n \in NodeID, m # n
  PROVE  Precedes(p, o, m, n) \/ Precedes(p, o, n, m)
<1>1. p[m] \in Int /\ p[n] \in Int
  OBVIOUS
<1>2. CASE p[m] # p[n]
  BY <1>1, <1>2 DEF Precedes
<1>3. CASE p[m] = p[n]
  <2>1. o[m] # o[n] /\ o[m] \in NodeID /\ o[n] \in NodeID
    BY DEF Renumberings
  <2>2. o[m] \in Nat /\ o[n] \in Nat /\ fast_hash[o[m]] \in Nat /\ fast_hash[o[n]] \in Nat
    BY <2>1, ContractorGraphAssumption, ZenonT(30)
  <2>3. Bias(o[m], o[n]) \/ Bias(o[n], o[m])
    BY <2>1, <2>2 DEF Bias
  <2>4. p[m] - p[n] = 0 /\ p[n] - p[m] = 0 /\ 0 < Epsilon
    BY <1>1, <1>3, ContractorGraphAssumption
  <2> QED BY <2>3, <2>4 DEF Precedes
<1> QED BY <1>2, <1>3

LEMMA NeighboursByArcs ==
  ASSUME NEW g, NEW n
  PROVE  \A m : m \in Neighbours(g, n) <=> <<n, m>> \in Arcs(g) /\ m # n
BY DEF Neighbours, AdjacentEdges, Arcs

(***************************************************************************)
(* Independent nodes are apart (IsNodeIndependent, graph_contractor.cpp    *)
(* 498-562).                                                               *)
(***************************************************************************)
LEMMA IndependentApart ==
  ASSUME NEW g, NEW core \in SUBSET NodeID, BothWays(Arcs(g), core),
         NEW p \in [NodeID -> Int], NEW o \in Renumberings,
         NEW S \in SUBSET core, \A n \in S : IsNodeIndependent(g, p, o, n)
  PROVE  Apart(g, S)
<1> SUFFICES ASSUME NEW m \in S, NEW n \in S, m # n,
                    NEW x, x \in Neighbours(g, m), x \in Neighbours(g, n) \cup {n}
             PROVE  FALSE
  BY DEF Apart
<1>1. Precedes(p, o, m, n) \/ Precedes(p, o, n, m)
  BY PrecedesTotal
<1>2. <<m, x>> \in Arcs(g) /\ x # m /\ x \in core /\ <<x, m>> \in Arcs(g)
  BY NeighboursByArcs DEF BothWays
<1>3. CASE x = n
  <2>1. n \in Neighbours(g, m) /\ m \in Neighbours(g, n)
    BY <1>2, <1>3, NeighboursByArcs
  <2> QED BY <1>1, <2>1 DEF IsNodeIndependent
<1>4. CASE x \in Neighbours(g, n)
  <2>1. <<x, n>> \in Arcs(g)
    BY <1>4, NeighboursByArcs, ZenonT(30) DEF BothWays
  <2>2. PICK e \in g : e.source = x /\ e.target = n
    BY <2>1 DEF Arcs
  <2>3. PICK f \in g : f.source = x /\ f.target = m
    BY <1>2 DEF Arcs
  <2>4. e \in AdjacentEdges(g, x) /\ f \in AdjacentEdges(g, x)
    BY <2>2, <2>3 DEF AdjacentEdges
  <2>5. ~Precedes(p, o, n, m)
    BY <2>2, <2>4 DEF IsNodeIndependent
  <2>6. ~Precedes(p, o, m, n)
    BY <1>4, <2>3, <2>4 DEF IsNodeIndependent
  <2> QED BY <1>1, <2>5, <2>6
<1> QED BY <1>3, <1>4
-----------------------------------------------------------------------------
(***************************************************************************)
(* What the operations on graphs do to the arcs.                           *)
(***************************************************************************)
LEMMA InputArcs ==
  ASSUME NEW edges
  PROVE  /\ Arcs(toContractorGraph(edges)) \subseteq NodeID \X NodeID
         /\ BothWays(Arcs(toContractorGraph(edges)), NodeID)
<1> DEFINE g == toContractorGraph(edges)
<1>1. ASSUME NEW s \in NodeID, NEW t \in NodeID, NEW e \in ConnectingEdges(edges, s, t)
      PROVE  e.source = s /\ e.target = t
  BY <1>1 DEF ConnectingEdges, ContractorEdge
<1>2. ASSUME NEW e \in g
      PROVE  e.source \in NodeID /\ e.target \in NodeID
  <2>1. PICK s \in NodeID, t \in NodeID : e \in ConnectingEdges(edges, s, t)
    BY <1>2 DEF toContractorGraph
  <2> QED BY <1>1, <2>1
<1>3. ASSUME NEW s \in NodeID, NEW t \in NodeID, ConnectingEdges(edges, s, t) # {}
      PROVE  ConnectingEdges(edges, t, s) # {}
  <2> DEFINE there == Cheapest(edges, s, t)
             back == Cheapest(edges, t, s)
             One(w, forward, backward) ==
               ContractorEdge(t, s, w, FALSE, NoMiddle, forward, backward)
  <2>1. s # t /\ (there # INVALID_EDGE_WEIGHT \/ back # INVALID_EDGE_WEIGHT)
    BY <1>3 DEF ConnectingEdges, ContractorEdge
  <2>2. ConnectingEdges(edges, t, s) =
          {e \in IF back = there THEN {One(back, TRUE, TRUE)}
                 ELSE {One(back, TRUE, FALSE), One(there, FALSE, TRUE)} :
             t # s /\ e.weight # INVALID_EDGE_WEIGHT}
    BY DEF ConnectingEdges
  <2>3. \A w, f, b : One(w, f, b).weight = w
    BY DEF ContractorEdge
  <2> HIDE DEF there, back, One
  <2>4. CASE back = there
    <3>1. One(back, TRUE, TRUE) \in ConnectingEdges(edges, t, s)
      BY <2>1, <2>2, <2>3, <2>4, ZenonT(30)
    <3> QED BY <3>1, ZenonT(30)
  <2>5. CASE back # there
    <3>1. CASE back # INVALID_EDGE_WEIGHT
      <4>1. One(back, TRUE, FALSE) \in ConnectingEdges(edges, t, s)
        BY <2>1, <2>2, <2>3, <2>5, <3>1, ZenonT(30)
      <4> QED BY <4>1, ZenonT(30)
    <3>2. CASE there # INVALID_EDGE_WEIGHT
      <4>1. One(there, FALSE, TRUE) \in ConnectingEdges(edges, t, s)
        BY <2>1, <2>2, <2>3, <2>5, <3>2, ZenonT(30)
      <4> QED BY <4>1, ZenonT(30)
    <3> QED BY <2>1, <3>1, <3>2
  <2> QED BY <2>4, <2>5
<1>4. ASSUME NEW e \in g
      PROVE  <<e.target, e.source>> \in Arcs(g)
  <2>1. PICK s \in NodeID, t \in NodeID : e \in ConnectingEdges(edges, s, t)
    BY <1>4 DEF toContractorGraph
  <2>2. PICK f : f \in ConnectingEdges(edges, t, s)
    BY <1>3, <2>1
  <2>3. f \in g /\ f.source = e.target /\ f.target = e.source
    BY <1>1, <2>1, <2>2 DEF toContractorGraph
  <2> QED BY <2>3 DEF Arcs
<1>5. Arcs(g) \subseteq NodeID \X NodeID
  BY <1>2 DEF Arcs
<1>6. ASSUME NEW m \in NodeID, NEW n, <<m, n>> \in Arcs(g)
      PROVE  n \in NodeID /\ <<n, m>> \in Arcs(g)
  <2>1. PICK e \in g : e.source = m /\ e.target = n
    BY <1>6 DEF Arcs
  <2> QED BY <1>2, <1>4, <2>1
<1> QED BY <1>5, <1>6 DEF BothWays

LEMMA FilterArcs ==
  ASSUME NEW g, NEW S, NEW T, Arcs(g) \subseteq NodeID \X NodeID, BothWays(Arcs(g), S)
  PROVE  /\ Arcs(FilterGraph(g, T)) \subseteq NodeID \X NodeID
         /\ BothWays(Arcs(FilterGraph(g, T)), S)
<1>1. ASSUME NEW m, NEW n
      PROVE  <<m, n>> \in Arcs(FilterGraph(g, T)) <=> <<m, n>> \in Arcs(g) /\ m \in T /\ n \in T
  BY DEF Arcs, FilterGraph
<1>2. Arcs(FilterGraph(g, T)) \subseteq Arcs(g)
  BY DEF Arcs, FilterGraph
<1> QED BY <1>1, <1>2 DEF BothWays

LEMMA RenumberArcs ==
  ASSUME NEW g, NEW S \in SUBSET NodeID, NEW o \in Renumberings,
         Arcs(g) \subseteq NodeID \X NodeID, BothWays(Arcs(g), S)
  PROVE  /\ Arcs(RenumberGraph(g, o)) \subseteq NodeID \X NodeID
         /\ BothWays(Arcs(RenumberGraph(g, o)), {o[n] : n \in S})
<1> DEFINE h == RenumberGraph(g, o)
<1>1. o \in [NodeID -> NodeID] /\ \A m, n \in NodeID : o[m] = o[n] => m = n
  BY DEF Renumberings
<1>2. ASSUME NEW e \in g
      PROVE  /\ e.source \in NodeID /\ e.target \in NodeID
             /\ <<e.source, e.target>> \in Arcs(g)
             /\ <<o[e.source], o[e.target]>> \in Arcs(h)
  <2>1. <<e.source, e.target>> \in Arcs(g)
    BY <1>2 DEF Arcs
  <2> DEFINE f == ContractorEdge(o[e.source], o[e.target], e.weight, e.shortcut,
                                 IF e.shortcut THEN o[e.id] ELSE e.id, e.forward, e.backward)
  <2>2. f \in h
    BY <1>2 DEF RenumberGraph
  <2>3. f.source = o[e.source] /\ f.target = o[e.target]
    BY DEF ContractorEdge
  <2> HIDE DEF f
  <2>4. <<f.source, f.target>> \in Arcs(h)
    BY <2>2 DEF Arcs
  <2> QED BY <2>1, <2>3, <2>4
<1>3. ASSUME NEW f \in h
      PROVE  \E e \in g : f.source = o[e.source] /\ f.target = o[e.target]
  BY <1>3 DEF RenumberGraph, ContractorEdge
<1>4. Arcs(h) \subseteq NodeID \X NodeID
  <2>1. ASSUME NEW f \in h
        PROVE  f.source \in NodeID /\ f.target \in NodeID
    <3>1. PICK e \in g : f.source = o[e.source] /\ f.target = o[e.target]
      BY <1>3, <2>1
    <3>2. e.source \in NodeID /\ e.target \in NodeID
      BY <1>2, ZenonT(30)
    <3> QED BY <1>1, <3>1, <3>2
  <2> HIDE DEF h
  <2> QED BY <2>1 DEF Arcs
<1>5. ASSUME NEW m \in S, NEW y, <<o[m], y>> \in Arcs(h)
      PROVE  y \in {o[n] : n \in S} /\ <<y, o[m]>> \in Arcs(h)
  <2>1. PICK f \in h : f.source = o[m] /\ f.target = y
    BY <1>5 DEF Arcs
  <2>2. PICK e \in g : o[m] = o[e.source] /\ y = o[e.target]
    BY <1>3, <2>1
  <2>3. e.source = m /\ <<m, e.target>> \in Arcs(g)
    BY <1>1, <1>2, <2>2, ZenonT(30)
  <2>4. e.target \in S /\ <<e.target, m>> \in Arcs(g)
    BY <2>3 DEF BothWays
  <2>5. PICK r \in g : r.source = e.target /\ r.target = m
    BY <2>4 DEF Arcs
  <2> QED BY <1>2, <2>2, <2>4, <2>5
<1> QED BY <1>4, <1>5 DEF BothWays

LEMMA InsertArcs ==
  ASSUME NEW g, NEW e, NEW h \in AfterInsert(g, e)
  PROVE  Arcs(h) = Arcs(g) \cup {<<e.source, e.target>>}
<1>1. \/ h = g \cup {e}
      \/ \E f \in g : /\ f.source = e.source /\ f.target = e.target
                      /\ h = g \/ h = (g \ {f}) \cup {e}
  BY DEF AfterInsert
<1>2. CASE h = g \cup {e}
  BY <1>2 DEF Arcs
<1>3. ASSUME NEW f \in g, f.source = e.source, f.target = e.target,
             h = g \/ h = (g \ {f}) \cup {e}
      PROVE  Arcs(h) = Arcs(g) \cup {<<e.source, e.target>>}
  BY <1>3 DEF Arcs
<1> QED BY <1>1, <1>2, <1>3

(***************************************************************************)
(* The shortcuts for a node connect its neighbours, in both directions     *)
(* (ContractNode, graph_contractor.cpp 138-344).                           *)
(***************************************************************************)
LEMMA NewArcs ==
  ASSUME NEW g, NEW w, NEW n
  PROVE  /\ Arcs(NewEdges(g, w, n)) \subseteq Neighbours(g, n) \X Neighbours(g, n)
         /\ \A x, y : <<x, y>> \in Arcs(NewEdges(g, w, n)) => <<y, x>> \in Arcs(NewEdges(g, w, n))
<1> DEFINE new == (UNION {ShortcutsFrom(g, n, in) : in \in InEdges(g, n)})
                   \cup Loops(g, w, n)
<1>1. ASSUME NEW e \in new
      PROVE  /\ e.source \in Neighbours(g, n) /\ e.target \in Neighbours(g, n)
             /\ \E f \in new : f.source = e.target /\ f.target = e.source
  <2>1. CASE e \in Loops(g, w, n)
    <3>1. PICK s \in Neighbours(g, n) : \E r \in Returns(g, w, n, s) : e \in ShortcutPair(s, s, r, n)
      BY <2>1 DEF Loops
    <3>2. e.source = s /\ e.target = s
      BY <3>1 DEF ShortcutPair, ContractorEdge
    <3> QED BY <3>2
  <2>2. CASE e \in UNION {ShortcutsFrom(g, n, in) : in \in InEdges(g, n)}
    <3>1. PICK in \in InEdges(g, n) : e \in ShortcutsFrom(g, n, in)
      BY <2>2
    <3>2. PICK out \in OutEdges(g, n) :
            /\ e \in ShortcutPair(in.target, out.target, in.weight + out.weight, n)
            /\ ShortcutPair(in.target, out.target, in.weight + out.weight, n)
                 \subseteq ShortcutsFrom(g, n, in)
      BY <3>1, ZenonT(30) DEF ShortcutsFrom
    <3>3. in.target \in Neighbours(g, n) /\ out.target \in Neighbours(g, n)
      BY DEF InEdges, OutEdges, Neighbours
    <3>4. ShortcutPair(in.target, out.target, in.weight + out.weight, n) \subseteq new
      BY <3>2
    <3> DEFINE there == ContractorEdge(in.target, out.target, in.weight + out.weight, TRUE, n,
                                       TRUE, FALSE)
               back == ContractorEdge(out.target, in.target, in.weight + out.weight, TRUE, n,
                                      FALSE, TRUE)
    <3>5. /\ there.source = in.target /\ there.target = out.target
          /\ back.source = out.target /\ back.target = in.target
      BY DEF ContractorEdge
    <3>6. (e = there \/ e = back) /\ there \in new /\ back \in new
      BY <3>2, <3>4, ZenonT(30) DEF ShortcutPair
    <3> HIDE DEF new, there, back
    <3> QED BY <3>3, <3>5, <3>6
  <2> QED BY <2>1, <2>2
<1>2. NewEdges(g, w, n) = Merged(new)
  BY DEF NewEdges
<1> HIDE DEF new
<1>3. ASSUME NEW x, NEW y
      PROVE  <<x, y>> \in Arcs(Merged(new)) <=> \E e \in new : e.source = x /\ e.target = y
  <2>1. ASSUME NEW e \in new
        PROVE  \E f \in Merged(new) : f.source = e.source /\ f.target = e.target
    <3> DEFINE same == {f \in new : /\ f.source = e.source /\ f.target = e.target
                                    /\ f.weight = e.weight}
               f == ContractorEdge(e.source, e.target, e.weight, TRUE, e.id,
                                   \E d \in same : d.forward, \E d \in same : d.backward)
    <3>1. f \in Merged(new)
      BY <2>1, ZenonT(30) DEF Merged
    <3>2. f.source = e.source /\ f.target = e.target
      BY DEF ContractorEdge
    <3> QED BY <3>1, <3>2, ZenonT(30)
  <2>2. ASSUME NEW f \in Merged(new)
        PROVE  \E e \in new : f.source = e.source /\ f.target = e.target
    BY <2>2 DEF Merged, ContractorEdge
  <2> QED BY <2>1, <2>2 DEF Arcs
<1>4. ASSUME NEW f \in Merged(new)
      PROVE  f.source \in Neighbours(g, n) /\ f.target \in Neighbours(g, n)
  BY <1>1, <1>4 DEF Merged, ContractorEdge
<1>5. Arcs(Merged(new)) \subseteq Neighbours(g, n) \X Neighbours(g, n)
  BY <1>4 DEF Arcs
<1> QED BY <1>1, <1>2, <1>3, <1>5
-----------------------------------------------------------------------------
LEMMA IdentityRenumbers == [n \in NodeID |-> n] \in Renumberings
BY DEF Renumberings

LEMMA NoArcs == ASSUME NEW S PROVE Arcs({}) = {} /\ BothWays(Arcs({}), S)
BY DEF Arcs, BothWays

LEMMA ConnectedInit == ContractorInit => ConnectedInv
<1> SUFFICES ASSUME ContractorInit PROVE ConnectedInv
  OBVIOUS
<1> USE DEF ContractorInit
<1>1. Arcs(graph) \subseteq NodeID \X NodeID /\ BothWays(Arcs(graph), is_core)
  BY InputArcs
<1>2. new_to_old \in Renumberings /\ priorities \in [NodeID -> Int]
  BY IdentityRenumbers
<1>3. BothWays(Arcs(core_graph), shared_core) /\ Arcs(core_graph) \subseteq NodeID \X NodeID
  BY NoArcs
<1> QED BY <1>1, <1>2, <1>3 DEF ConnectedInv

(***************************************************************************)
(* One lemma per action of contractGraph.                                  *)
(***************************************************************************)
LEMMA PrioritiesStep == ConnectedInv /\ InitialPriorities => ConnectedInv'
<1> SUFFICES ASSUME ConnectedInv, InitialPriorities PROVE ConnectedInv'
  OBVIOUS
<1>1. priorities' \in [NodeID -> Int]
  <2>1. PICK p \in [remaining_nodes -> Priorities] :
          priorities' = [n \in NodeID |-> IF n \in remaining_nodes THEN p[n]
                                          ELSE IF n \in is_core THEN MaxPriority ELSE 0]
    BY DEF InitialPriorities
  <2>2. \A n \in remaining_nodes : p[n] \in Int
    <3>1. \A n \in remaining_nodes : p[n] \in Priorities
      OBVIOUS
    <3>2. \A x \in Priorities : x \in Int
      BY ContractorAssumption
    <3> QED BY <3>1, <3>2
  <2> QED BY <2>1, <2>2, ContractorAssumption
<1> QED BY <1>1 DEF ConnectedInv, InitialPriorities, stageVars

LEMMA UpdateStep == ConnectedInv /\ UpdateNeighbours => ConnectedInv'
<1> SUFFICES ASSUME ConnectedInv, UpdateNeighbours PROVE ConnectedInv'
  OBVIOUS
<1>1. priorities' \in [NodeID -> Int]
  <2> DEFINE touched == (UNION {Neighbours(graph, n) : n \in independent}) \cap contractable
  <2>1. PICK p \in [touched -> Priorities] :
          priorities' = [n \in NodeID |-> IF n \in touched THEN p[n] ELSE priorities[n]]
    BY ZenonT(30) DEF UpdateNeighbours
  <2>2. priorities \in [NodeID -> Int]
    BY DEF ConnectedInv
  <2>3. \A n \in touched : p[n] \in Int
    <3>1. \A n \in touched : p[n] \in Priorities
      OBVIOUS
    <3>2. \A x \in Priorities : x \in Int
      BY ContractorAssumption
    <3> QED BY <3>1, <3>2
  <2> HIDE DEF touched
  <2> QED BY <2>1, <2>2, <2>3
<1>2. /\ phase = "insert" /\ phase' = "round" /\ inserted = {} /\ inserted' = {}
      /\ UNCHANGED <<graph, is_core, new_to_old, core_graph, shared_core>>
  BY DEF UpdateNeighbours, stageVars
<1>3. BothWays(Arcs(graph), is_core)
  <2>1. Arcs(inserted) = {}
    BY <1>2, NoArcs
  <2> QED BY <1>2, <2>1, ZenonT(30) DEF ConnectedInv
<1> QED BY <1>1, <1>2, <1>3 DEF ConnectedInv

LEMMA FindStep == ConnectedInv /\ FindIndependent => ConnectedInv'
<1> SUFFICES ASSUME ConnectedInv, FindIndependent PROVE ConnectedInv'
  OBVIOUS
<1>1. /\ phase = "round" /\ phase' = "contract" /\ todo' = independent'
      /\ independent' \subseteq is_core
      /\ \A n \in independent' : IsNodeIndependent(graph, priorities, new_to_old, n)
      /\ UNCHANGED <<graph, is_core, new_to_old, priorities, core_graph, shared_core, inserted>>
  BY DEF FindIndependent, stageVars, remaining_nodes
<1>2. Apart(graph, independent')
  BY <1>1, IndependentApart DEF ConnectedInv
<1>3. Apart(graph, independent)'
  BY <1>1, <1>2
<1>4. inserted = {} /\ Arcs(inserted) = {} /\ Arcs(inserted') = {}
  BY <1>1, NoArcs DEF ConnectedInv
<1>5. BothWays(Arcs(inserted'), is_core' \ independent')
  BY <1>4, SMTT(30) DEF BothWays
<1> QED BY <1>1, <1>3, <1>4, <1>5 DEF ConnectedInv

LEMMA ContractStep == ASSUME NEW n \in NodeID PROVE ConnectedInv /\ ContractNode(n) => ConnectedInv'
<1> SUFFICES ASSUME ConnectedInv, ContractNode(n) PROVE ConnectedInv'
  OBVIOUS
<1> DEFINE new == NewEdges(graph, node_weights, n)
           left == is_core \ independent
<1>1. /\ phase = "contract" /\ phase' = "contract" /\ n \in todo /\ todo' \subseteq todo
      /\ inserted' = inserted \cup new
      /\ UNCHANGED <<graph, is_core, new_to_old, priorities, core_graph, shared_core, independent>>
  BY DEF ContractNode, stageVars
<1>2. /\ BothWays(Arcs(graph), is_core) /\ independent \subseteq is_core /\ todo \subseteq independent
      /\ Apart(graph, independent)
      /\ Arcs(inserted) \subseteq left \X left /\ BothWays(Arcs(inserted), left)
  BY <1>1 DEF ConnectedInv
<1>3. Neighbours(graph, n) \subseteq left
  <2>1. n \in independent /\ n \in is_core
    BY <1>1, <1>2
  <2>2. ASSUME NEW m \in Neighbours(graph, n) PROVE m \in is_core /\ m # n
    <3>1. <<n, m>> \in Arcs(graph) /\ m # n
      BY <2>2, NeighboursByArcs
    <3> QED BY <1>2, <2>1, <3>1, ZenonT(30) DEF BothWays
  <2>3. ASSUME NEW m \in Neighbours(graph, n), m \in independent PROVE FALSE
    BY <1>2, <2>1, <2>2, <2>3 DEF Apart
  <2> QED BY <2>2, <2>3
<1>4. /\ Arcs(new) \subseteq left \X left
      /\ \A x, y : <<x, y>> \in Arcs(new) => <<y, x>> \in Arcs(new)
  BY <1>3, NewArcs
<1> HIDE DEF new, left
<1>5. Arcs(inserted') = Arcs(inserted) \cup Arcs(new)
  BY <1>1 DEF Arcs
<1>6. Arcs(inserted') \subseteq left \X left /\ BothWays(Arcs(inserted'), left)
  BY <1>2, <1>4, <1>5 DEF BothWays
<1>7. left' = left
  BY <1>1, SMTT(30) DEF left
<1> QED BY <1>1, <1>2, <1>6, <1>7 DEF ConnectedInv, left

LEMMA DeleteStep == ConnectedInv /\ DeleteIncoming => ConnectedInv'
<1> SUFFICES ASSUME ConnectedInv, DeleteIncoming PROVE ConnectedInv'
  OBVIOUS
<1> DEFINE left == is_core \ independent
<1>1. /\ phase = "contract" /\ phase' = "insert" /\ is_core' = left
      /\ graph' = {e \in graph : ~(e.target \in independent /\ e.source \in Neighbours(graph, e.target))}
      /\ UNCHANGED <<new_to_old, priorities, core_graph, shared_core, inserted>>
  BY DEF DeleteIncoming, stageVars
<1>2. /\ BothWays(Arcs(graph), is_core) /\ independent \subseteq is_core /\ is_core \subseteq NodeID
      /\ Arcs(inserted) \subseteq left \X left /\ BothWays(Arcs(inserted), left)
  BY <1>1 DEF ConnectedInv
<1>3. \A x, y : <<x, y>> \in Arcs(graph') <=>
                /\ <<x, y>> \in Arcs(graph)
                /\ ~(y \in independent /\ x \in Neighbours(graph, y))
  BY <1>1 DEF Arcs
<1>4. Arcs(graph') \subseteq NodeID \X NodeID
  <2>1. Arcs(graph') \subseteq Arcs(graph)
    BY <1>1 DEF Arcs
  <2> QED BY <2>1 DEF ConnectedInv
<1>5. BothWays(Arcs(graph'), left)
  <2> SUFFICES ASSUME NEW m \in left, NEW n, <<m, n>> \in Arcs(graph')
               PROVE  n \in left /\ <<n, m>> \in Arcs(graph')
    BY DEF BothWays
  <2>1. <<m, n>> \in Arcs(graph) /\ n \in is_core /\ <<n, m>> \in Arcs(graph)
    BY <1>2, <1>3 DEF BothWays
  <2>2. n \notin independent
    <3> SUFFICES ASSUME n \in independent PROVE FALSE
      OBVIOUS
    <3>1. m \in Neighbours(graph, n)
      BY <2>1, NeighboursByArcs
    <3> QED BY <1>3, <3>1
  <2> QED BY <1>3, <2>1, <2>2
<1> HIDE DEF left
<1>6. BothWays(Arcs(graph') \cup Arcs(inserted'), is_core')
  BY <1>1, <1>2, <1>5 DEF BothWays
<1>7. left \subseteq NodeID
  BY <1>2 DEF left
<1>8. Arcs(inserted') \subseteq NodeID \X NodeID /\ is_core' \subseteq NodeID
  BY <1>1, <1>2, <1>7
<1> QED BY <1>1, <1>4, <1>6, <1>8 DEF ConnectedInv

LEMMA InsertStep == ASSUME NEW e PROVE ConnectedInv /\ InsertEdge(e) => ConnectedInv'
<1> SUFFICES ASSUME ConnectedInv, InsertEdge(e) PROVE ConnectedInv'
  OBVIOUS
<1>1. /\ phase = "insert" /\ phase' = "insert" /\ e \in inserted /\ inserted' = inserted \ {e}
      /\ graph' \in AfterInsert(graph, e)
      /\ UNCHANGED <<is_core, new_to_old, priorities, core_graph, shared_core>>
  BY DEF InsertEdge, stageVars
<1>2. Arcs(graph') = Arcs(graph) \cup {<<e.source, e.target>>}
  BY <1>1, InsertArcs
<1>3. Arcs(inserted) = Arcs(inserted') \cup {<<e.source, e.target>>}
  BY <1>1 DEF Arcs
<1>4. Arcs(graph') \cup Arcs(inserted') = Arcs(graph) \cup Arcs(inserted)
  BY <1>2, <1>3, SMTT(30)
<1>5. /\ Arcs(graph') \subseteq NodeID \X NodeID
      /\ Arcs(inserted') \subseteq NodeID \X NodeID
  BY <1>1, <1>2, <1>3, SMTT(30) DEF ConnectedInv
<1> QED BY <1>1, <1>4, <1>5, ZenonT(30) DEF ConnectedInv

LEMMA RenumberStep == ConnectedInv /\ RenumberData => ConnectedInv'
<1> SUFFICES ASSUME ConnectedInv, RenumberData PROVE ConnectedInv'
  OBVIOUS
<1>1. PICK order \in Renumberings :
        /\ graph' = RenumberGraph(graph, order)
        /\ priorities' = [n \in NodeID |-> priorities[CHOOSE m \in NodeID : order[m] = n]]
        /\ new_to_old' = [n \in NodeID |-> new_to_old[CHOOSE m \in NodeID : order[m] = n]]
        /\ is_core' = {order[n] : n \in is_core}
  BY ZenonT(30) DEF RenumberData
<1>2. /\ phase = "round" /\ phase' = "round"
      /\ UNCHANGED <<core_graph, shared_core, inserted>>
  BY DEF RenumberData, stageVars
<1> DEFINE inverse == [n \in NodeID |-> CHOOSE m \in NodeID : order[m] = n]
<1>3. /\ order \in [NodeID -> NodeID]
      /\ \A n \in NodeID : \E m \in NodeID : order[m] = n
  BY DEF Renumberings
<1>4. \A n \in NodeID : inverse[n] \in NodeID /\ order[inverse[n]] = n
  BY <1>3
<1>5. \A m \in NodeID : inverse[order[m]] = m
  <2>1. \A m \in NodeID : order[m] \in NodeID
    BY <1>3
  <2> HIDE DEF inverse
  <2> QED BY <1>4, <2>1, ZenonT(30) DEF Renumberings
<1>6. /\ priorities' = [n \in NodeID |-> priorities[inverse[n]]]
      /\ new_to_old' = [n \in NodeID |-> new_to_old[inverse[n]]]
  BY <1>1
<1> HIDE DEF inverse
<1>7. priorities' \in [NodeID -> Int]
  BY <1>4, <1>6 DEF ConnectedInv
<1>8. new_to_old' \in Renumberings
  <2>1. /\ new_to_old \in [NodeID -> NodeID]
        /\ \A n \in NodeID : \E m \in NodeID : new_to_old[m] = n
        /\ \A m, n \in NodeID : new_to_old[m] = new_to_old[n] => m = n
    BY DEF ConnectedInv, Renumberings
  <2>2. new_to_old' \in [NodeID -> NodeID]
    BY <1>4, <1>6, <2>1
  <2>3. ASSUME NEW n \in NodeID PROVE \E m \in NodeID : new_to_old'[m] = n
    <3>1. PICK m \in NodeID : new_to_old[m] = n
      BY <2>1
    <3>2. order[m] \in NodeID /\ new_to_old'[order[m]] = n
      BY <1>3, <1>5, <1>6, <3>1
    <3> QED BY <3>2
  <2>4. ASSUME NEW m \in NodeID, NEW n \in NodeID, new_to_old'[m] = new_to_old'[n]
        PROVE  m = n
    <3>1. inverse[m] = inverse[n]
      BY <1>4, <1>6, <2>1, <2>4, SMTT(30)
    <3> QED BY <1>4, <3>1
  <2> QED BY <2>2, <2>3, <2>4 DEF Renumberings
<1>9. Arcs(graph') \subseteq NodeID \X NodeID /\ BothWays(Arcs(graph'), is_core')
  BY <1>1, <1>2, RenumberArcs, SMTT(30) DEF ConnectedInv
<1>10. is_core' \subseteq NodeID
  BY <1>1, <1>3 DEF ConnectedInv
<1> QED BY <1>2, <1>7, <1>8, <1>9, <1>10 DEF ConnectedInv

(***************************************************************************)
(* What a contraction leaves, in the ids of the input, and the contraction *)
(* of a part of it (contract_excludable_graph.hpp 20-125).                 *)
(***************************************************************************)
LEMMA ContractedArcs ==
  ConnectedInv /\ phase = "round" => /\ ContractedCore \subseteq NodeID
                                    /\ Arcs(ContractedGraph) \subseteq NodeID \X NodeID
                                    /\ BothWays(Arcs(ContractedGraph), ContractedCore)
<1> SUFFICES ASSUME ConnectedInv, phase = "round"
             PROVE  /\ ContractedCore \subseteq NodeID
                    /\ Arcs(ContractedGraph) \subseteq NodeID \X NodeID
                    /\ BothWays(Arcs(ContractedGraph), ContractedCore)
  OBVIOUS
<1>1. ContractedCore \subseteq NodeID
  BY SMTT(30) DEF ConnectedInv, ContractedCore, Renumberings
<1>2. /\ Arcs(ContractedGraph) \subseteq NodeID \X NodeID
      /\ BothWays(Arcs(ContractedGraph), ContractedCore)
  BY RenumberArcs, ZenonT(30) DEF ConnectedInv, ContractedCore, ContractedGraph
<1> QED BY <1>1, <1>2

LEMMA BeginStep ==
  ASSUME NEW g, NEW core \in SUBSET NodeID, NEW may, Begin(g, core, may),
         Arcs(g) \subseteq NodeID \X NodeID, BothWays(Arcs(g), core),
         Arcs(core_graph') \subseteq NodeID \X NodeID, BothWays(Arcs(core_graph'), shared_core'),
         shared_core' \subseteq NodeID
  PROVE  ConnectedInv'
<1>1. /\ graph' = g /\ is_core' = core /\ phase' = "priorities" /\ inserted' = {}
      /\ priorities' = [n \in NodeID |-> 0] /\ new_to_old' = [n \in NodeID |-> n]
  BY DEF Begin
<1>2. priorities' \in [NodeID -> Int] /\ new_to_old' \in Renumberings
  BY <1>1, IdentityRenumbers
<1> QED BY <1>1, <1>2 DEF ConnectedInv

LEMMA IdleStep ==
  ASSUME Idle, Arcs(core_graph') \subseteq NodeID \X NodeID,
         BothWays(Arcs(core_graph'), shared_core'), shared_core' \subseteq NodeID
  PROVE  ConnectedInv'
<1>1. /\ graph' = {} /\ is_core' = {} /\ phase' = "done"
      /\ priorities' = [n \in NodeID |-> 0] /\ new_to_old' = [n \in NodeID |-> n]
  BY DEF Idle
<1>2. priorities' \in [NodeID -> Int] /\ new_to_old' \in Renumberings
  BY <1>1, IdentityRenumbers
<1>3. Arcs(graph') \subseteq NodeID \X NodeID
  BY <1>1, NoArcs
<1> QED BY <1>1, <1>2, <1>3 DEF ConnectedInv

LEMMA FinishStep ==
  ConnectedInv /\ (FinishFull \/ FinishBase \/ FinishFilter) => ConnectedInv'
<1> SUFFICES ASSUME ConnectedInv, FinishFull \/ FinishBase \/ FinishFilter PROVE ConnectedInv'
  OBVIOUS
<1>1. /\ BothWays(Arcs(core_graph), shared_core) /\ Arcs(core_graph) \subseteq NodeID \X NodeID
      /\ shared_core \subseteq NodeID
  BY DEF ConnectedInv
<1>2. CASE FinishFull
  BY <1>1, <1>2, IdleStep DEF FinishFull
<1>3. CASE FinishBase
  <2> DEFINE core == FilterGraph(ContractedGraph, ContractedCore)
             allowed == FilterGraph(core, Allowed(1))
  <2>1. /\ core_graph' = core /\ shared_core' = ContractedCore
        /\ Begin(allowed, ContractedCore, ContractedCore)
        /\ phase = "round"
    BY <1>3 DEF FinishBase, Contracted
  <2>2. /\ ContractedCore \subseteq NodeID
        /\ Arcs(ContractedGraph) \subseteq NodeID \X NodeID
        /\ BothWays(Arcs(ContractedGraph), ContractedCore)
    BY <2>1, ContractedArcs
  <2>3. Arcs(core) \subseteq NodeID \X NodeID /\ BothWays(Arcs(core), ContractedCore)
    BY <2>2, FilterArcs, ZenonT(30)
  <2>4. Arcs(allowed) \subseteq NodeID \X NodeID /\ BothWays(Arcs(allowed), ContractedCore)
    BY <2>3, FilterArcs, ZenonT(30)
  <2> HIDE DEF core, allowed
  <2> QED BY <2>1, <2>2, <2>3, <2>4, BeginStep, SMTT(30)
<1>4. CASE FinishFilter
  <2>1. CASE filter < Len(input.filters)
    <3> DEFINE allowed == FilterGraph(core_graph, Allowed(filter'))
    <3>1. Begin(allowed, shared_core, shared_core) /\ UNCHANGED <<core_graph, shared_core>>
      BY <1>4, <2>1 DEF FinishFilter
    <3>2. Arcs(allowed) \subseteq NodeID \X NodeID /\ BothWays(Arcs(allowed), shared_core)
      BY <1>1, FilterArcs, SMTT(30)
    <3> HIDE DEF allowed
    <3> QED BY <1>1, <3>1, <3>2, BeginStep
  <2>2. CASE ~(filter < Len(input.filters))
    <3>1. Idle /\ core_graph' = {} /\ shared_core' = {}
      BY <1>4, <2>2 DEF FinishFilter
    <3>2. BothWays(Arcs(core_graph'), shared_core') /\ Arcs(core_graph') \subseteq NodeID \X NodeID
      BY <3>1, NoArcs
    <3> QED BY <3>1, <3>2, IdleStep
  <2> QED BY <2>1, <2>2
<1> QED BY <1>2, <1>3, <1>4

LEMMA ConnectedStep == ConnectedInv /\ [ContractorNext]_contractorVars => ConnectedInv'
<1> SUFFICES ASSUME ConnectedInv, [ContractorNext]_contractorVars PROVE ConnectedInv'
  OBVIOUS
<1>1. CASE ContractorNext
  BY <1>1, PrioritiesStep, RenumberStep, FindStep, DeleteStep, UpdateStep, FinishStep,
     ContractStep, InsertStep, SMTT(30) DEF ContractorNext
<1>2. CASE UNCHANGED contractorVars
  BY <1>2 DEF ConnectedInv, contractorVars, stageVars
<1> QED BY <1>1, <1>2

(***************************************************************************)
(* Contracted nodes never touch the same node: the threads that contract   *)
(* the nodes of one round write weights and edges of different nodes       *)
(* (graph_contractor.cpp 138-344, 439-496, 498-562).                       *)
(***************************************************************************)
THEOREM NodesContractedApart == ContractorSpec => []ContractedApart
<1>1. ConnectedInv => ContractedApart
  BY DEF ConnectedInv, ContractedApart, Apart
<1> QED BY <1>1, ConnectedInit, ConnectedStep, PTL DEF ContractorSpec
-----------------------------------------------------------------------------
(***************************************************************************)
(* Every round contracts a node. Of the nodes that are left one of lowest  *)
(* priority that wins all ties is preceded by none. This takes that        *)
(* priorities which differ do so by epsilon or more, as floats from 1 on   *)
(* do: two nodes whose priorities differ by less can keep each other from  *)
(* being contracted.                                                       *)
(***************************************************************************)
\* Priorities that differ are told apart, and are below that of a node that must not be
\* contracted.
ToldApart == /\ \A p \in Priorities : p < MaxPriority
             /\ \A p, q \in Priorities \cup {MaxPriority} : p < q => p + Epsilon <= q

\* Node ids and hashes are below a bound.
Bounded(B) == \A n \in NodeID : n < B /\ fast_hash[n] < B

\* Nodes that may be contracted have an evaluated priority, and all others the highest one.
Evaluated(p, core, may) ==
  \A n \in core : /\ n \in may => p[n] \in Priorities
                  /\ n \notin may => p[n] = MaxPriority

\* The inductive invariant, together with ConnectedInv.
RoundInv ==
  /\ contractable \subseteq NodeID
  /\ phase \in {"round", "contract", "insert"} => Evaluated(priorities, is_core, contractable)
  /\ RoundsContract

\* A set of natural numbers that is not empty has a least element, ...
LEMMA LeastOf ==
  ASSUME NEW T, T \subseteq Nat, T # {}
  PROVE  \E x \in T : \A y \in T : x <= y
<1> DEFINE R == {ss \in Nat \X Nat : ss[1] < ss[2]}
<1>0. IsWellFoundedOn(R, Nat)
  BY NatLessThanWellFounded, Zenon DEF OpToRel
<1>1. PICK x \in T : \A y \in T : ~ (<<y, x>> \in R)
  <2> HIDE DEF R
  <2> QED BY <1>0, WFMin, Zenon
<1>2. \A y \in T : ~(y < x)
  BY <1>1, Zenon
<1> QED BY <1>2

\* ... and a greatest one if it is bounded.
LEMMA GreatestOf ==
  ASSUME NEW B \in Nat, NEW T, T \subseteq Nat, \A x \in T : x < B, T # {}
  PROVE  \E x \in T : \A y \in T : y <= x
<1> DEFINE D == {d \in Nat : \E y \in T : d = B - y}
<1>1. \A y \in T : y \in Nat /\ B - y \in Nat
  OBVIOUS
<1>2. D # {} /\ D \subseteq Nat
  BY <1>1, ZenonT(30)
<1>3. PICK d \in D : \A c \in D : d <= c
  <2> HIDE DEF D
  <2> QED BY <1>2, LeastOf, Zenon
<1>4. PICK x \in T : d = B - x
  OBVIOUS
<1>5. ASSUME NEW y \in T PROVE y <= x
  <2>1. B - y \in D
    BY <1>1
  <2>2. d <= B - y
    BY <1>3, <2>1, Zenon
  <2> QED BY <1>1, <1>4, <2>2
<1> QED BY <1>5

\* A node that no node of the core precedes.
LEMMA FirstNode ==
  ASSUME ToldApart, NEW B \in Nat, Bounded(B),
         NEW core \in SUBSET NodeID, NEW may, core \cap may # {},
         NEW p \in [NodeID -> Int], NEW o \in Renumberings, Evaluated(p, core, may)
  PROVE  \E n \in core \cap may : \A m \in core : m # n => ~Precedes(p, o, m, n)
<1>0. Priorities \subseteq Nat /\ MaxPriority \in Nat /\ Epsilon \in Nat \ {0} /\ NodeID \subseteq Nat
  BY ContractorAssumption, ContractorGraphAssumption, Zenon
<1>1. /\ \A n \in NodeID : o[n] \in NodeID /\ o[n] \in Nat /\ o[n] < B
                           /\ fast_hash[o[n]] \in Nat /\ fast_hash[o[n]] < B
      /\ \A m, n \in NodeID : o[m] = o[n] => m = n
  <2>1. o \in [NodeID -> NodeID] /\ \A m, n \in NodeID : o[m] = o[n] => m = n
    BY Zenon DEF Renumberings
  <2>2. \A n \in NodeID : o[n] \in NodeID
    BY <2>1, Zenon
  <2>3. \A n \in NodeID : n \in Nat /\ n < B /\ fast_hash[n] \in Nat /\ fast_hash[n] < B
    BY ContractorGraphAssumption, Zenon DEF Bounded
  <2> QED BY <2>1, <2>2, <2>3, Zenon
<1> DEFINE lowest == {a \in Nat : \E n \in core \cap may : a = p[n]}
<1>2. PICK a \in lowest : \A x \in lowest : a <= x
  <2>1. \A n \in core \cap may : p[n] \in Nat
    BY <1>0, Zenon DEF Evaluated
  <2>2. lowest # {} /\ lowest \subseteq Nat
    BY <2>1, Zenon
  <2> HIDE DEF lowest
  <2> QED BY <2>2, LeastOf, Zenon
<1> DEFINE hashes == {h \in Nat : \E n \in core \cap may : p[n] = a /\ h = fast_hash[o[n]]}
<1>3. PICK h \in hashes : \A x \in hashes : x <= h
  <2>1. PICK n \in core \cap may : a = p[n]
    BY Zenon
  <2>2. n \in NodeID
    BY Zenon
  <2>3. fast_hash[o[n]] \in hashes
    BY <1>1, <2>1, <2>2, Zenon
  <2>4. hashes # {}
    BY <2>3, Zenon
  <2>5. hashes \subseteq Nat /\ \A x \in hashes : x < B
    <3>1. \A m \in core \cap may : fast_hash[o[m]] < B
      BY <1>1, Zenon
    <3> QED BY <3>1, Zenon
  <2> HIDE DEF hashes
  <2> QED BY <2>4, <2>5, GreatestOf, Zenon
<1> DEFINE ids == {i \in Nat : \E n \in core \cap may :
                      p[n] = a /\ h = fast_hash[o[n]] /\ i = o[n]}
<1>4. PICK i \in ids : \A x \in ids : x <= i
  <2>1. PICK n \in core \cap may : p[n] = a /\ h = fast_hash[o[n]]
    BY Zenon
  <2>2. n \in NodeID
    BY Zenon
  <2>3. o[n] \in ids
    BY <1>1, <2>1, <2>2, Zenon
  <2>4. ids # {}
    BY <2>3, Zenon
  <2>5. ids \subseteq Nat /\ \A x \in ids : x < B
    <3>1. \A m \in core \cap may : o[m] < B
      BY <1>1, Zenon
    <3> QED BY <3>1, Zenon
  <2> HIDE DEF ids
  <2> QED BY <2>4, <2>5, GreatestOf, Zenon
<1>5. PICK n \in core \cap may : p[n] = a /\ h = fast_hash[o[n]] /\ i = o[n]
  BY Zenon
<1>6. ASSUME NEW m \in core, m # n PROVE ~Precedes(p, o, m, n)
  <2>0. m \in NodeID /\ n \in NodeID /\ a \in Nat /\ h \in Nat /\ i \in Nat /\ a \in Priorities
    <3>1. p[n] \in Priorities
      BY Zenon DEF Evaluated
    <3> QED BY <1>5, <3>1, Zenon
  <2>1. CASE m \in may /\ p[m] = a
    <3>1. PICK k \in Nat : k = fast_hash[o[m]]
      BY <1>1, <2>0, Zenon
    <3>2. k \in hashes
      BY <2>1, <3>1, Zenon
    <3>3. k <= h
      BY <1>3, <3>2, Zenon
    <3>4. PICK j \in Nat : j = o[m]
      BY <1>1, <2>0, Zenon
    <3>5. j # i
      BY <1>1, <1>5, <1>6, <2>0, <3>4, Zenon
    <3>6. k = h => j \in ids
      BY <2>1, <3>1, <3>4, Zenon
    <3>7. k = h => j <= i
      BY <1>4, <3>6, Zenon
    <3>8. ~(h < k) /\ (h = k => ~(i < j))
      BY <2>0, <3>3, <3>5, <3>7
    <3>9. ~Bias(o[n], o[m])
      BY <1>5, <3>1, <3>4, <3>8, Zenon DEF Bias
    <3>10. ~(a > a)
      BY <2>0
    <3> QED BY <1>5, <2>1, <3>9, <3>10, Zenon DEF Precedes
  <2>2. CASE ~(m \in may /\ p[m] = a)
    <3>1. PICK b \in Priorities \cup {MaxPriority} : b = p[m]
      BY Zenon DEF Evaluated
    <3>2. a < b
      <4>1. CASE m \in may
        <5>1. b \in Priorities /\ b \in Nat
          BY <1>0, <3>1, <4>1, Zenon DEF Evaluated
        <5>2. b \in lowest
          BY <3>1, <4>1, <5>1, Zenon
        <5>3. a <= b /\ a # b
          BY <1>2, <2>2, <3>1, <4>1, <5>2, Zenon
        <5> QED BY <2>0, <5>1, <5>3
      <4>2. CASE m \notin may
        <5>1. b = MaxPriority
          BY <3>1, <4>2, Zenon DEF Evaluated
        <5> QED BY <2>0, <5>1, Zenon DEF ToldApart
      <4> QED BY <4>1, <4>2, Zenon
    <3>3. a + Epsilon <= b
      BY <2>0, <3>2, Zenon DEF ToldApart
    <3>4. b \in Nat
      BY <1>0, Zenon
    <3>5. ~(a > b) /\ ~(b - a < Epsilon)
      BY <1>0, <2>0, <3>2, <3>3, <3>4
    <3> QED BY <1>5, <3>1, <3>5, Zenon DEF Precedes
  <2> QED BY <2>1, <2>2, Zenon
<1> QED BY <1>6, Zenon

\* What IsNodeIndependent looks at is in the core.
LEMMA SomeIndependent ==
  ASSUME NEW g, NEW core, BothWays(Arcs(g), core), NEW p, NEW o, NEW n \in core,
         \A m \in core : m # n => ~Precedes(p, o, m, n)
  PROVE  IsNodeIndependent(g, p, o, n)
<1>1. ASSUME NEW u \in Neighbours(g, n) PROVE u \in core /\ u # n
  <2>1. <<n, u>> \in Arcs(g) /\ u # n
    BY NeighboursByArcs, Zenon
  <2> QED BY <2>1, Zenon DEF BothWays
<1>2. ASSUME NEW u \in Neighbours(g, n), NEW e \in AdjacentEdges(g, u) PROVE e.target \in core
  <2>1. <<u, e.target>> \in Arcs(g)
    <3>1. e \in g /\ e.source = u
      BY Zenon DEF AdjacentEdges
    <3>2. <<e.source, e.target>> \in Arcs(g)
      BY <3>1, Zenon DEF Arcs
    <3> QED BY <3>1, <3>2, Zenon
  <2> QED BY <1>1, <2>1, Zenon DEF BothWays
<1> QED BY <1>1, <1>2, Zenon DEF IsNodeIndependent

LEMMA RoundInit == ContractorInit => RoundInv
BY DEF ContractorInit, RoundInv, RoundsContract, always_allowed

LEMMA RoundFind ==
  ASSUME ToldApart, NEW B \in Nat, Bounded(B), BaseCore \in Nat,
         ConnectedInv, RoundInv, FindIndependent
  PROVE  RoundInv'
<1>1. /\ phase = "round" /\ phase' = "contract" /\ Cardinality(remaining_nodes) > CoreSize
      /\ independent' = {n \in remaining_nodes : IsNodeIndependent(graph, priorities, new_to_old, n)}
      /\ UNCHANGED <<contractable, priorities, is_core>>
  BY Zenon DEF FindIndependent
<1>2. remaining_nodes # {}
  <2> SUFFICES ASSUME remaining_nodes = {} PROVE FALSE
    BY Zenon
  <2>1. Cardinality(remaining_nodes) = 0
    BY FS_EmptySet, Zenon
  <2>2. CoreSize \in Nat
    BY Zenon DEF CoreSize
  <2> QED BY <1>1, <2>1, <2>2
<1>3. /\ is_core \in SUBSET NodeID /\ BothWays(Arcs(graph), is_core)
      /\ priorities \in [NodeID -> Int] /\ new_to_old \in Renumberings
  BY <1>1, Zenon DEF ConnectedInv
<1>4. Evaluated(priorities, is_core, contractable)
  BY <1>1, Zenon DEF RoundInv
<1>5. PICK n \in remaining_nodes :
        \A m \in is_core : m # n => ~Precedes(priorities, new_to_old, m, n)
  BY <1>2, <1>3, <1>4, FirstNode, Zenon DEF remaining_nodes
<1>6. n \in is_core
  BY Zenon DEF remaining_nodes
<1>7. IsNodeIndependent(graph, priorities, new_to_old, n)
  BY <1>3, <1>5, <1>6, SomeIndependent, Zenon
<1>8. independent' # {}
  BY <1>1, <1>7, Zenon
<1>9. Evaluated(priorities', is_core', contractable')
  BY <1>1, <1>4, Zenon
<1> QED BY <1>1, <1>8, <1>9, Zenon DEF RoundInv, RoundsContract

LEMMA RoundPriorities == ASSUME RoundInv, ConnectedInv, InitialPriorities PROVE RoundInv'
<1>1. PICK p \in [remaining_nodes -> Priorities] :
        priorities' = [n \in NodeID |-> IF n \in remaining_nodes THEN p[n]
                                        ELSE IF n \in is_core THEN MaxPriority ELSE 0]
  BY Zenon DEF InitialPriorities
<1>2. phase' = "round" /\ UNCHANGED <<contractable, is_core>>
  BY Zenon DEF InitialPriorities
<1>3. Evaluated(priorities', is_core, contractable)
  <2> SUFFICES ASSUME NEW n \in is_core
               PROVE  /\ n \in contractable => priorities'[n] \in Priorities
                      /\ n \notin contractable => priorities'[n] = MaxPriority
    BY Zenon DEF Evaluated
  <2>1. n \in NodeID
    BY Zenon DEF ConnectedInv
  <2>2. n \in remaining_nodes <=> n \in contractable
    BY Zenon DEF remaining_nodes
  <2> QED BY <1>1, <2>1, <2>2, Zenon
<1>4. Evaluated(priorities', is_core', contractable')
  BY <1>2, <1>3, Zenon
<1> QED BY <1>2, <1>4, Zenon DEF RoundInv, RoundsContract

LEMMA RoundUpdate == ASSUME RoundInv, ConnectedInv, UpdateNeighbours PROVE RoundInv'
<1> DEFINE touched == (UNION {Neighbours(graph, n) : n \in independent}) \cap contractable
<1>1. PICK p \in [touched -> Priorities] :
        priorities' = [n \in NodeID |-> IF n \in touched THEN p[n] ELSE priorities[n]]
  BY Zenon DEF UpdateNeighbours
<1>2. phase = "insert" /\ phase' = "round" /\ UNCHANGED <<contractable, is_core>>
  BY Zenon DEF UpdateNeighbours
<1>3. Evaluated(priorities', is_core, contractable)
  <2> SUFFICES ASSUME NEW n \in is_core
               PROVE  /\ n \in contractable => priorities'[n] \in Priorities
                      /\ n \notin contractable => priorities'[n] = MaxPriority
    BY Zenon DEF Evaluated
  <2>1. n \in NodeID
    BY Zenon DEF ConnectedInv
  <2>2. /\ n \in contractable => priorities[n] \in Priorities
        /\ n \notin contractable => priorities[n] = MaxPriority
    BY <1>2, Zenon DEF RoundInv, Evaluated
  <2>3. n \in touched => n \in contractable
    BY Zenon
  <2> HIDE DEF touched
  <2> QED BY <1>1, <2>1, <2>2, <2>3, Zenon
<1>4. Evaluated(priorities', is_core', contractable')
  BY <1>2, <1>3, Zenon
<1> QED BY <1>2, <1>4, Zenon DEF RoundInv, RoundsContract

\* Renumbering permutes the priorities together with the nodes.
LEMMA RoundRenumber == ASSUME RoundInv, ConnectedInv, RenumberData PROVE RoundInv'
<1>1. PICK order \in Renumberings :
        /\ priorities' = [n \in NodeID |-> priorities[CHOOSE m \in NodeID : order[m] = n]]
        /\ is_core' = {order[n] : n \in is_core}
        /\ contractable' = {order[n] : n \in contractable}
  BY ZenonT(30) DEF RenumberData
<1>2. phase = "round" /\ phase' = "round"
  BY Zenon DEF RenumberData
<1>3. /\ order \in [NodeID -> NodeID]
      /\ \A m, n \in NodeID : order[m] = order[n] => m = n
  BY Zenon DEF Renumberings
<1>4. contractable \subseteq NodeID /\ is_core \subseteq NodeID
  BY Zenon DEF RoundInv, ConnectedInv
<1>5. contractable' \subseteq NodeID
  BY <1>1, <1>3, <1>4, Zenon
<1>6. Evaluated(priorities', is_core', contractable')
  <2> SUFFICES ASSUME NEW x \in is_core'
               PROVE  /\ x \in contractable' => priorities'[x] \in Priorities
                      /\ x \notin contractable' => priorities'[x] = MaxPriority
    BY Zenon DEF Evaluated
  <2>1. PICK n \in is_core : x = order[n]
    BY <1>1, Zenon
  <2>2. n \in NodeID /\ x \in NodeID
    BY <1>3, <1>4, <2>1, Zenon
  <2>3. (CHOOSE m \in NodeID : order[m] = x) = n
    <3>1. (CHOOSE m \in NodeID : order[m] = x) \in NodeID /\ order[CHOOSE m \in NodeID : order[m] = x] = x
      BY <2>1, <2>2, Zenon
    <3> QED BY <1>3, <2>1, <2>2, <3>1, Zenon
  <2>4. priorities'[x] = priorities[n]
    BY <1>1, <2>2, <2>3, Zenon
  <2>5. x \in contractable' <=> n \in contractable
    BY <1>1, <1>3, <1>4, <2>1, <2>2, Zenon
  <2>6. /\ n \in contractable => priorities[n] \in Priorities
        /\ n \notin contractable => priorities[n] = MaxPriority
    BY <1>2, Zenon DEF RoundInv, Evaluated
  <2> QED BY <2>4, <2>5, <2>6, Zenon
<1> QED BY <1>2, <1>5, <1>6, Zenon DEF RoundInv, RoundsContract

\* The other steps of a round change neither the priorities nor what may be contracted.
LEMMA RoundOther ==
  ASSUME RoundInv, NEW n, NEW e, ContractNode(n) \/ DeleteIncoming \/ InsertEdge(e)
  PROVE  RoundInv'
<1>1. /\ UNCHANGED <<priorities, contractable, independent>> /\ is_core' \subseteq is_core
      /\ phase \in {"contract", "insert"} /\ phase' \in {"contract", "insert"}
      /\ phase' = "contract" => phase = "contract"
  BY Zenon DEF ContractNode, DeleteIncoming, InsertEdge
<1>2. Evaluated(priorities, is_core, contractable)
  BY <1>1, Zenon DEF RoundInv
<1>3. Evaluated(priorities', is_core', contractable')
  BY <1>1, <1>2, Zenon DEF Evaluated
<1> QED BY <1>1, <1>3, Zenon DEF RoundInv, RoundsContract

LEMMA RoundFinish ==
  ASSUME RoundInv, ConnectedInv, FinishFull \/ FinishBase \/ FinishFilter
  PROVE  RoundInv'
<1>1. phase' \in {"priorities", "done"} /\ contractable' \subseteq NodeID
  <2>1. CASE FinishFull
    BY <2>1, Zenon DEF FinishFull, Idle
  <2>2. CASE FinishBase
    <3>1. ContractedCore \subseteq NodeID
      BY <2>2, ContractedArcs, Zenon DEF FinishBase, Contracted
    <3> QED BY <2>2, <3>1, Zenon DEF FinishBase, Begin
  <2>3. CASE FinishFilter
    BY <2>3, Zenon DEF FinishFilter, Begin, Idle, ConnectedInv
  <2> QED BY <2>1, <2>2, <2>3, Zenon
<1> QED BY <1>1, Zenon DEF RoundInv, RoundsContract

(***************************************************************************)
(* Every round contracts a node, for every graph and every evaluation of   *)
(* the priorities, if those that differ do so by epsilon: the assertion    *)
(* on independent nodes never fails and the number of nodes that are left  *)
(* falls in every round (graph_contractor.cpp 678-759).                    *)
(***************************************************************************)
THEOREM EveryRoundContracts ==
  ASSUME ToldApart, NEW B \in Nat, Bounded(B), BaseCore \in Nat
  PROVE  ContractorSpec => []RoundsContract
<1>1. ConnectedInv /\ RoundInv /\ [ContractorNext]_contractorVars => RoundInv'
  <2> SUFFICES ASSUME ConnectedInv, RoundInv, [ContractorNext]_contractorVars PROVE RoundInv'
    BY Zenon
  <2>1. CASE ContractorNext
    BY <2>1, RoundPriorities, RoundRenumber, RoundFind, RoundUpdate, RoundOther, RoundFinish, Zenon
       DEF ContractorNext
  <2>2. CASE UNCHANGED contractorVars
    BY <2>2, Zenon DEF contractorVars, RoundInv, RoundsContract
  <2> QED BY <2>1, <2>2, Zenon
<1>2. RoundInv => RoundsContract
  BY Zenon DEF RoundInv
<1> QED BY <1>1, <1>2, ConnectedInit, ConnectedStep, RoundInit, PTL DEF ContractorSpec
=============================================================================
