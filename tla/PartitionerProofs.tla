--------------------------- MODULE PartitionerProofs ---------------------------
(***************************************************************************)
(* Proof that the cells of Partitioner stay nested, for every graph, every *)
(* bisection, every number of levels and every size of their cells.        *)
(*                                                                         *)
(* The argument has three parts, one for each stage. While cells are split *)
(* each node is in one cell, and each cell lies in one cell of every level *)
(* that is done. When a node moves to the cell of a neighbour, a neighbour *)
(* with the fewest border edges exists and lies in the same cell of the    *)
(* level above. And the order that makePermutation sorts by is a total     *)
(* order, so every new id is the id of some node.                          *)
(***************************************************************************)
EXTENDS Partitioner, FiniteSetTheorems, WellFoundedInduction, TLAPS

-----------------------------------------------------------------------------
\* Some number of a nonempty set of natural numbers is the least.
LEMMA LeastOf ==
  ASSUME NEW T, T \subseteq Nat, T # {}
  PROVE  \E x \in T : \A y \in T : x <= y
<1> DEFINE R == {ss \in Nat \X Nat : ss[1] < ss[2]}
<1>0. IsWellFoundedOn(R, Nat)
  BY NatLessThanWellFounded, Zenon DEF OpToRel
<1>1. PICK x \in T : \A y \in T : ~ (<<y, x>> \in R)
  <2> HIDE DEF R
  <2> QED BY <1>0, WFMin, Zenon
<1>2. \A y \in T : ~(y < x)
  BY <1>1, Zenon
<1> QED BY <1>2

\* Min finds it, as the loop over large_cells begins with the lowest index.
LEMMA MinOf ==
  ASSUME NEW T, T \subseteq Nat, T # {}
  PROVE  Min(T) \in T
<1>1. \E x \in T : \A y \in T : x <= y
  BY LeastOf, Zenon
<1> QED BY <1>1, Zenon DEF Min

\* A bounded set of natural numbers has a greatest one, and Max finds it.
LEMMA MaxOf ==
  ASSUME NEW B \in Nat, NEW T, T \subseteq 0..B, T # {}
  PROVE  Max(T) \in T /\ \A y \in T : y <= Max(T)
<1> DEFINE D == {d \in Nat : \E y \in T : d = B - y}
<1>1. \A y \in T : y \in Nat /\ B - y \in Nat
  OBVIOUS
<1>2. D # {} /\ D \subseteq Nat
  BY <1>1, ZenonT(30)
<1>3. PICK d \in D : \A c \in D : d <= c
  <2> HIDE DEF D
  <2> QED BY <1>2, LeastOf, Zenon
<1>4. PICK x \in T : d = B - x
  OBVIOUS
<1>5. ASSUME NEW y \in T PROVE x >= y
  <2>1. B - y \in D
    BY <1>1
  <2>2. d <= B - y
    BY <1>3, <2>1, Zenon
  <2> QED BY <1>1, <1>4, <2>2
<1>6. \E z \in T : \A y \in T : z >= y
  BY <1>5, Zenon
<1>7. Max(T) \in T /\ \A y \in T : Max(T) >= y
  BY <1>6, Zenon DEF Max
<1> QED BY <1>1, <1>7

\* The first of the elements with the least cost.
LEMMA FirstCheapest ==
  ASSUME NEW W, W \subseteq Nat, W # {}, NEW cost \in [W -> Nat]
  PROVE  \E w \in W : \A v \in W : cost[w] < cost[v] \/ (cost[w] = cost[v] /\ w <= v)
<1> DEFINE K == {k \in Nat : \E w \in W : k = cost[w]}
<1>1. K # {} /\ K \subseteq Nat
  BY ZenonT(30)
<1>2. PICK k \in K : \A c \in K : k <= c
  <2> HIDE DEF K
  <2> QED BY <1>1, LeastOf, Zenon
<1> DEFINE V == {w \in W : cost[w] = k}
<1>3. V # {} /\ V \subseteq Nat
  BY ZenonT(30)
<1>4. PICK w \in V : \A v \in V : w <= v
  <2> HIDE DEF V
  <2> QED BY <1>3, LeastOf, Zenon
<1>5. w \in W /\ cost[w] = k
  OBVIOUS
<1>6. ASSUME NEW v \in W PROVE cost[w] < cost[v] \/ (cost[w] = cost[v] /\ w <= v)
  <2>1. cost[v] \in K /\ cost[v] \in Nat /\ k \in Nat
    OBVIOUS
  <2>2. k <= cost[v]
    BY <1>2, <2>1, Zenon
  <2>3. CASE cost[v] = k
    <3>1. v \in V
      BY <2>3, Zenon
    <3>2. w <= v
      BY <1>4, <3>1, Zenon
    <3> QED BY <1>5, <2>3, <3>2, Zenon
  <2>4. CASE cost[v] # k
    <3>1. k < cost[v]
      BY <2>1, <2>2, <2>4
    <3> QED BY <1>5, <3>1, Zenon
  <2> QED BY <2>3, <2>4, Zenon
<1> QED BY <1>5, <1>6, Zenon

\* The values of a function on a finite set.
LEMMA FiniteValues ==
  ASSUME NEW S, IsFiniteSet(S), NEW T, NEW f \in [S -> T]
  PROVE  IsFiniteSet({f[x] : x \in S})
<1> DEFINE V == {f[x] : x \in S}
<1>1. f \in Surjection(S, V)
  BY Zenon DEF Surjection
<1> HIDE DEF V
<1>2. IsFiniteSet(V)
  BY <1>1, FS_Surjection, Zenon
<1> QED BY <1>2 DEF V

StrictOrder(R) ==
  /\ \A x \in NodeID : <<x, x>> \notin R
  /\ \A x, y, z \in NodeID : <<x, y>> \in R /\ <<y, z>> \in R => <<x, z>> \in R
  /\ \A x, y \in NodeID : x # y => <<x, y>> \in R \/ <<y, x>> \in R

Rank(R, x) == Cardinality({y \in NodeID : <<y, x>> \in R})

\* If the nodes are strictly ordered, the number of the nodes before a node is its rank,
\* and each rank is taken.
LEMMA RanksTaken ==
  ASSUME NEW R, StrictOrder(R), NEW k \in NodeID
  PROVE  \E x \in NodeID : Rank(R, x) = k
<1> DEFINE Below(x) == {y \in NodeID : <<y, x>> \in R}
<1>0. IsFiniteSet(NodeID) /\ Cardinality(NodeID) \in Nat /\ NodeID = 0..(Cardinality(NodeID) - 1)
  BY PartitionerAssumption, FS_CardinalityType, Zenon
<1>1. ASSUME NEW x \in NodeID
      PROVE  /\ IsFiniteSet(Below(x)) /\ Cardinality(Below(x)) \in Nat
             /\ Cardinality(Below(x)) < Cardinality(NodeID)
  <2>1. Below(x) \in SUBSET NodeID /\ x \notin Below(x)
    BY Zenon DEF StrictOrder
  <2> HIDE DEF Below
  <2>2. /\ IsFiniteSet(Below(x)) /\ Cardinality(Below(x)) <= Cardinality(NodeID)
        /\ Cardinality(NodeID) = Cardinality(Below(x)) => NodeID = Below(x)
    BY <1>0, <2>1, FS_Subset, Zenon
  <2>3. Cardinality(Below(x)) \in Nat
    BY <2>2, FS_CardinalityType, Zenon
  <2>4. Cardinality(NodeID) # Cardinality(Below(x))
    BY <2>1, <2>2, Zenon
  <2>5. Cardinality(Below(x)) < Cardinality(NodeID)
    BY <1>0, <2>2, <2>3, <2>4
  <2> QED BY <2>2, <2>3, <2>5, Zenon
<1>2. ASSUME NEW x \in NodeID, NEW y \in NodeID, <<x, y>> \in R
      PROVE  Cardinality(Below(x)) < Cardinality(Below(y))
  <2>1. Below(x) \in SUBSET Below(y) /\ x \notin Below(x) /\ x \in Below(y)
    BY <1>2, Zenon DEF StrictOrder
  <2>2. IsFiniteSet(Below(y)) /\ Cardinality(Below(y)) \in Nat /\ Cardinality(Below(x)) \in Nat
    BY <1>1, Zenon
  <2> HIDE DEF Below
  <2>3. /\ Cardinality(Below(x)) <= Cardinality(Below(y))
        /\ Cardinality(Below(y)) = Cardinality(Below(x)) => Below(y) = Below(x)
    BY <2>1, <2>2, FS_Subset, Zenon
  <2>4. Cardinality(Below(y)) # Cardinality(Below(x))
    BY <2>1, <2>3, Zenon
  <2> QED BY <2>2, <2>3, <2>4
<1> DEFINE f == [x \in NodeID |-> Cardinality(Below(x))]
           T == NodeID \ {k}
<1>3. ASSUME \A x \in NodeID : Cardinality(Below(x)) # k PROVE FALSE
  <2>1. ASSUME NEW x \in NodeID PROVE f[x] \in T
    <3>1. f[x] = Cardinality(Below(x))
      BY Zenon
    <3>2. Cardinality(Below(x)) \in T
      <4> HIDE DEF Below
      <4>1. Cardinality(Below(x)) \in 0..(Cardinality(NodeID) - 1)
        BY <1>0, <1>1
      <4> QED BY <1>0, <1>3, <4>1, Zenon
    <3> QED BY <3>1, <3>2, Zenon
  <2>2. f \in [NodeID -> T]
    BY <2>1, Zenon
  <2>3. IsFiniteSet(T) /\ Cardinality(T) = Cardinality(NodeID) - 1
    <3>1. IsFiniteSet(NodeID \ {k}) /\ Cardinality(NodeID \ {k}) = Cardinality(NodeID) - 1
      BY <1>0, FS_RemoveElement, ZenonT(30)
    <3> QED BY <3>1, Zenon
  <2>4. Cardinality(T) < Cardinality(NodeID)
    BY <1>0, <2>3
  <2>5. PICK x, y \in NodeID : x # y /\ f[x] = f[y]
    <3> HIDE DEF f, T
    <3> QED BY <1>0, <2>2, <2>3, <2>4, FS_PigeonHole
  <2>6. Cardinality(Below(x)) = Cardinality(Below(y))
    BY <2>5, Zenon
  <2>7. Cardinality(Below(x)) < Cardinality(Below(y)) \/ Cardinality(Below(y)) < Cardinality(Below(x))
    BY <1>2, <2>5, ZenonT(30) DEF StrictOrder
  <2>8. Cardinality(Below(x)) \in Nat /\ Cardinality(Below(y)) \in Nat
    BY <1>1, Zenon
  <2> HIDE DEF Below
  <2> QED BY <2>6, <2>7, <2>8
<1> QED BY <1>3, Zenon DEF Rank
-----------------------------------------------------------------------------
(***************************************************************************)
(* The graph that the reader builds is finite, and its edges are between   *)
(* nodes of the dataset.                                                   *)
(***************************************************************************)
GraphOf(edges) ==
  /\ IsFiniteSet(edges)
  /\ \A e \in edges : e.source \in NodeID /\ e.target \in NodeID /\ e.weight \in Nat

\* splitBidirectionalEdges stores every edge at both of its nodes.
LEMMA SplitGraph ==
  ASSUME NEW edges, IsFiniteSet(edges),
         \A e \in edges : e.source \in NodeID /\ e.target \in NodeID /\ e.weight \in Int
  PROVE  GraphOf(splitBidirectionalEdges(edges))
<1> DEFINE valid == {e \in edges : e.weight # INVALID_EDGE_WEIGHT}
           There(e) == EdgeBasedEdge(e.source, e.target, e.turn_id, AtLeastOne(e.weight), e.duration,
                                     e.forward, e.backward)
           Back(e) == EdgeBasedEdge(e.target, e.source, e.turn_id, AtLeastOne(e.weight), e.duration,
                                    e.backward, e.forward)
           there == {There(e) : e \in valid}
           back == {Back(e) : e \in valid}
           f == [e \in valid |-> There(e)]
           b == [e \in valid |-> Back(e)]
<1>1. splitBidirectionalEdges(edges) = there \cup back
  BY Zenon DEF splitBidirectionalEdges
<1>2. IsFiniteSet(valid)
  <2>1. valid \in SUBSET edges
    BY Zenon
  <2> HIDE DEF valid
  <2> QED BY <2>1, FS_Subset, Zenon
<1>3. IsFiniteSet(there)
  <2>1. f \in [valid -> there]
    BY Zenon
  <2>2. there = {f[e] : e \in valid}
    BY Zenon
  <2> HIDE DEF f, there, valid
  <2>3. IsFiniteSet({f[e] : e \in valid})
    BY <1>2, <2>1, FiniteValues
  <2> QED BY <2>2, <2>3
<1>4. IsFiniteSet(back)
  <2>1. b \in [valid -> back]
    BY Zenon
  <2>2. back = {b[e] : e \in valid}
    BY Zenon
  <2> HIDE DEF b, back, valid
  <2>3. IsFiniteSet({b[e] : e \in valid})
    BY <1>2, <2>1, FiniteValues
  <2> QED BY <2>2, <2>3
<1>5. IsFiniteSet(there \cup back)
  <2> HIDE DEF there, back
  <2> QED BY <1>3, <1>4, FS_Union, Zenon
<1>6. ASSUME NEW e \in edges
      PROVE  /\ There(e).source \in NodeID /\ There(e).target \in NodeID /\ There(e).weight \in Nat
             /\ Back(e).source \in NodeID /\ Back(e).target \in NodeID /\ Back(e).weight \in Nat
  <2>1. AtLeastOne(e.weight) \in Nat
    BY DEF AtLeastOne
  <2>2. e.source \in NodeID /\ e.target \in NodeID
    BY Zenon
  <2>3. /\ There(e).source = e.source /\ There(e).target = e.target
        /\ There(e).weight = AtLeastOne(e.weight)
        /\ Back(e).source = e.target /\ Back(e).target = e.source
        /\ Back(e).weight = AtLeastOne(e.weight)
    BY DEF EdgeBasedEdge
  <2> HIDE DEF There, Back
  <2> QED BY <2>1, <2>2, <2>3, Zenon
<1>7. ASSUME NEW e \in there \cup back
      PROVE  e.source \in NodeID /\ e.target \in NodeID /\ e.weight \in Nat
  <2>1. PICK o \in edges : e = There(o) \/ e = Back(o)
    BY <1>7, Zenon
  <2> HIDE DEF There, Back
  <2> QED BY <1>6, <2>1, Zenon
<1> HIDE DEF there, back
<1> QED BY <1>1, <1>5, <1>7, Zenon DEF GraphOf

\* The sort by weight has a first edge.
LEMMA SmallestOf ==
  ASSUME NEW edges, edges # {}, \A e \in edges : e.weight \in Nat
  PROVE  SmallestEdge(edges) \in edges
<1> DEFINE W == {w \in Nat : \E e \in edges : w = e.weight}
<1>1. W # {} /\ W \subseteq Nat
  BY Zenon
<1>2. PICK w \in W : \A v \in W : w <= v
  <2> HIDE DEF W
  <2> QED BY <1>1, LeastOf, Zenon
<1>3. PICK e \in edges : w = e.weight
  BY Zenon
<1>4. \A o \in edges : e.weight <= o.weight
  BY <1>2, <1>3, Zenon
<1> QED BY <1>4, Zenon DEF SmallestEdge

\* What is kept of the edges between two nodes is at most two edges between them.
LEMMA KeptBetween ==
  ASSUME NEW edges, GraphOf(edges), NEW s \in NodeID, NEW t \in NodeID
  PROVE  GraphOf(EdgesBetween(edges, s, t))
<1> DEFINE there == {e \in edges : e.source = s /\ e.target = t /\ e.forward}
           back == {e \in edges : e.source = s /\ e.target = t /\ e.backward}
           f == SmallestEdge(there)
           b == SmallestEdge(back)
           both == EdgeBasedEdge(s, t, f.turn_id, f.weight, f.duration, TRUE, TRUE)
           kept == EdgesBetween(edges, s, t)
<1>1. kept = IF there = {} \/ back = {}
             THEN (IF there = {} THEN {} ELSE {f}) \cup (IF back = {} THEN {} ELSE {b})
             ELSE IF f.weight = b.weight THEN {both} ELSE {f, b}
  BY Zenon DEF EdgesBetween
<1>2. \A e \in edges : e.source \in NodeID /\ e.target \in NodeID /\ e.weight \in Nat
  BY Zenon DEF GraphOf
<1>3. there # {} => f \in edges
  <2>1. there # {} => f \in there
    <3>1. \A e \in there : e.weight \in Nat
      BY <1>2, Zenon
    <3> HIDE DEF there
    <3> QED BY <3>1, SmallestOf, Zenon
  <2>2. \A e \in there : e \in edges
    BY Zenon
  <2> HIDE DEF there, f
  <2> QED BY <2>1, <2>2, Zenon
<1>4. back # {} => b \in edges
  <2>1. back # {} => b \in back
    <3>1. \A e \in back : e.weight \in Nat
      BY <1>2, Zenon
    <3> HIDE DEF back
    <3> QED BY <3>1, SmallestOf, Zenon
  <2>2. \A e \in back : e \in edges
    BY Zenon
  <2> HIDE DEF back, b
  <2> QED BY <2>1, <2>2, Zenon
<1>5. both.source = s /\ both.target = t /\ both.weight = f.weight
  <2> HIDE DEF f
  <2> QED BY DEF EdgeBasedEdge
<1> HIDE DEF there, back, f, b, both, kept
<1>6. ASSUME NEW e \in kept
      PROVE  e.source \in NodeID /\ e.target \in NodeID /\ e.weight \in Nat
  <2>1. CASE e \in edges
    BY <1>2, <2>1, Zenon
  <2>2. CASE e = both /\ f \in edges
    <3>1. f.weight \in Nat
      BY <1>2, <2>2, Zenon
    <3> QED BY <1>5, <2>2, <3>1, Zenon
  <2>3. e \in edges \/ (e = both /\ f \in edges)
    BY <1>1, <1>3, <1>4, Zenon
  <2> QED BY <2>1, <2>2, <2>3, Zenon
<1>7. IsFiniteSet(kept)
  <2>1. kept \in SUBSET ({f, b} \cup {both})
    BY <1>1, Zenon
  <2>2. {f, b} = {f} \cup {b}
    BY Zenon
  <2>3. IsFiniteSet({f}) /\ IsFiniteSet({b}) /\ IsFiniteSet({both})
    BY FS_Singleton, Zenon
  <2>4. IsFiniteSet({f} \cup {b})
    BY <2>3, FS_Union, Zenon
  <2>5. IsFiniteSet(({f} \cup {b}) \cup {both})
    BY <2>3, <2>4, FS_Union, Zenon
  <2> QED BY <2>1, <2>2, <2>5, FS_Subset, Zenon
<1>8. GraphOf(kept)
  BY <1>6, <1>7, Zenon DEF GraphOf
<1> QED BY <1>8, Zenon DEF kept

\* The graph of the dataset.
LEMMA LoadedGraph ==
  ASSUME input \in Inputs
  PROVE  GraphOf(BaseGraph)
<1> DEFINE edges == splitBidirectionalEdges(input.edges)
           leave == {e \in edges : e.source # e.target}
           g == [e \in leave |-> EdgesBetween(edges, e.source, e.target)]
           parts == {EdgesBetween(edges, e.source, e.target) : e \in leave}
<1>1. GraphOf(edges)
  <2>1. /\ IsFiniteSet(input.edges)
        /\ \A e \in input.edges : e.source \in NodeID /\ e.target \in NodeID /\ e.weight \in Int
    BY PartitionerAssumption, Zenon
  <2> QED BY <2>1, SplitGraph, Zenon
<1>2. BaseGraph = UNION parts
  BY Zenon DEF BaseGraph, LoadEdgeBasedGraph, prepareEdgesForUsageInGraph
<1> HIDE DEF edges
<1>3. IsFiniteSet(leave) /\ \A e \in leave : e.source \in NodeID /\ e.target \in NodeID
  <2>1. leave \in SUBSET edges
    BY Zenon
  <2>2. IsFiniteSet(edges) /\ \A e \in edges : e.source \in NodeID /\ e.target \in NodeID
    BY <1>1, Zenon DEF GraphOf
  <2>3. \A e \in leave : e \in edges
    BY Zenon
  <2> HIDE DEF leave
  <2>4. IsFiniteSet(leave)
    BY <2>1, <2>2, FS_Subset, Zenon
  <2> QED BY <2>2, <2>3, <2>4, Zenon
<1>4. \A p \in parts : GraphOf(p)
  <2> SUFFICES ASSUME NEW e \in leave PROVE GraphOf(EdgesBetween(edges, e.source, e.target))
    BY Zenon
  <2>1. e.source \in NodeID /\ e.target \in NodeID
    BY <1>3, Zenon
  <2> QED BY <1>1, <2>1, KeptBetween, Zenon
<1>5. IsFiniteSet(parts)
  <2>1. g \in [leave -> parts]
    BY Zenon
  <2>2. parts = {g[e] : e \in leave}
    BY Zenon
  <2> HIDE DEF g, parts, leave
  <2>3. IsFiniteSet({g[e] : e \in leave})
    BY <1>3, <2>1, FiniteValues, ZenonT(30)
  <2> QED BY <2>2, <2>3
<1> HIDE DEF parts
<1>6. IsFiniteSet(UNION parts)
  <2>1. \A p \in parts : IsFiniteSet(p)
    BY <1>4, Zenon DEF GraphOf
  <2> QED BY <1>5, <2>1, FS_UNION, Zenon
<1>7. \A e \in UNION parts : e.source \in NodeID /\ e.target \in NodeID /\ e.weight \in Nat
  BY <1>4, Zenon DEF GraphOf
<1> QED BY <1>2, <1>6, <1>7, Zenon DEF GraphOf
-----------------------------------------------------------------------------
(***************************************************************************)
(* The inductive invariant. While cells are split, each node is in exactly *)
(* one cell, and the nodes of a cell are in one cell of every level that   *)
(* is done.                                                                *)
(***************************************************************************)
Cell == [nodes : SUBSET NodeID, bit : Int, tabu : BOOLEAN]

CellsDisjoint ==
  /\ \A n \in NodeID : \E i \in 1..Len(cells) : n \in cells[i].nodes
  /\ \A i, j \in 1..Len(cells) : \A n \in NodeID :
       n \in cells[i].nodes /\ n \in cells[j].nodes => i = j

CellsInside(l) ==
  \A i \in 1..Len(cells) : \A m, n \in cells[i].nodes : partitions[l][m] = partitions[l][n]

CellsRefine ==
  /\ cells \in Seq(Cell)
  /\ large \subseteq 1..Len(cells)
  /\ CellsDisjoint
  /\ \A l \in Levels : l > level => CellsInside(l)

NestedInv ==
  /\ stage \in {"bisect", "reconnect", "renumber", "partitioned"}
  /\ stage # "partitioned" => input \in Inputs
  /\ level \in Levels
  /\ partitions \in [Levels -> [NodeID -> Int]]
  /\ stage = "bisect" => CellsRefine
  /\ CellsNested

LEMMA LevelsAre == Len(max_cell_sizes) \in Nat \ {0} /\ Levels = 1..Len(max_cell_sizes)
BY PartitionerAssumption DEF Levels

LEMMA NestedInit == PartitionInit => NestedInv
<1> SUFFICES ASSUME PartitionInit PROVE NestedInv
  OBVIOUS
<1> USE DEF PartitionInit
<1>1. level \in Levels /\ ~ \E l \in Levels : l > level
  BY LevelsAre
<1>2. partitions \in [Levels -> [NodeID -> Int]]
  BY DEF INVALID_CELL_ID
<1>3. CellsNested
  BY <1>1, Zenon DEF CellsNested, Finished
<1>4. CellsRefine
  <2> DEFINE c == CellBisection(NodeID, NUM_BISECTION_BITS - 1, FALSE)
  <2>1. c \in Cell /\ c.nodes = NodeID
    BY PartitionerAssumption DEF Cell, CellBisection
  <2>2. cells = <<c>>
    BY Zenon
  <2> HIDE DEF c
  <2>3. cells \in Seq(Cell) /\ Len(cells) = 1 /\ cells[1] = c
    <3>1. <<c>> \in Seq(Cell) /\ Len(<<c>>) = 1 /\ <<c>>[1] = c
      BY <2>1
    <3> QED BY <2>2, <3>1, Zenon
  <2>4. \A i \in 1..Len(cells) : i = 1
    BY <2>3
  <2>5. 1 \in 1..Len(cells)
    BY <2>3
  <2>6. large \subseteq 1..Len(cells)
    BY Zenon
  <2>7. CellsDisjoint
    BY <2>1, <2>3, <2>4, <2>5, Zenon DEF CellsDisjoint
  <2> QED BY <1>1, <2>3, <2>6, <2>7, Zenon DEF CellsRefine
<1> QED BY <1>1, <1>2, <1>3, <1>4, Zenon DEF NestedInv

\* getLargeCells looks at the cells only.
LEMMA NestedRound == ASSUME NestedInv, StartRound PROVE NestedInv'
<1>1. /\ stage = "bisect" /\ stage' = stage /\ input' = input /\ cells' = cells /\ level' = level
      /\ partitions' = partitions /\ large' = getLargeCells
  BY Zenon DEF StartRound
<1>2. CellsNested'
  BY <1>1, Zenon DEF NestedInv, CellsNested, Finished
<1>3. getLargeCells \subseteq 1..Len(cells)
  BY Zenon DEF getLargeCells
<1>4. CellsRefine
  BY <1>1, Zenon DEF NestedInv
<1>5. CellsRefine'
  <2>1. CellsDisjoint'
    BY <1>1, <1>4, Zenon DEF CellsRefine, CellsDisjoint
  <2>2. ASSUME NEW l \in Levels, l > level PROVE CellsInside(l)'
    <3>1. CellsInside(l)
      BY <1>4, <2>2, Zenon DEF CellsRefine
    <3> QED BY <1>1, <3>1 DEF CellsInside
  <2>3. cells' \in Seq(Cell) /\ large' \subseteq 1..Len(cells')
    BY <1>1, <1>3, <1>4, Zenon DEF CellsRefine
  <2> QED BY <1>1, <2>1, <2>2, <2>3, Zenon DEF CellsRefine
<1> QED BY <1>1, <1>2, <1>5, Zenon DEF NestedInv

\* Cell i keeps its nodes, or gives some of them to a cell at the end.
SplitInto(old, new, i) ==
  /\ new \in Seq(Cell)
  /\ \A j \in 1..Len(old) : j # i => new[j].nodes = old[j].nodes
  /\ \/ Len(new) = Len(old) /\ new[i].nodes = old[i].nodes
     \/ /\ Len(new) = Len(old) + 1
        /\ \A n \in NodeID : n \in new[i].nodes \/ n \in new[Len(new)].nodes <=> n \in old[i].nodes
        /\ \A n \in NodeID : ~(n \in new[i].nodes /\ n \in new[Len(new)].nodes)

\* The highest bit is the bit of some node.
LEMMA HighestBit ==
  ASSUME input \in Inputs, NEW nodes \in SUBSET NodeID, NEW bit \in Int,
         NEW masked, masked = {b \in UNION {input.ids[n] : n \in nodes} : b <= bit}, masked # {}
  PROVE  Max(masked) \in Nat
<1>1. NUM_BISECTION_BITS \in Nat
  BY PartitionerAssumption
<1>2. \A n \in NodeID : input.ids[n] \in SUBSET (0..(NUM_BISECTION_BITS - 1))
  <2>1. input.ids \in [NodeID -> SUBSET (0..(NUM_BISECTION_BITS - 1))]
    BY PartitionerAssumption, Zenon
  <2> QED BY <2>1, Zenon
<1>3. \A b \in masked : \E n \in NodeID : b \in input.ids[n]
  BY Zenon
<1>4. \A b \in masked : b \in 0..(NUM_BISECTION_BITS - 1)
  BY <1>2, <1>3, Zenon
<1>5. masked \subseteq 0..NUM_BISECTION_BITS
  BY <1>1, <1>4
<1>6. Max(masked) \in masked
  BY <1>1, <1>5, MaxOf, Zenon
<1> QED BY <1>4, <1>6

\* The three outcomes of partitionLevel for a large cell: it cannot be split any more,
\* all of its nodes are on one side, or the second side becomes a cell of its own.
LEMMA SplitIsRefinement ==
  ASSUME NestedInv, SplitCell
  PROVE  \E i \in 1..Len(cells) : SplitInto(cells, cells', i) /\ large' \subseteq large
<1> DEFINE i == Min(large)
           nodes == cells[i].nodes
           masked == {b \in UNION {input.ids[n] : n \in cells[i].nodes} : b <= cells[i].bit}
           bit == Max(masked)
           left == {n \in nodes : bit \in input.ids[n]}
           Part(side) == CellBisection(side, IF bit > 0 THEN bit - 1 ELSE cells[i].bit, bit = 0)
<1>1. /\ stage = "bisect" /\ large # {}
      /\ cells' = IF masked = {} THEN [cells EXCEPT ![i].tabu = TRUE] ELSE SplitCells(i, bit)
      /\ large' = large \ {i}
  BY Zenon DEF SplitCell
<1>2. CellsRefine /\ input \in Inputs
  BY <1>1, Zenon DEF NestedInv
<1>3. cells \in Seq(Cell) /\ large \subseteq 1..Len(cells)
  BY <1>2, Zenon DEF CellsRefine
<1>4. i \in large
  <2>1. large \subseteq Nat
    BY <1>3
  <2> QED BY <1>1, <2>1, MinOf, Zenon
<1> HIDE DEF i
<1>5. i \in 1..Len(cells)
  BY <1>3, <1>4, Zenon
<1>6. cells[i] \in Cell
  BY <1>3, <1>5
<1>7. nodes \in SUBSET NodeID /\ cells[i].bit \in Int
  BY <1>6 DEF Cell
<1>8. CASE masked = {}
  <2> DEFINE c == [cells[i] EXCEPT !.tabu = TRUE]
  <2>1. c \in Cell /\ c.nodes = nodes
    BY <1>6, ZenonT(30) DEF Cell
  <2>2. cells' = [cells EXCEPT ![i] = c]
    BY <1>1, <1>8, Zenon
  <2> HIDE DEF c, nodes
  <2>3. /\ cells' \in Seq(Cell) /\ Len(cells') = Len(cells)
        /\ cells'[i] = c /\ \A j \in 1..Len(cells) : j # i => cells'[j] = cells[j]
    BY <1>3, <1>5, <2>1, <2>2
  <2> QED BY <1>1, <1>5, <2>1, <2>3, Zenon DEF SplitInto, nodes
<1>9. CASE masked # {}
  <2>1. bit \in Nat
    <3> HIDE DEF masked, nodes
    <3>1. masked = {b \in UNION {input.ids[n] : n \in nodes} : b <= cells[i].bit}
      BY Zenon DEF masked, nodes
    <3> QED BY <1>2, <1>7, <1>9, <3>1, HighestBit, Zenon
  <2>2. cells' = SplitCells(i, bit)
    BY <1>1, <1>9, Zenon
  <2> HIDE DEF masked, bit
  <2>3. cells' = IF left = nodes THEN [cells EXCEPT ![i] = Part(nodes)]
                 ELSE Append([cells EXCEPT ![i] = Part(left)], Part(nodes \ left))
    BY <2>2, Zenon DEF SplitCells
  <2>4. ASSUME NEW side \in SUBSET NodeID
        PROVE  Part(side) \in Cell /\ Part(side).nodes = side
    <3>1. (IF bit > 0 THEN bit - 1 ELSE cells[i].bit) \in Int /\ (bit = 0) \in BOOLEAN
      <4> HIDE DEF nodes
      <4> QED BY <1>7, <2>1
    <3> QED BY <3>1 DEF Cell, CellBisection
  <2>5. left \in SUBSET NodeID /\ nodes \ left \in SUBSET NodeID /\ left \subseteq nodes
    BY <1>7, Zenon
  <2> HIDE DEF left, Part, nodes
  <2>6. CASE left = nodes
    <3>1. Part(nodes) \in Cell /\ Part(nodes).nodes = nodes
      BY <1>7, <2>4, Zenon
    <3>2. cells' = [cells EXCEPT ![i] = Part(nodes)]
      BY <2>3, <2>6, Zenon
    <3>3. /\ cells' \in Seq(Cell) /\ Len(cells') = Len(cells)
          /\ cells'[i] = Part(nodes) /\ \A j \in 1..Len(cells) : j # i => cells'[j] = cells[j]
      BY <1>3, <1>5, <3>1, <3>2
    <3> QED BY <1>1, <1>5, <3>1, <3>3, Zenon DEF SplitInto, nodes
  <2>7. CASE left # nodes
    <3> DEFINE a == Part(left)
               b == Part(nodes \ left)
               k == [cells EXCEPT ![i] = a]
    <3>1. a \in Cell /\ a.nodes = left /\ b \in Cell /\ b.nodes = nodes \ left
      BY <2>4, <2>5, Zenon
    <3>2. cells' = Append(k, b)
      BY <2>3, <2>7, Zenon
    <3> HIDE DEF a, b
    <3>3. /\ k \in Seq(Cell) /\ Len(k) = Len(cells)
          /\ k[i] = a /\ \A j \in 1..Len(cells) : j # i => k[j] = cells[j]
      BY <1>3, <1>5, <3>1
    <3> HIDE DEF k
    <3>4. /\ cells' \in Seq(Cell) /\ Len(cells') = Len(cells) + 1
          /\ cells'[Len(cells')] = b /\ \A j \in 1..Len(cells) : cells'[j] = k[j]
      BY <1>3, <3>1, <3>2, <3>3
    <3>5. cells'[i] = a /\ \A j \in 1..Len(cells) : j # i => cells'[j] = cells[j]
      BY <1>5, <3>3, <3>4, Zenon
    <3>6. /\ \A n \in NodeID : n \in left \/ n \in nodes \ left <=> n \in nodes
          /\ \A n \in NodeID : ~(n \in left /\ n \in nodes \ left)
      BY <2>5, Zenon
    <3>7. cells'[i].nodes = left /\ cells'[Len(cells')].nodes = nodes \ left /\ cells[i].nodes = nodes
      BY <3>1, <3>4, <3>5, Zenon DEF nodes
    <3>8. SplitInto(cells, cells', i)
      BY <3>4, <3>5, <3>6, <3>7, Zenon DEF SplitInto
    <3> QED BY <1>1, <1>5, <3>8, Zenon
  <2> QED BY <2>6, <2>7, Zenon
<1> QED BY <1>8, <1>9, Zenon

\* Every cell of the new sequence lies in a cell of the old one.
LEMMA SplitLiesIn ==
  ASSUME NEW old \in Seq(Cell), NEW new, NEW i \in 1..Len(old), SplitInto(old, new, i),
         NEW j \in 1..Len(new)
  PROVE  \E o \in 1..Len(old) : /\ \A n \in NodeID : n \in new[j].nodes => n \in old[o].nodes
                                /\ j \in 1..Len(old) => o = j
                                /\ j \notin 1..Len(old) => o = i /\ j = Len(new) /\ Len(new) = Len(old) + 1
<1>0. Len(old) \in Nat
  OBVIOUS
<1>1. CASE j \in 1..Len(old)
  <2>1. \A n \in NodeID : n \in new[j].nodes => n \in old[j].nodes
    BY <1>1, Zenon DEF SplitInto
  <2> QED BY <1>1, <2>1, Zenon
<1>2. CASE j \notin 1..Len(old)
  <2>1. Len(new) = Len(old) \/ Len(new) = Len(old) + 1
    BY Zenon DEF SplitInto
  <2>2. j = Len(new) /\ Len(new) = Len(old) + 1 /\ Len(new) # Len(old)
    BY <1>0, <1>2, <2>1
  <2>3. \A n \in NodeID : n \in new[j].nodes => n \in old[i].nodes
    BY <2>2, Zenon DEF SplitInto
  <2> QED BY <1>2, <2>2, <2>3, Zenon
<1> QED BY <1>1, <1>2, Zenon

LEMMA NestedSplit == ASSUME NestedInv, SplitCell PROVE NestedInv'
<1>1. /\ stage = "bisect" /\ stage' = stage /\ input' = input /\ level' = level
      /\ partitions' = partitions
  BY Zenon DEF SplitCell
<1>2. CellsNested'
  BY <1>1, Zenon DEF NestedInv, CellsNested, Finished
<1>3. CellsRefine
  BY <1>1, Zenon DEF NestedInv
<1>4. PICK i \in 1..Len(cells) : SplitInto(cells, cells', i) /\ large' \subseteq large
  BY SplitIsRefinement, Zenon
<1>5. cells \in Seq(Cell) /\ large \subseteq 1..Len(cells) /\ Len(cells) \in Nat
  BY <1>3 DEF CellsRefine
<1>6. cells' \in Seq(Cell) /\ (Len(cells') = Len(cells) \/ Len(cells') = Len(cells) + 1)
  BY <1>4, Zenon DEF SplitInto
<1>7. 1..Len(cells) \subseteq 1..Len(cells')
  BY <1>5, <1>6
<1>8. large' \subseteq 1..Len(cells')
  BY <1>4, <1>5, <1>7, Zenon
<1>9. ASSUME NEW n \in NodeID PROVE \E j \in 1..Len(cells') : n \in cells'[j].nodes
  <2>1. PICK o \in 1..Len(cells) : n \in cells[o].nodes
    BY <1>3, Zenon DEF CellsRefine, CellsDisjoint
  <2>2. o \in 1..Len(cells') /\ i \in 1..Len(cells')
    BY <1>7, Zenon
  <2>3. CASE o # i
    <3>1. cells'[o].nodes = cells[o].nodes
      BY <1>4, <2>3, Zenon DEF SplitInto
    <3> QED BY <2>1, <2>2, <3>1, Zenon
  <2>4. CASE o = i /\ Len(cells') = Len(cells)
    <3>1. cells'[o].nodes = cells[o].nodes
      <4>1. Len(cells') # Len(cells) + 1
        BY <1>5, <2>4
      <4> QED BY <1>4, <2>4, <4>1, Zenon DEF SplitInto
    <3> QED BY <2>1, <2>2, <3>1, Zenon
  <2>5. CASE o = i /\ Len(cells') = Len(cells) + 1
    <3>1. Len(cells') # Len(cells) /\ Len(cells') \in 1..Len(cells')
      BY <1>5, <2>5
    <3>2. n \in cells'[i].nodes \/ n \in cells'[Len(cells')].nodes
      BY <1>4, <2>1, <2>5, <3>1, Zenon DEF SplitInto
    <3> QED BY <2>2, <3>1, <3>2, Zenon
  <2> QED BY <1>6, <2>3, <2>4, <2>5, Zenon
<1>10. ASSUME NEW j \in 1..Len(cells'), NEW k \in 1..Len(cells'), NEW n \in NodeID,
              n \in cells'[j].nodes, n \in cells'[k].nodes
       PROVE  j = k
  <2>1. PICK o \in 1..Len(cells) :
          /\ \A m \in NodeID : m \in cells'[j].nodes => m \in cells[o].nodes
          /\ j \in 1..Len(cells) => o = j
          /\ j \notin 1..Len(cells) => o = i /\ j = Len(cells') /\ Len(cells') = Len(cells) + 1
    BY <1>4, <1>5, SplitLiesIn, Zenon
  <2>2. PICK q \in 1..Len(cells) :
          /\ \A m \in NodeID : m \in cells'[k].nodes => m \in cells[q].nodes
          /\ k \in 1..Len(cells) => q = k
          /\ k \notin 1..Len(cells) => q = i /\ k = Len(cells') /\ Len(cells') = Len(cells) + 1
    BY <1>4, <1>5, SplitLiesIn, Zenon
  <2>3. n \in cells[o].nodes /\ n \in cells[q].nodes
    BY <1>10, <2>1, <2>2, Zenon
  <2>4. o = q
    BY <1>3, <2>3, Zenon DEF CellsRefine, CellsDisjoint
  <2>5. Len(cells') = Len(cells) + 1 => ~(n \in cells'[i].nodes /\ n \in cells'[Len(cells')].nodes)
    <3>1. Len(cells') = Len(cells) + 1 => Len(cells') # Len(cells)
      BY <1>5
    <3> QED BY <1>4, <3>1, Zenon DEF SplitInto
  <2> QED BY <1>10, <2>1, <2>2, <2>4, <2>5, Zenon
<1>11. ASSUME NEW l \in Levels, l > level, NEW j \in 1..Len(cells'),
              NEW m \in cells'[j].nodes, NEW n \in cells'[j].nodes
       PROVE  partitions[l][m] = partitions[l][n]
  <2>1. PICK o \in 1..Len(cells) :
          \A x \in NodeID : x \in cells'[j].nodes => x \in cells[o].nodes
    <3> HIDE <1>11
    <3> QED BY <1>4, <1>5, SplitLiesIn, Zenon
  <2>2. m \in NodeID /\ n \in NodeID
    <3>1. cells'[j] \in Cell
      BY <1>6
    <3>2. cells'[j].nodes \in SUBSET NodeID
      BY <3>1 DEF Cell
    <3> QED BY <3>2, Zenon
  <2>3. m \in cells[o].nodes /\ n \in cells[o].nodes
    BY <2>1, <2>2, Zenon
  <2>4. CellsInside(l)
    BY <1>3, <1>11, Zenon DEF CellsRefine
  <2> QED BY <2>3, <2>4, Zenon DEF CellsInside
<1>12. CellsRefine'
  <2>1. CellsDisjoint'
    BY <1>9, <1>10, Zenon DEF CellsDisjoint
  <2>2. ASSUME NEW l \in Levels, l > level PROVE CellsInside(l)'
    <3>1. \A j \in 1..Len(cells') : \A m, n \in cells'[j].nodes : partitions[l][m] = partitions[l][n]
      BY <1>11, <2>2, Zenon
    <3> QED BY <1>1, <3>1, Zenon DEF CellsInside
  <2> QED BY <1>1, <1>6, <1>8, <2>1, <2>2, Zenon DEF CellsRefine
<1> QED BY <1>1, <1>2, <1>12, Zenon DEF NestedInv

\* The nodes of a cell share the cells of the levels that are done, so the cells become
\* the cells of this level, inside those of the level above.
LEMMA NestedFinish == ASSUME NestedInv, FinishLevel PROVE NestedInv'
<1>0. Len(max_cell_sizes) \in Nat \ {0} /\ Levels = 1..Len(max_cell_sizes)
  BY LevelsAre, Zenon
<1>1. PICK k \in Levels : k = level
  BY Zenon DEF NestedInv
<1>2. /\ stage = "bisect" /\ input' = input /\ cells' = cells /\ large' = large
      /\ partitions' = [partitions EXCEPT ![k] = cellsToPartition]
  BY <1>1, Zenon DEF FinishLevel
<1>3. /\ CellsRefine /\ input \in Inputs /\ CellsNested
      /\ partitions \in [Levels -> [NodeID -> Int]]
  BY <1>2, Zenon DEF NestedInv
<1>4. ASSUME NEW n \in NodeID
      PROVE  cellsToPartition[n] \in 1..Len(cells) /\ n \in cells[cellsToPartition[n]].nodes
  <2>1. \E i \in 1..Len(cells) : n \in cells[i].nodes
    BY <1>3, Zenon DEF CellsRefine, CellsDisjoint
  <2>2. cellsToPartition[n] = CHOOSE i \in 1..Len(cells) : n \in cells[i].nodes
    BY Zenon DEF cellsToPartition
  <2> QED BY <2>1, <2>2, Zenon
<1>5. cells \in Seq(Cell) /\ Len(cells) \in Nat
  BY <1>3 DEF CellsRefine
<1>6. cellsToPartition \in [NodeID -> Int]
  <2>1. \A n \in NodeID : cellsToPartition[n] \in Int
    BY <1>4, <1>5
  <2> QED BY <2>1 DEF cellsToPartition
<1>7. /\ partitions' \in [Levels -> [NodeID -> Int]]
      /\ partitions'[k] = cellsToPartition
      /\ \A l \in Levels : l # k => partitions'[l] = partitions[l]
  BY <1>2, <1>3, <1>6, Zenon
<1>8. ASSUME NEW i \in 1..Len(cells) PROVE cells[i].nodes \in SUBSET NodeID
  <2>1. cells[i] \in Cell
    BY <1>5
  <2> QED BY <2>1 DEF Cell
<1>9. ASSUME NEW l \in Levels, l >= k PROVE CellsInside(l)'
  <2>1. CASE l = k
    <3>1. ASSUME NEW i \in 1..Len(cells), NEW m \in cells[i].nodes, NEW n \in cells[i].nodes
          PROVE  cellsToPartition[m] = cellsToPartition[n]
      <4>1. m \in NodeID /\ n \in NodeID
        BY <1>8, <3>1, Zenon
      <4>2. cellsToPartition[m] = i /\ cellsToPartition[n] = i
        BY <1>3, <1>4, <3>1, <4>1, Zenon DEF CellsRefine, CellsDisjoint
      <4> QED BY <4>2, Zenon
    <3>2. partitions'[l] = cellsToPartition
      BY <1>7, <2>1, Zenon
    <3> QED BY <1>2, <3>1, <3>2 DEF CellsInside
  <2>2. CASE l # k
    <3>1. l > k
      BY <1>0, <1>9, <2>2
    <3>2. CellsInside(l)
      BY <1>1, <1>3, <3>1, Zenon DEF CellsRefine
    <3>3. partitions'[l] = partitions[l]
      BY <1>7, <2>2, Zenon
    <3> QED BY <1>2, <3>2, <3>3 DEF CellsInside
  <2> QED BY <2>1, <2>2, Zenon
<1>10. ASSUME NEW l \in Levels \ {Len(max_cell_sizes)}, l >= k, NEW m \in NodeID, NEW n \in NodeID,
              partitions'[l][m] = partitions'[l][n]
       PROVE  partitions'[l + 1][m] = partitions'[l + 1][n]
  <2>1. l \in Levels /\ l + 1 \in Levels /\ l + 1 # k /\ l + 1 > k /\ (l # k => l > k)
    BY <1>0, <1>10
  <2>2. partitions'[l + 1] = partitions[l + 1]
    BY <1>7, <2>1, Zenon
  <2>3. CASE l = k
    <3>1. CellsInside(l + 1)
      BY <1>1, <1>3, <2>1, Zenon DEF CellsRefine
    <3>2. cellsToPartition[m] = cellsToPartition[n]
      BY <1>7, <1>10, <2>3, Zenon
    <3>3. PICK i \in 1..Len(cells) : m \in cells[i].nodes /\ n \in cells[i].nodes
      BY <1>4, <3>2, Zenon
    <3> QED BY <2>2, <3>1, <3>3, ZenonT(30) DEF CellsInside
  <2>4. CASE l # k
    <3>1. Finished(l)
      BY <1>1, <2>1, <2>4, Zenon DEF Finished
    <3>2. partitions[l][m] = partitions[l][n]
      BY <1>7, <1>10, <2>1, <2>4, Zenon
    <3>3. partitions[l + 1][m] = partitions[l + 1][n]
      BY <1>3, <3>1, <3>2, Zenon DEF CellsNested
    <3> QED BY <2>2, <3>3, Zenon
  <2> QED BY <2>3, <2>4, Zenon
<1>11. CASE level > 1
  <2>1. level' = k - 1 /\ stage' = "bisect"
    BY <1>1, <1>2, <1>11, Zenon DEF FinishLevel
  <2>2. k - 1 \in Levels /\ \A l \in Levels : l > k - 1 => l >= k
    BY <1>0, <1>1, <1>11
  <2>3. CellsNested'
    <3>1. \A l \in Levels : Finished(l)' => l >= k
      BY <2>1, <2>2, Zenon DEF Finished
    <3> QED BY <1>10, <3>1, Zenon DEF CellsNested
  <2>4. CellsRefine'
    <3>1. CellsDisjoint'
      BY <1>2, <1>3, Zenon DEF CellsRefine, CellsDisjoint
    <3>2. ASSUME NEW l \in Levels, l > k - 1 PROVE CellsInside(l)'
      BY <1>9, <2>2, <3>2, Zenon
    <3>3. cells' \in Seq(Cell) /\ large' \subseteq 1..Len(cells')
      BY <1>2, <1>3, Zenon DEF CellsRefine
    <3> QED BY <2>1, <3>1, <3>2, <3>3, Zenon DEF CellsRefine
  <2> QED BY <1>2, <1>3, <1>7, <2>1, <2>2, <2>3, <2>4, Zenon DEF NestedInv
<1>12. CASE ~(level > 1)
  <2>1. level' = Len(max_cell_sizes) /\ stage' = "reconnect"
    BY <1>12, Zenon DEF FinishLevel
  <2>2. Len(max_cell_sizes) \in Levels /\ \A l \in Levels : l >= k
    BY <1>0, <1>1, <1>12
  <2>3. CellsNested'
    BY <1>10, <2>2, Zenon DEF CellsNested
  <2> QED BY <1>2, <1>3, <1>7, <2>1, <2>2, <2>3, Zenon DEF NestedInv
<1> QED BY <1>11, <1>12, Zenon
-----------------------------------------------------------------------------
\* A witness with the fewest border edges exists, so BestWitness is one of the witnesses.
LEMMA BestIsWitness ==
  ASSUME input \in Inputs, level \in Nat, NEW n, Witnesses(n) # {}
  PROVE  BestWitness(n) \in Witnesses(n) /\ Witnesses(n) \subseteq NodeID
<1> DEFINE adjacent == AdjacentEdges(BaseGraph, n)
           W == Witnesses(n)
           cost == [w \in W |-> InducedBorderEdges(n, w)]
<1>1. IsFiniteSet(adjacent) /\ \A e \in adjacent : e.target \in NodeID
  <2>1. IsFiniteSet(BaseGraph) /\ \A e \in BaseGraph : e.target \in NodeID
    BY LoadedGraph, Zenon DEF GraphOf
  <2>2. adjacent \in SUBSET BaseGraph
    BY Zenon DEF AdjacentEdges
  <2> HIDE DEF adjacent
  <2>3. IsFiniteSet(adjacent)
    BY <2>1, <2>2, FS_Subset, Zenon
  <2> QED BY <2>1, <2>2, <2>3, Zenon
<1>2. W \subseteq NodeID
  <2>1. \A w \in W : \E e \in adjacent : w = e.target
    BY Zenon DEF Witnesses
  <2> HIDE DEF adjacent, W
  <2> QED BY <1>1, <2>1, Zenon
<1>3. ASSUME NEW w PROVE InducedBorderEdges(n, w) \in Nat
  <2> DEFINE D == {p \in adjacent \X (1..level) :
                     partitions[p[2]][p[1].target] # partitions[p[2]][w]}
             P == adjacent \X (1..level)
  <2>1. InducedBorderEdges(n, w) = Cardinality(D)
    BY Zenon DEF InducedBorderEdges
  <2>2. D \in SUBSET P
    BY Zenon
  <2>3. IsFiniteSet(1..level)
    <3>1. 1 \in Int /\ level \in Int
      OBVIOUS
    <3> QED BY <3>1, FS_Interval, Zenon
  <2> HIDE DEF adjacent, D
  <2>4. IsFiniteSet(P)
    BY <1>1, <2>3, FS_Product, Zenon
  <2> HIDE DEF P
  <2>5. IsFiniteSet(D)
    BY <2>2, <2>4, FS_Subset, Zenon
  <2> QED BY <2>1, <2>5, FS_CardinalityType, Zenon
<1>4. W \subseteq Nat
  <2>1. \A m \in NodeID : m \in Nat
    <3>1. NodeID = 0..(Cardinality(NodeID) - 1)
      BY PartitionerAssumption, Zenon
    <3>2. Cardinality(NodeID) \in Nat
      BY PartitionerAssumption, FS_CardinalityType, Zenon
    <3> QED BY <3>1, <3>2
  <2> QED BY <1>2, <2>1, Zenon
<1>5. cost \in [W -> Nat]
  BY <1>3, Zenon
<1>6. PICK w \in W : \A v \in W : cost[w] < cost[v] \/ (cost[w] = cost[v] /\ w <= v)
  <2>1. W # {}
    BY Zenon
  <2> HIDE DEF W, cost
  <2> QED BY <1>4, <1>5, <2>1, FirstCheapest, Zenon
<1>7. \A v \in W : \/ InducedBorderEdges(n, w) < InducedBorderEdges(n, v)
                   \/ InducedBorderEdges(n, w) = InducedBorderEdges(n, v) /\ w <= v
  <2>1. \A v \in W : cost[v] = InducedBorderEdges(n, v)
    BY Zenon
  <2> HIDE DEF W, cost
  <2> QED BY <1>6, <2>1, Zenon
<1>8. BestWitness(n) \in W
  BY <1>7, Zenon DEF BestWitness
<1> QED BY <1>2, <1>8, Zenon

\* The node takes the cells of the witness on this level and below, and they share the
\* cell of the level above.
LEMMA NestedReconnect == ASSUME NestedInv, Reconnect PROVE NestedInv'
<1>0. Len(max_cell_sizes) \in Nat \ {0} /\ Levels = 1..Len(max_cell_sizes)
  BY LevelsAre, Zenon
<1>1. PICK k \in Levels : k = level
  BY Zenon DEF NestedInv
<1>2. PICK u \in NodeID : u = node
  BY Zenon DEF Reconnect
<1>3. /\ stage = "reconnect" /\ stage' = stage /\ input' = input /\ level' = level
      /\ input \in Inputs /\ CellsNested /\ partitions \in [Levels -> [NodeID -> Int]]
  BY Zenon DEF Reconnect, NestedInv
<1>4. ASSUME NEW l \in Levels \ {Len(max_cell_sizes)}, NEW m \in NodeID, NEW n \in NodeID,
             partitions[l][m] = partitions[l][n]
      PROVE  partitions[l + 1][m] = partitions[l + 1][n]
  BY <1>3, <1>4, Zenon DEF CellsNested, Finished
<1>5. CASE ~(IsUnconnected(node) /\ Witnesses(node) # {})
  <2>1. partitions' = partitions
    BY <1>5, Zenon DEF Reconnect
  <2>2. CellsNested'
    BY <1>4, <2>1, Zenon DEF CellsNested
  <2> QED BY <1>1, <1>3, <2>1, <2>2, Zenon DEF NestedInv
<1>6. CASE IsUnconnected(node) /\ Witnesses(node) # {}
  <2>1. PICK w \in NodeID : w = BestWitness(node) /\ w \in Witnesses(node)
    <3>1. level \in Nat
      BY <1>0, <1>1
    <3> QED BY <1>3, <1>6, <3>1, BestIsWitness, Zenon
  <2>2. k < Len(max_cell_sizes) => partitions[k + 1][w] = partitions[k + 1][u]
    BY <1>1, <1>2, <2>1, Zenon DEF Witnesses
  <2>3. partitions' = [l \in Levels |-> IF l > k THEN partitions[l]
                         ELSE [partitions[l] EXCEPT ![u] = partitions[l][w]]]
    BY <1>1, <1>2, <1>6, <2>1, Zenon DEF Reconnect
  <2>4. ASSUME NEW l \in Levels, NEW n \in NodeID
        PROVE  /\ partitions'[l] \in [NodeID -> Int]
               /\ partitions'[l][n] = IF l > k \/ n # u THEN partitions[l][n] ELSE partitions[l][w]
    <3>1. partitions[l] \in [NodeID -> Int]
      BY <1>3, Zenon
    <3>2. CASE l > k
      <4>1. partitions'[l] = partitions[l]
        BY <2>3, <3>2, Zenon
      <4> QED BY <3>1, <3>2, <4>1, Zenon
    <3>3. CASE ~(l > k)
      <4>1. partitions'[l] = [partitions[l] EXCEPT ![u] = partitions[l][w]]
        BY <2>3, <3>3, Zenon
      <4>2. partitions[l][w] \in Int
        BY <3>1, Zenon
      <4> QED BY <3>1, <3>3, <4>1, <4>2, Zenon
    <3> QED BY <3>2, <3>3, Zenon
  <2>5. partitions' \in [Levels -> [NodeID -> Int]]
    <3>1. \A l \in Levels : partitions'[l] \in [NodeID -> Int]
      BY <1>2, <2>4, Zenon
    <3>2. partitions' = [l \in Levels |-> partitions'[l]]
      BY <2>3, Zenon
    <3> QED BY <3>1, <3>2, Zenon
  <2>6. ASSUME NEW l \in Levels \ {Len(max_cell_sizes)}, NEW m \in NodeID, NEW n \in NodeID,
               partitions'[l][m] = partitions'[l][n]
        PROVE  partitions'[l + 1][m] = partitions'[l + 1][n]
    <3>0. l \in Levels /\ l + 1 \in Levels /\ l < Len(max_cell_sizes)
          /\ (l > k => l + 1 > k) /\ (~(l > k) /\ l + 1 > k => l = k)
      BY <1>0
    <3>1. PICK a, b \in NodeID : a = (IF m = u THEN w ELSE m) /\ b = (IF n = u THEN w ELSE n)
      BY Zenon
    <3>2. CASE l > k
      <4>1. partitions[l][m] = partitions[l][n]
        BY <2>4, <2>6, <3>0, <3>2, Zenon
      <4>2. partitions[l + 1][m] = partitions[l + 1][n]
        BY <1>4, <4>1, Zenon
      <4> QED BY <2>4, <3>0, <3>2, <4>2, Zenon
    <3>3. CASE ~(l > k)
      <4>1. partitions'[l][m] = partitions[l][a] /\ partitions'[l][n] = partitions[l][b]
        BY <2>4, <3>0, <3>1, <3>3, Zenon
      <4>2. partitions[l + 1][a] = partitions[l + 1][b]
        <5>1. partitions[l][a] = partitions[l][b]
          BY <2>6, <4>1, Zenon
        <5> QED BY <1>4, <5>1, Zenon
      <4>3. CASE ~(l + 1 > k)
        <5>1. /\ partitions'[l + 1][m] = partitions[l + 1][a]
              /\ partitions'[l + 1][n] = partitions[l + 1][b]
          BY <2>4, <3>0, <3>1, <4>3, Zenon
        <5> QED BY <4>2, <5>1, Zenon
      <4>4. CASE l + 1 > k
        <5>1. /\ partitions'[l + 1][m] = partitions[l + 1][m]
              /\ partitions'[l + 1][n] = partitions[l + 1][n]
          BY <2>4, <3>0, <4>4, Zenon
        <5>2. partitions[l + 1][w] = partitions[l + 1][u]
          BY <2>2, <3>0, <3>3, <4>4, Zenon
        <5>3. partitions[l + 1][a] = partitions[l + 1][m] /\ partitions[l + 1][b] = partitions[l + 1][n]
          BY <3>1, <5>2, Zenon
        <5> QED BY <4>2, <5>1, <5>3, Zenon
      <4> QED BY <4>3, <4>4, Zenon
    <3> QED BY <3>2, <3>3, Zenon
  <2>7. CellsNested'
    BY <2>6, Zenon DEF CellsNested
  <2> QED BY <1>1, <1>3, <2>5, <2>7, Zenon DEF NestedInv
<1> QED BY <1>5, <1>6, Zenon

LEMMA NestedDone == ASSUME NestedInv, FinishReconnect PROVE NestedInv'
<1>0. Len(max_cell_sizes) \in Nat \ {0} /\ Levels = 1..Len(max_cell_sizes) /\ level \in Levels
  BY LevelsAre, Zenon DEF NestedInv
<1>1. /\ stage = "reconnect" /\ input' = input /\ partitions' = partitions
      /\ input \in Inputs /\ partitions \in [Levels -> [NodeID -> Int]]
  BY Zenon DEF FinishReconnect, NestedInv
<1>2. stage' \in {"reconnect", "renumber"} /\ stage' # "bisect"
  BY <1>1 DEF FinishReconnect
<1>3. level' \in Levels
  <2>1. level > 1 => level' = level - 1
    BY Zenon DEF FinishReconnect
  <2>2. ~(level > 1) => level' = level
    BY Zenon DEF FinishReconnect
  <2> QED BY <1>0, <2>1, <2>2
<1>4. CellsNested'
  <2>1. stage # "bisect" /\ CellsNested
    BY <1>1, Zenon DEF NestedInv
  <2> QED BY <1>1, <2>1, Zenon DEF CellsNested, Finished
<1>5. stage' \in {"bisect", "reconnect", "renumber", "partitioned"}
  BY <1>2, Zenon
<1> QED BY <1>1, <1>2, <1>3, <1>4, <1>5, Zenon DEF NestedInv
-----------------------------------------------------------------------------
(***************************************************************************)
(* The order of the nodes, makePermutation's comparison.                   *)
(***************************************************************************)
\* The nodes share all of their cells, or part at a level where the cell of m comes first.
CellsBefore(m, n) ==
  \/ m < n /\ \A l \in Levels : partitions[l][m] = partitions[l][n]
  \/ \E l \in Levels : /\ partitions[l][m] < partitions[l][n]
                       /\ \A k \in Levels : k > l => partitions[k][m] = partitions[k][n]

LEMMA BorderLevelType ==
  ASSUME NEW n
  PROVE  getHighestBorderLevel(n) \in Nat
<1> DEFINE B == {0} \cup {l \in Levels : \E e \in BaseGraph :
                   n \in {e.source, e.target} /\ partitions[l][e.source] # partitions[l][e.target]}
<1>1. Len(max_cell_sizes) \in Nat /\ Levels = 1..Len(max_cell_sizes)
  BY LevelsAre, Zenon
<1>2. B # {} /\ B \subseteq {0} \cup Levels
  BY Zenon
<1>3. getHighestBorderLevel(n) = Max(B)
  BY Zenon DEF getHighestBorderLevel
<1> HIDE DEF B
<1>4. B \subseteq 0..Len(max_cell_sizes)
  BY <1>1, <1>2
<1>5. Max(B) \in B
  BY <1>1, <1>2, <1>4, MaxOf, Zenon
<1>6. \A x \in 0..Len(max_cell_sizes) : x \in Nat
  BY <1>1
<1> QED BY <1>3, <1>4, <1>5, <1>6, Zenon

LEMMA OrderedIs ==
  ASSUME partitions \in [Levels -> [NodeID -> Int]], NEW m \in NodeID, NEW n \in NodeID
  PROVE  OrderedBefore(m, n) <=>
           \/ getHighestBorderLevel(m) > getHighestBorderLevel(n)
           \/ getHighestBorderLevel(m) = getHighestBorderLevel(n) /\ CellsBefore(m, n)
<1> DEFINE differ == {l \in Levels : partitions[l][m] # partitions[l][n]}
           d == Max(differ)
<1>1. Len(max_cell_sizes) \in Nat /\ Levels = 1..Len(max_cell_sizes)
  BY LevelsAre, Zenon
<1>2. ASSUME NEW l \in Levels PROVE partitions[l][m] \in Int /\ partitions[l][n] \in Int
  BY Zenon
<1>3. (IF differ = {} THEN m < n ELSE partitions[d][m] < partitions[d][n]) <=> CellsBefore(m, n)
  <2>1. CASE differ = {}
    <3>1. \A l \in Levels : partitions[l][m] = partitions[l][n]
      BY <2>1, Zenon
    <3>2. \A l \in Levels : ~(partitions[l][m] < partitions[l][n])
      BY <1>2, <3>1
    <3> QED BY <2>1, <3>1, <3>2, Zenon DEF CellsBefore
  <2>2. CASE differ # {}
    <3>1. d \in differ /\ \A l \in differ : l <= d
      <4>1. differ \subseteq 0..Len(max_cell_sizes)
        BY <1>1
      <4> HIDE DEF differ
      <4> QED BY <1>1, <2>2, <4>1, MaxOf, Zenon
    <3>2. d \in Levels /\ partitions[d][m] # partitions[d][n]
      BY <3>1, Zenon
    <3>3. \A l \in Levels : partitions[l][m] # partitions[l][n] => l <= d
      BY <3>1, Zenon
    <3> HIDE DEF d, differ
    <3>4. \A l \in Levels : l > d => partitions[l][m] = partitions[l][n]
      BY <1>1, <3>2, <3>3
    <3>5. CellsBefore(m, n) => partitions[d][m] < partitions[d][n]
      <4> SUFFICES ASSUME NEW l \in Levels, partitions[l][m] < partitions[l][n],
                          \A k \in Levels : k > l => partitions[k][m] = partitions[k][n]
                   PROVE  partitions[d][m] < partitions[d][n]
        BY <3>2, Zenon DEF CellsBefore
      <4>1. partitions[l][m] # partitions[l][n]
        BY <1>2
      <4>2. l <= d
        BY <3>3, <4>1, Zenon
      <4>3. ~(d > l)
        BY <3>2, Zenon
      <4>4. l = d
        BY <1>1, <3>2, <4>2, <4>3
      <4> QED BY <4>4, Zenon
    <3>6. partitions[d][m] < partitions[d][n] => CellsBefore(m, n)
      BY <3>2, <3>4, Zenon DEF CellsBefore
    <3> QED BY <2>2, <3>5, <3>6, Zenon
  <2> QED BY <2>1, <2>2, Zenon
<1> HIDE DEF d
<1>4. OrderedBefore(m, n) <=>
        \/ getHighestBorderLevel(m) > getHighestBorderLevel(n)
        \/ /\ getHighestBorderLevel(m) = getHighestBorderLevel(n)
           /\ IF differ = {} THEN m < n ELSE partitions[d][m] < partitions[d][n]
  BY Zenon DEF OrderedBefore, d
<1> HIDE DEF differ
<1> QED BY <1>3, <1>4, Zenon

\* The cells, compared from the highest level down, order the nodes strictly and totally.
LEMMA CellsOrder ==
  ASSUME partitions \in [Levels -> [NodeID -> Int]]
  PROVE  /\ \A m \in NodeID : ~CellsBefore(m, m)
         /\ \A m, n \in NodeID : m # n => CellsBefore(m, n) \/ CellsBefore(n, m)
         /\ \A m, n, o \in NodeID : CellsBefore(m, n) /\ CellsBefore(n, o) => CellsBefore(m, o)
<1>1. Len(max_cell_sizes) \in Nat /\ Levels = 1..Len(max_cell_sizes)
  BY LevelsAre, Zenon
<1>2. ASSUME NEW l \in Levels, NEW m \in NodeID PROVE partitions[l][m] \in Int
  BY Zenon
<1>3. NodeID \subseteq Int
  <2>1. NodeID = 0..(Cardinality(NodeID) - 1)
    BY PartitionerAssumption, Zenon
  <2>2. Cardinality(NodeID) \in Nat
    BY PartitionerAssumption, FS_CardinalityType, Zenon
  <2> QED BY <2>1, <2>2
<1>4. ASSUME NEW m \in NodeID PROVE ~CellsBefore(m, m)
  <2>1. ~(m < m) /\ \A l \in Levels : ~(partitions[l][m] < partitions[l][m])
    BY <1>2, <1>3
  <2> QED BY <2>1, Zenon DEF CellsBefore
<1>5. ASSUME NEW m \in NodeID, NEW n \in NodeID, m # n
      PROVE  CellsBefore(m, n) \/ CellsBefore(n, m)
  <2> DEFINE differ == {l \in Levels : partitions[l][m] # partitions[l][n]}
  <2>1. CASE differ = {}
    <3>1. \A l \in Levels : partitions[l][m] = partitions[l][n]
      BY <2>1, Zenon
    <3>2. m < n \/ n < m
      BY <1>3, <1>5
    <3> QED BY <3>1, <3>2, Zenon DEF CellsBefore
  <2>2. CASE differ # {}
    <3>1. PICK d \in differ : \A l \in differ : l <= d
      <4>1. differ \subseteq 0..Len(max_cell_sizes)
        BY <1>1
      <4> HIDE DEF differ
      <4> QED BY <1>1, <2>2, <4>1, MaxOf, Zenon
    <3>2. d \in Levels /\ partitions[d][m] # partitions[d][n]
      BY <3>1, Zenon
    <3>3. \A l \in Levels : partitions[l][m] # partitions[l][n] => l <= d
      BY <3>1, Zenon
    <3> HIDE DEF differ
    <3>4. \A l \in Levels : l > d => partitions[l][m] = partitions[l][n]
      BY <1>1, <3>2, <3>3
    <3>5. partitions[d][m] < partitions[d][n] \/ partitions[d][n] < partitions[d][m]
      <4>1. partitions[d][m] \in Int /\ partitions[d][n] \in Int
        BY <1>2, <3>2, Zenon
      <4> QED BY <3>2, <4>1
    <3>6. \A l \in Levels : l > d => partitions[l][n] = partitions[l][m]
      BY <3>4, Zenon
    <3> QED BY <3>2, <3>4, <3>5, <3>6, Zenon DEF CellsBefore
  <2> QED BY <2>1, <2>2, Zenon
<1>6. ASSUME NEW m \in NodeID, NEW n \in NodeID, NEW o \in NodeID, CellsBefore(m, n), CellsBefore(n, o)
      PROVE  CellsBefore(m, o)
  <2>1. CASE m < n /\ \A l \in Levels : partitions[l][m] = partitions[l][n]
    <3>1. CASE n < o /\ \A l \in Levels : partitions[l][n] = partitions[l][o]
      <4>1. m < o
        BY <1>3, <2>1, <3>1
      <4> QED BY <2>1, <3>1, <4>1, Zenon DEF CellsBefore
    <3>2. ASSUME NEW l \in Levels, partitions[l][n] < partitions[l][o],
                 \A k \in Levels : k > l => partitions[k][n] = partitions[k][o]
          PROVE  CellsBefore(m, o)
      <4>1. partitions[l][m] < partitions[l][o]
        BY <2>1, <3>2, Zenon
      <4>2. \A k \in Levels : k > l => partitions[k][m] = partitions[k][o]
        BY <2>1, <3>2, Zenon
      <4> QED BY <4>1, <4>2, Zenon DEF CellsBefore
    <3> QED BY <1>6, <3>1, <3>2, Zenon DEF CellsBefore
  <2>2. ASSUME NEW k \in Levels, partitions[k][m] < partitions[k][n],
               \A j \in Levels : j > k => partitions[j][m] = partitions[j][n]
        PROVE  CellsBefore(m, o)
    <3>1. CASE n < o /\ \A l \in Levels : partitions[l][n] = partitions[l][o]
      <4>1. partitions[k][m] < partitions[k][o]
        BY <2>2, <3>1, Zenon
      <4>2. \A j \in Levels : j > k => partitions[j][m] = partitions[j][o]
        BY <2>2, <3>1, Zenon
      <4> QED BY <4>1, <4>2, Zenon DEF CellsBefore
    <3>2. ASSUME NEW l \in Levels, partitions[l][n] < partitions[l][o],
                 \A j \in Levels : j > l => partitions[j][n] = partitions[j][o]
          PROVE  CellsBefore(m, o)
      <4>1. PICK h \in {k, l} : h >= k /\ h >= l /\ (h = k => k >= l)
        BY <1>1
      <4>2. h \in Levels
        BY Zenon
      <4>3. ASSUME NEW j \in Levels, j > h PROVE partitions[j][m] = partitions[j][o]
        <5>1. j > k /\ j > l
          BY <1>1, <4>1, <4>2, <4>3
        <5> QED BY <2>2, <3>2, <5>1, Zenon
      <4>4. partitions[h][m] < partitions[h][o]
        <5>0. partitions[h][m] \in Int /\ partitions[h][n] \in Int /\ partitions[h][o] \in Int
          BY <1>2, <4>2, Zenon
        <5>1. CASE k = l
          <6>1. h = k
            BY <5>1, Zenon
          <6>2. partitions[h][m] < partitions[h][n] /\ partitions[h][n] < partitions[h][o]
            BY <2>2, <3>2, <5>1, <6>1, Zenon
          <6> QED BY <5>0, <6>2
        <5>2. CASE k > l
          <6>1. h = k
            BY <1>1, <4>1, <5>2
          <6>2. partitions[h][m] < partitions[h][n] /\ partitions[h][n] = partitions[h][o]
            BY <2>2, <3>2, <5>2, <6>1, Zenon
          <6> QED BY <6>2, Zenon
        <5>3. CASE l > k
          <6>1. h = l
            BY <1>1, <4>1, <5>3
          <6>2. partitions[h][m] = partitions[h][n] /\ partitions[h][n] < partitions[h][o]
            BY <2>2, <3>2, <5>3, <6>1, Zenon
          <6> QED BY <6>2, Zenon
        <5> QED BY <1>1, <5>1, <5>2, <5>3
      <4> QED BY <4>2, <4>3, <4>4, Zenon DEF CellsBefore
    <3> QED BY <1>6, <3>1, <3>2, Zenon DEF CellsBefore
  <2> QED BY <1>6, <2>1, <2>2, Zenon DEF CellsBefore
<1> QED BY <1>4, <1>5, <1>6, Zenon

\* Every id is the new id of a node.
LEMMA PermutationOnto ==
  ASSUME partitions \in [Levels -> [NodeID -> Int]], NEW n \in NodeID
  PROVE  \E m \in NodeID : makePermutation[m] = n
<1> DEFINE R == {p \in NodeID \X NodeID : OrderedBefore(p[1], p[2])}
<1>1. ASSUME NEW x \in NodeID, NEW y \in NodeID PROVE <<x, y>> \in R <=> OrderedBefore(x, y)
  BY Zenon
<1>2. ASSUME NEW x \in NodeID, NEW y \in NodeID
      PROVE  <<x, y>> \in R <=>
               \/ getHighestBorderLevel(x) > getHighestBorderLevel(y)
               \/ getHighestBorderLevel(x) = getHighestBorderLevel(y) /\ CellsBefore(x, y)
  <2> HIDE DEF R
  <2> QED BY <1>1, OrderedIs, Zenon
<1> HIDE DEF R
<1>3. ASSUME NEW x PROVE getHighestBorderLevel(x) \in Nat
  BY BorderLevelType, Zenon
<1>4. ASSUME NEW x \in NodeID PROVE <<x, x>> \notin R
  <2>1. ~(getHighestBorderLevel(x) > getHighestBorderLevel(x))
    BY <1>3
  <2> QED BY <1>2, <2>1, CellsOrder, Zenon
<1>5. ASSUME NEW x \in NodeID, NEW y \in NodeID, x # y PROVE <<x, y>> \in R \/ <<y, x>> \in R
  <2>1. \/ getHighestBorderLevel(x) > getHighestBorderLevel(y)
        \/ getHighestBorderLevel(y) > getHighestBorderLevel(x)
        \/ getHighestBorderLevel(x) = getHighestBorderLevel(y)
    BY <1>3
  <2>2. CellsBefore(x, y) \/ CellsBefore(y, x)
    BY <1>5, CellsOrder, Zenon
  <2> QED BY <1>2, <2>1, <2>2, Zenon
<1>6. ASSUME NEW x \in NodeID, NEW y \in NodeID, NEW z \in NodeID, <<x, y>> \in R, <<y, z>> \in R
      PROVE  <<x, z>> \in R
  <2>1. PICK hx \in Nat : hx = getHighestBorderLevel(x)
    BY <1>3, Zenon
  <2>2. PICK hy \in Nat : hy = getHighestBorderLevel(y)
    BY <1>3, Zenon
  <2>3. PICK hz \in Nat : hz = getHighestBorderLevel(z)
    BY <1>3, Zenon
  <2>4. /\ hx > hy \/ (hx = hy /\ CellsBefore(x, y))
        /\ hy > hz \/ (hy = hz /\ CellsBefore(y, z))
    BY <1>2, <1>6, <2>1, <2>2, <2>3, Zenon
  <2>5. hx > hz \/ (hx = hz /\ hx = hy /\ hy = hz)
    BY <2>4
  <2>6. hx = hy /\ hy = hz => ~(hx > hy) /\ ~(hy > hz)
    OBVIOUS
  <2>7. hx > hz \/ (hx = hz /\ CellsBefore(x, z))
    BY <2>4, <2>5, <2>6, CellsOrder, Zenon
  <2> QED BY <1>2, <2>1, <2>3, <2>7, Zenon
<1>7. \E m \in NodeID : Cardinality({y \in NodeID : <<y, m>> \in R}) = n
  <2>1. StrictOrder(R)
    BY <1>4, <1>5, <1>6, Zenon DEF StrictOrder
  <2>2. PICK Q : Q = R
    BY Zenon
  <2>3. StrictOrder(Q)
    BY <2>1, <2>2, Zenon
  <2>4. \E x \in NodeID : Rank(Q, x) = n
    BY <2>3, RanksTaken, Zenon
  <2> QED BY <2>2, <2>4, Zenon DEF Rank
<1>8. PICK m \in NodeID : Cardinality({y \in NodeID : <<y, m>> \in R}) = n
  BY <1>7, Zenon
<1>9. {y \in NodeID : <<y, m>> \in R} = {y \in NodeID : OrderedBefore(y, m)}
  BY <1>1, Zenon
<1>10. makePermutation[m] = Cardinality({y \in NodeID : OrderedBefore(y, m)})
  BY Zenon DEF makePermutation
<1> QED BY <1>8, <1>9, <1>10, Zenon

\* The partition of a node is found at its new id.
LEMMA NestedRenumber == ASSUME NestedInv, Renumber PROVE NestedInv'
<1>1. /\ stage = "renumber" /\ stage' = "partitioned" /\ level' = level /\ level \in Levels
      /\ partitions \in [Levels -> [NodeID -> Int]] /\ CellsNested
  BY Zenon DEF Renumber, NestedInv
<1>2. partitions' = [l \in Levels |-> Permuted(partitions[l], makePermutation)]
  BY Zenon DEF Renumber
<1> DEFINE Old(n) == CHOOSE m \in NodeID : makePermutation[m] = n
<1>3. ASSUME NEW n \in NodeID PROVE Old(n) \in NodeID
  BY <1>1, PermutationOnto, Zenon
<1>4. ASSUME NEW l \in Levels, NEW n \in NodeID PROVE partitions'[l][n] = partitions[l][Old(n)]
  <2>1. partitions'[l] = Permuted(partitions[l], makePermutation)
    BY <1>2, Zenon
  <2>2. Permuted(partitions[l], makePermutation) = [i \in NodeID |-> partitions[l][Old(i)]]
    BY Zenon DEF Permuted
  <2> HIDE DEF Old
  <2> QED BY <2>1, <2>2, Zenon
<1>5. partitions' \in [Levels -> [NodeID -> Int]]
  <2>1. ASSUME NEW l \in Levels PROVE Permuted(partitions[l], makePermutation) \in [NodeID -> Int]
    <3>1. partitions[l] \in [NodeID -> Int]
      BY <1>1, Zenon
    <3>2. \A n \in NodeID : partitions[l][Old(n)] \in Int
      <4> HIDE DEF Old
      <4> QED BY <1>3, <3>1, Zenon
    <3>3. Permuted(partitions[l], makePermutation) = [i \in NodeID |-> partitions[l][Old(i)]]
      BY Zenon DEF Permuted
    <3> HIDE DEF Old
    <3> QED BY <3>2, <3>3, Zenon
  <2> QED BY <1>2, <2>1, Zenon
<1> HIDE DEF Old
<1>6. ASSUME NEW l \in Levels \ {Len(max_cell_sizes)}, NEW m \in NodeID, NEW n \in NodeID,
             partitions'[l][m] = partitions'[l][n]
      PROVE  partitions'[l + 1][m] = partitions'[l + 1][n]
  <2>0. l \in Levels /\ l + 1 \in Levels
    BY LevelsAre
  <2>1. PICK a, b \in NodeID : a = Old(m) /\ b = Old(n)
    BY <1>3, Zenon
  <2>2. partitions[l][a] = partitions[l][b]
    BY <1>4, <1>6, <2>0, <2>1, Zenon
  <2>3. partitions[l + 1][a] = partitions[l + 1][b]
    <3>1. Finished(l)
      BY <1>1 DEF Finished
    <3> QED BY <1>1, <2>2, <3>1, Zenon DEF CellsNested
  <2> QED BY <1>4, <2>0, <2>1, <2>3, Zenon
<1>7. CellsNested'
  BY <1>6, Zenon DEF CellsNested
<1> QED BY <1>1, <1>5, <1>7 DEF NestedInv
-----------------------------------------------------------------------------
(***************************************************************************)
(* Cells are nested in every state of osrm-partition: while levels are cut *)
(* from the bisection, while removeUnconnectedBoundaryNodes moves nodes,   *)
(* and after the nodes are renumbered.                                     *)
(***************************************************************************)
THEOREM CellsStayNested == PartitionSpec => []CellsNested
<1>1. PartitionInit => NestedInv
  BY NestedInit
<1>2. NestedInv /\ [PartitionNext]_partitionVars => NestedInv'
  <2> SUFFICES ASSUME NestedInv, [PartitionNext]_partitionVars PROVE NestedInv'
    OBVIOUS
  <2>1. CASE UNCHANGED partitionVars
    <3>1. /\ input' = input /\ stage' = stage /\ cells' = cells /\ large' = large /\ level' = level
          /\ partitions' = partitions
      BY <2>1, Zenon DEF partitionVars
    <3>2. CellsNested'
      BY <3>1, Zenon DEF NestedInv, CellsNested, Finished
    <3>3. CellsRefine => CellsRefine'
      <4> SUFFICES ASSUME CellsRefine PROVE CellsRefine'
        OBVIOUS
      <4>1. CellsDisjoint'
        BY <3>1, Zenon DEF CellsRefine, CellsDisjoint
      <4>2. ASSUME NEW l \in Levels, l > level PROVE CellsInside(l)'
        <5>1. CellsInside(l)
          BY <4>2, Zenon DEF CellsRefine
        <5> QED BY <3>1, <5>1 DEF CellsInside
      <4> QED BY <3>1, <4>1, <4>2, Zenon DEF CellsRefine
    <3> QED BY <3>1, <3>2, <3>3, Zenon DEF NestedInv
  <2> QED BY <2>1, NestedRound, NestedSplit, NestedFinish, NestedReconnect, NestedDone,
             NestedRenumber, Zenon DEF PartitionNext
<1>3. NestedInv => CellsNested
  BY Zenon DEF NestedInv
<1> QED BY <1>1, <1>2, <1>3, PTL DEF PartitionSpec
=============================================================================
