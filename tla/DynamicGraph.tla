---------------------------- MODULE DynamicGraph -----------------------------
(***************************************************************************)
(* util::DynamicGraph (dynamic_graph.hpp): the adjacency array that the    *)
(* contractor and the graph compressor change in place.                    *)
(*                                                                         *)
(* Every node has a block of slots in edge_list. Slots of no block are     *)
(* dummies; a block grows into a dummy on its right or on its left, or     *)
(* moves to the end of the list. Blocks of no edges may lie anywhere, also *)
(* within another block. A slot is Dummy or an edge, a pair of target and  *)
(* data.                                                                   *)
(***************************************************************************)
EXTENDS Integers, Sequences, FiniteSets

CONSTANTS NumberOfNodes,   \* number_of_nodes
          EdgeData,        \* the data of edges
          Dummy,           \* a slot whose target is the largest NodeIterator
          MaxEdges,        \* bound on the edges of the graph
          MaxSlots         \* bound on the size of edge_list

ASSUME GraphAssumption ==
  /\ NumberOfNodes \in Nat \ {0} /\ MaxEdges \in Nat /\ MaxSlots \in Nat
  /\ Dummy \notin (0..(NumberOfNodes - 1)) \X EdgeData

NodeIterator == 0..(NumberOfNodes - 1)
Edge == NodeIterator \X EdgeData

VARIABLES first_edge,       \* of each node: the first slot of its block
          edges,            \* of each node: the size of its block
          edge_list,        \* the slots, from 0 on
          size,             \* edge_list.size()
          number_of_edges,  \* as counted by the graph
          recount           \* the count is that of the graph that was filtered

graphVars == <<first_edge, edges, edge_list, size, number_of_edges, recount>>

\* GetAdjacentEdgeRange
Block(n) == first_edge[n]..(first_edge[n] + edges[n] - 1)
isDummy(p) == edge_list[p] = Dummy
-----------------------------------------------------------------------------
(***************************************************************************)
(* Constructor, Filter and Renumber put the blocks one after the other. An *)
(* adjacency maps each node to the sequence of its edges.                  *)
(***************************************************************************)
Adjacency == [n \in NodeIterator |->
               [i \in 1..edges[n] |-> edge_list[first_edge[n] + i - 1]]]

\* Where the block of each node begins, and after the last one the size of the list.
Offset(adjacency) ==
  LET sum[n \in 0..NumberOfNodes] ==
        IF n = 0 THEN 0 ELSE sum[n - 1] + Len(adjacency[n - 1])
  IN sum

Slots(adjacency) ==
  LET offset == Offset(adjacency)
      Owner(p) == CHOOSE n \in NodeIterator : offset[n] <= p /\ p < offset[n + 1]
  IN [p \in 0..(offset[NumberOfNodes] - 1) |-> adjacency[Owner(p)][p - offset[Owner(p)] + 1]]

Packed(adjacency) ==
  /\ first_edge' = [n \in NodeIterator |-> Offset(adjacency)[n]]
  /\ edges' = [n \in NodeIterator |-> Len(adjacency[n])]
  /\ edge_list' = Slots(adjacency)
  /\ size' = Offset(adjacency)[NumberOfNodes]

\* copy_if: the edges of a block that lead to kept nodes, in their order.
Copied(n, keep) ==
  LET kept == {p \in Block(n) : edge_list[p][1] \in keep}
      Nth(i) == CHOOSE p \in kept : Cardinality({q \in kept : q < p}) = i - 1
  IN [i \in 1..Cardinality(kept) |-> edge_list[Nth(i)]]

\* The count of edges is taken over from the graph that is filtered.
Filter(keep) ==
  /\ Packed([n \in NodeIterator |-> IF n \in keep THEN Copied(n, keep) ELSE << >>])
  /\ recount' = TRUE
  /\ UNCHANGED number_of_edges

\* Mutant: the count stays that of the graph that was filtered.
RenumberUncounted(old_to_new) ==
  /\ Packed([n \in NodeIterator |->
               LET old == CHOOSE m \in NodeIterator : old_to_new[m] = n
               IN [i \in 1..edges[old] |-> <<old_to_new[Adjacency[old][i][1]],
                                             Adjacency[old][i][2]>>]])
  /\ recount' = FALSE
  /\ UNCHANGED number_of_edges

Renumber(old_to_new) ==
  /\ Packed([n \in NodeIterator |->
               LET old == CHOOSE m \in NodeIterator : old_to_new[m] = n
               IN [i \in 1..edges[old] |-> <<old_to_new[Adjacency[old][i][1]],
                                             Adjacency[old][i][2]>>]])
  /\ number_of_edges' = size'
  /\ recount' = FALSE
-----------------------------------------------------------------------------
(***************************************************************************)
(* InsertEdge has three cases: the slot after the block is free, the slot  *)
(* before it is (the last edge moves there and leaves its own), or the     *)
(* block has to move.                                                      *)
(***************************************************************************)
FreeAfter(n) == LET next == first_edge[n] + edges[n] IN next # size /\ isDummy(next)
FreeBefore(n) == first_edge[n] # 0 /\ isDummy(first_edge[n] - 1)

NewSize(n) == (11 * edges[n]) \div 10 + 2

Inserted(n) == /\ edges' = [edges EXCEPT ![n] = @ + 1]
               /\ number_of_edges' = number_of_edges + 1
               /\ UNCHANGED recount

InsertAfter(n, e) ==
  /\ FreeAfter(n)
  /\ edge_list' = [edge_list EXCEPT ![first_edge[n] + edges[n]] = e]
  /\ Inserted(n)
  /\ UNCHANGED <<first_edge, size>>

\* Mutant: the last edge is overwritten.
InsertBeforeUnmoved(n, e) ==
  LET first == first_edge[n] - 1
  IN /\ ~FreeAfter(n) /\ FreeBefore(n)
     /\ edge_list' = [edge_list EXCEPT ![first + edges[n]] = e]
     /\ first_edge' = [first_edge EXCEPT ![n] = first]
     /\ Inserted(n)
     /\ UNCHANGED size

InsertBefore(n, e) ==
  LET first == first_edge[n] - 1
      last == first + edges[n]
  IN /\ ~FreeAfter(n) /\ FreeBefore(n)
     /\ edge_list' = [edge_list EXCEPT ![first] = edge_list[last], ![last] = e]
     /\ first_edge' = [first_edge EXCEPT ![n] = first]
     /\ Inserted(n)
     /\ UNCHANGED size

InsertMoving(n, e) ==
  /\ ~FreeAfter(n) /\ ~FreeBefore(n)
  /\ size' = size + NewSize(n)
  /\ edge_list' = [p \in 0..(size + NewSize(n) - 1) |->
                     IF p \in Block(n) THEN Dummy
                     ELSE IF p < size THEN edge_list[p]
                     ELSE IF p < size + edges[n] THEN edge_list[first_edge[n] + p - size]
                     ELSE IF p = size + edges[n] THEN e
                     ELSE Dummy]
  /\ first_edge' = [first_edge EXCEPT ![n] = size]
  /\ Inserted(n)

InsertEdge(n, e) == InsertAfter(n, e) \/ InsertBefore(n, e) \/ InsertMoving(n, e)

\* The last edge of the block takes the place of the deleted one.
DeleteEdge(n, p) ==
  LET last == first_edge[n] + edges[n] - 1
  IN /\ edge_list' = [edge_list EXCEPT ![p] = edge_list[last], ![last] = Dummy]
     /\ edges' = [edges EXCEPT ![n] = @ - 1]
     /\ number_of_edges' = number_of_edges - 1
     /\ UNCHANGED <<first_edge, size, recount>>

(***************************************************************************)
(* DeleteEdgesTo fills each deleted slot, from the left, with the last     *)
(* edge of the block that stays: the first hole gets the last survivor,    *)
(* and so on.                                                              *)
(***************************************************************************)
DeleteEdgesTo(n, target) ==
  LET deleted == {p \in Block(n) : edge_list[p][1] = target}
      stay == Block(n) \ deleted
      end == first_edge[n] + Cardinality(stay)
      holes == {p \in deleted : p < end}
      Filler(h) == CHOOSE p \in stay :
                     /\ p >= end
                     /\ Cardinality({q \in stay : q > p}) = Cardinality({q \in holes : q < h})
  IN /\ edge_list' = [p \in DOMAIN edge_list |->
                        IF p \in holes THEN edge_list[Filler(p)]
                        ELSE IF p \in Block(n) /\ p >= end THEN Dummy
                        ELSE edge_list[p]]
     /\ edges' = [edges EXCEPT ![n] = Cardinality(stay)]
     /\ number_of_edges' = number_of_edges - Cardinality(deleted)
     /\ UNCHANGED <<first_edge, size, recount>>
-----------------------------------------------------------------------------
Graphs == {a \in [NodeIterator -> UNION {[1..k -> Edge] : k \in 0..MaxEdges}] :
             Offset(a)[NumberOfNodes] <= MaxEdges}

Renumberings == {f \in [NodeIterator -> NodeIterator] :
                   \A m, n \in NodeIterator : f[m] = f[n] => m = n}

\* The constructor takes the edges of each node in their order.
GraphInit ==
  \E a \in Graphs :
    /\ first_edge = [n \in NodeIterator |-> Offset(a)[n]]
    /\ edges = [n \in NodeIterator |-> Len(a[n])]
    /\ edge_list = Slots(a)
    /\ size = Offset(a)[NumberOfNodes]
    /\ number_of_edges = size
    /\ recount = FALSE

Total == Offset(Adjacency)[NumberOfNodes]

Bounded(n) == /\ Total < MaxEdges /\ number_of_edges < 2 * MaxEdges
              /\ FreeAfter(n) \/ FreeBefore(n) \/ size + NewSize(n) <= MaxSlots

GraphNext ==
  \/ \E n \in NodeIterator, e \in Edge : Bounded(n) /\ InsertEdge(n, e)
  \/ \E n \in NodeIterator : \E p \in Block(n) : DeleteEdge(n, p)
  \/ \E n, target \in NodeIterator : DeleteEdgesTo(n, target)
  \/ \E keep \in SUBSET NodeIterator : Filter(keep)
  \/ \E old_to_new \in Renumberings : Renumber(old_to_new)

GraphSpec == GraphInit /\ [][GraphNext]_graphVars
-----------------------------------------------------------------------------
(***************************************************************************)
(* Whatever moves in edge_list, the graph has the edges it is meant to     *)
(* have, with their multiplicity (dynamic_graph.hpp 269-356, 410-452).     *)
(***************************************************************************)
Graph == INSTANCE Multigraph WITH
  Vertices <- NodeIterator, Labels <- EdgeData,
  out <- [n \in NodeIterator |->
           [e \in Edge |-> Cardinality({p \in Block(n) : edge_list[p] = e})]]
ImplementsMultigraph == Graph!MultigraphSpec

(***************************************************************************)
(* The count is the number of edges, once a filtered graph has been        *)
(* renumbered, as it always is before its edges are copied out             *)
(* (graph_contractor_adaptors.hpp toEdges, asserted there).                *)
(***************************************************************************)
CountExact == (~recount) => number_of_edges = Total
=============================================================================
