------------------------------ MODULE MldTables ------------------------------
(***************************************************************************)
(* Tables of durations on a multi-level graph (many_to_many_mld.cpp).      *)
(*                                                                         *)
(* A table is a sequence of rows, one for each source, of values with the  *)
(* weight and the duration of the best way. Ends are phantom nodes as in   *)
(* MldRouting.                                                             *)
(***************************************************************************)
EXTENDS MldRouting

TableData(parent, from_clique_arc, duration) ==
  [parent |-> parent, from_clique_arc |-> from_clique_arc, duration |-> duration]

\* getNodeQueryLevel with one phantom node, and with several.
PhantomLevel(f, n, phantom) == Min({GetHighestDifferentLevel(f.mlp, phantom[i].node, n) : i \in 1..Len(phantom)})
PhantomsLevel(f, n, phantoms) == Min({PhantomLevel(f, n, phantoms[i]) : i \in 1..Len(phantoms)})

\* A node is reached: smaller by weight, then by duration, then by parent.
Reached(heap, to, w, data) ==
  LET old == DataOf(heap, to)
  IN IF ~Inserted(heap, to) THEN With(heap, to, w, data)
     ELSE IF \/ w < KeyOf(heap, to)
             \/ w = KeyOf(heap, to) /\ data.duration < old.duration
             \/ w = KeyOf(heap, to) /\ data.duration = old.duration /\ data.parent < old.parent
          THEN Decreased(heap, to, w, data)
          ELSE heap

relaxBorderEdges(f, heap, n, w, duration, direction, level) ==
  FoldLeft(LAMBDA h, e :
             LET driven == IF direction = "forward" THEN n ELSE e.target
             IN Reached(h, e.target, w + TurnWeight(f, n, e, direction),
                        TableData(n, FALSE, duration + f.node_durations[driven]
                                                     + f.penalties[e.turn_id].duration)),
           heap, BorderEdges(f, level, n, direction))

\* The edges and arcs of an entry that has left the heap.
relaxTableEdges(f, heap, entry, direction, level) ==
  LET n == entry.node
      w == entry.weight
      data == entry.data
      arcs == IF level = 0 \/ data.from_clique_arc THEN << >> ELSE CliqueArcs(f, level, n, direction)
      over_cell == FoldLeft(LAMBDA h, a : Reached(h, a.node, w + a.value.weight,
                                                  TableData(n, TRUE, data.duration + a.value.duration)),
                            heap, arcs)
  IN relaxBorderEdges(f, over_cell, n, w, data.duration, direction, level)

\* Sources count what lies before them as driven already.
Sign(direction) == IF direction = "forward" THEN -1 ELSE 1

Value(w, d) == [weight |-> w, duration |-> d]
LessValue(a, b) == a.weight < b.weight \/ (a.weight = b.weight /\ a.duration < b.duration)
Smaller(a, b) == IF LessValue(a, b) THEN a ELSE b
-----------------------------------------------------------------------------
(***************************************************************************)
(* oneToManySearch: one search from phantom until all others are found.    *)
(* A state is the heap, the targets that are not found yet and the row.    *)
(***************************************************************************)
TargetsOf(others, sign) ==
  UNION {{[index |-> i, node |-> others[i][j].node, weight |-> sign * others[i][j].weight,
           duration |-> sign * others[i][j].duration] : j \in 1..Len(others[i])}
           : i \in 1..Len(others)}

\* update_values: the targets at n that can be reached are done.
updateValues(s, n, w, d) ==
  LET found == {t \in s.targets : t.node = n /\ w + t.weight >= 0}
  IN [s EXCEPT !.targets = s.targets \ found,
               !.row = [i \in DOMAIN s.row |->
                 FoldSet(LAMBDA t, acc : Smaller(Value(w + t.weight, d + t.duration), acc), s.row[i],
                         {t \in found : t.index = i})]]

\* Mutant: a node that is also a target is marked as visited.
InsertVisited(f, s, segment, direction) ==
  LET n == segment.node
      w == Sign(direction) * segment.weight
      d == Sign(direction) * segment.duration
  IN [s EXCEPT !.heap = With(s.heap, n, w, TableData(n, FALSE, d))]

\* insert_node: the first step from a node that is also a target is made at once, so that
\* the search can come back to it.
insertNode(f, s, segment, direction) ==
  LET n == segment.node
      w == Sign(direction) * segment.weight
      d == Sign(direction) * segment.duration
  IN IF \E t \in s.targets : t.node = n
     THEN [updateValues(s, n, w, d) EXCEPT
             !.heap = relaxBorderEdges(f, s.heap, n, w, d, direction, 0)]
     ELSE [s EXCEPT !.heap = With(s.heap, n, w, TableData(n, FALSE, d))]

oneToManySearch(f, phantom, others, direction) ==
  LET fresh == [heap |-> << >>, targets |-> TargetsOf(others, -Sign(direction)),
                row |-> [i \in 1..Len(others) |-> Invalid]]
      start == FoldLeft(LAMBDA s, segment : insertNode(f, s, segment, direction), fresh, phantom)
      steps[k \in Nat] ==
        IF k = 0 THEN start
        ELSE LET s == steps[k - 1]
                 entry == s.heap[Top(s.heap)]
                 level == PhantomsLevel(f, entry.node, <<phantom>> \o others)
                 seen == updateValues(s, entry.node, entry.weight, entry.data.duration)
             IN IF NothingQueued(s.heap) \/ s.targets = {} THEN s
                ELSE [seen EXCEPT !.heap =
                        relaxTableEdges(f, WithoutTop(s.heap), entry, direction, level)]
  IN steps[Cardinality(DOMAIN f.graph.edges) + Len(phantom)].row
-----------------------------------------------------------------------------
(***************************************************************************)
(* manyToManySearch: searches from the targets leave their weights in      *)
(* buckets, in which the searches from the sources look. The search from a *)
(* target ends on the highest level.                                       *)
(***************************************************************************)
TableHeap(phantom, sign) == [i \in 1..Len(phantom) |->
  Entry(phantom[i].node, sign * phantom[i].weight,
        TableData(phantom[i].node, FALSE, sign * phantom[i].duration))]

\* Every node that leaves the heap, with its weight and duration when it does.
Settled(f, phantom, direction, maximal_level) ==
  LET steps[k \in Nat] ==
        IF k = 0 THEN TableHeap(phantom, Sign(direction))
        ELSE LET heap == steps[k - 1]
                 entry == heap[Top(heap)]
                 level == PhantomLevel(f, entry.node, phantom)
             IN IF NothingQueued(heap) THEN heap
                ELSE IF level >= maximal_level THEN WithoutTop(heap)
                ELSE relaxTableEdges(f, WithoutTop(heap), entry, direction, level)
  IN steps[Cardinality(DOMAIN f.graph.edges)]

Buckets(f, targets, direction) ==
  [j \in 1..Len(targets) |-> Settled(f, targets[j], Opposite(direction), GetNumberOfLevels(f.mlp) - 1)]

Met(own, bucket) ==
  FoldSet(Smaller, Invalid,
          {v \in {Value(KeyOf(own, n) + KeyOf(bucket, n), DataOf(own, n).duration + DataOf(bucket, n).duration)
                    : n \in {n \in Range([i \in 1..Len(own) |-> own[i].node]) : Inserted(bucket, n)}} :
             v.weight >= 0})

manyToManySearch(f, sources, targets, direction) ==
  LET buckets == Buckets(f, targets, direction)
  IN [i \in 1..Len(sources) |->
        LET own == Settled(f, sources[i], direction, GetNumberOfLevels(f.mlp))
        IN [j \in 1..Len(targets) |-> Met(own, buckets[j])]]

Transposed(table) == [i \in 1..Len(table[1]) |-> [j \in 1..Len(table) |-> table[j][i]]]

\* The dispatcher. With fewer targets than sources the search is done on the reversed graph.
Table(f, sources, targets) ==
  IF Len(sources) = 1 THEN <<oneToManySearch(f, sources[1], targets, "forward")>>
  ELSE IF Len(targets) = 1 THEN Transposed(<<oneToManySearch(f, targets[1], sources, "reverse")>>)
  ELSE IF Len(targets) < Len(sources) THEN Transposed(manyToManySearch(f, targets, sources, "reverse"))
  ELSE manyToManySearch(f, sources, targets, "forward")
=============================================================================
