------------------------------ MODULE QueryHeap ------------------------------
(***************************************************************************)
(* util::QueryHeap with its index storages (query_heap.hpp,                *)
(* xor_fast_hash_storage.hpp).                                             *)
(*                                                                         *)
(* A heap lives as long as its thread: it is cleared before each search,   *)
(* not rebuilt, and none of the storages but the maps forgets anything     *)
(* when it is cleared. What is left over from earlier searches must never  *)
(* be taken for part of the current one.                                   *)
(*                                                                         *)
(* The d-ary heap of Boost is a set of pairs of weight and position; its   *)
(* handles tell whether the pair of an entry is in the set.                *)
(***************************************************************************)
EXTENDS Integers, Sequences

CONSTANTS NodeID,         \* node ids, 0 .. k
          Weight,         \* weights of entries
          Data,           \* data of entries
          Storages,       \* kinds of storage: "array", "map", "twolevel", "xor"
          OverlayNodes,   \* number_of_overlay_nodes of the two-level storage
          TableSize,      \* MaxNumElements of the hash table
          fast_hasher,    \* where the hash table begins to look for a node
          TimeMax,        \* the largest unsigned, numeric_limits<unsigned>::max()
          MaxClears       \* bound on the calls of Clear

ASSUME HeapAssumption ==
  /\ NodeID \subseteq Nat /\ Weight \subseteq Int
  /\ OverlayNodes \in Nat /\ TableSize \in Nat \ {0}
  /\ fast_hasher \in [NodeID -> 0..(TableSize - 1)]
  /\ TimeMax \in Nat \ {0} /\ MaxClears \in Nat

NoKey == 1000000        \* numeric_limits<Key>::max()
NoNode == -1            \* the id of a cell of the hash table that was never used

VARIABLES inserted_nodes, heap, kind, index, cells, current_timestamp, clears

heapVars == <<inserted_nodes, heap, kind, index, cells, current_timestamp, clears>>
-----------------------------------------------------------------------------
\* The node array of ArrayStorage and the map of MapStorage and UnorderedMapStorage: both
\* map nodes to positions, but the array is filled with zeros and is never emptied.
InArray(n) == kind = "array" \/ (kind = "twolevel" /\ n < OverlayNodes)

FreshCells == [p \in 0..(TableSize - 1) |-> [time |-> TimeMax, id |-> NoNode, key |-> NoKey]]

\* The cells that operator[] and peek_index pass on their way: those of the current
\* search that belong to another node.
Passes(n, p) == cells[p].time = current_timestamp /\ cells[p].id # n
Probe(n, k) == (fast_hasher[n] + k) % TableSize

\* Where the two loops stop. When every cell is passed they never do.
ProbeStops(n) == \E p \in 0..(TableSize - 1) : ~Passes(n, p)
Found(n) == LET k == CHOOSE k \in 0..(TableSize - 1) :
                       /\ ~Passes(n, Probe(n, k))
                       /\ \A j \in 0..(k - 1) : Passes(n, Probe(n, j))
            IN Probe(n, k)

peek_index(n) == IF kind = "xor" THEN cells[Found(n)].key ELSE index[n]

\* node_index[node] = i, for each storage.
SetIndex(n, i) ==
  IF kind = "xor"
  THEN /\ cells' = [cells EXCEPT ![Found(n)] =
                      [time |-> current_timestamp, id |-> n, key |-> i]]
       /\ UNCHANGED index
  ELSE index' = [index EXCEPT ![n] = i] /\ UNCHANGED cells

\* node_index.Clear(), for each storage: the array keeps its positions, a map drops them,
\* the hash table only begins a new time (an unsigned, which wraps around).
ClearIndex ==
  /\ index' = [n \in NodeID |-> IF InArray(n) \/ kind = "xor" THEN index[n] ELSE NoKey]
  /\ IF kind = "xor"
     THEN /\ current_timestamp' = (current_timestamp + 1) % (TimeMax + 1)
          /\ cells' = IF current_timestamp' = TimeMax THEN FreshCells ELSE cells
     ELSE UNCHANGED <<current_timestamp, cells>>
-----------------------------------------------------------------------------
\* Positions count from 0 in the code.
At(i) == inserted_nodes[i + 1]
Size == Len(inserted_nodes)

\* Mutant: any position within the current search will do.
WasInsertedByIndex(n) == peek_index(n) < Size

WasInserted(n) == peek_index(n) < Size /\ At(peek_index(n)).node = n
GetKey(n) == At(peek_index(n)).weight
WasRemoved(n) == ~At(peek_index(n)).handle

Smaller(a, b) == a[1] < b[1] \/ (a[1] = b[1] /\ a[2] <= b[2])
top == CHOOSE a \in heap : \A b \in heap : Smaller(a, b)

Clear ==
  /\ clears < MaxClears
  /\ clears' = clears + 1
  /\ heap' = {} /\ inserted_nodes' = << >>
  /\ ClearIndex
  /\ UNCHANGED kind

Insert(n, w, d) ==
  /\ ~WasInserted(n)
  /\ heap' = heap \cup {<<w, Size>>}
  /\ inserted_nodes' =
       Append(inserted_nodes, [node |-> n, weight |-> w, data |-> d, handle |-> TRUE])
  /\ SetIndex(n, Size)
  /\ UNCHANGED <<kind, current_timestamp, clears>>

\* Mutant: the pair in the heap keeps its weight.
DecreaseKeyOnly(n, w, d) ==
  LET i == peek_index(n)
  IN /\ WasInserted(n) /\ ~WasRemoved(n)
     /\ w < GetKey(n)
     /\ inserted_nodes' = [inserted_nodes EXCEPT ![i + 1].weight = w, ![i + 1].data = d]
     /\ UNCHANGED <<heap, kind, index, cells, current_timestamp, clears>>

\* As the searches use it: the entry found by GetHeapNodeIfWasInserted gets its new weight
\* and data, then its pair in the heap is replaced.
DecreaseKey(n, w, d) ==
  LET i == peek_index(n)
  IN /\ WasInserted(n) /\ ~WasRemoved(n)
     /\ w < GetKey(n)
     /\ heap' = (heap \ {<<At(i).weight, i>>}) \cup {<<w, i>>}
     /\ inserted_nodes' = [inserted_nodes EXCEPT ![i + 1].weight = w, ![i + 1].data = d]
     /\ UNCHANGED <<kind, index, cells, current_timestamp, clears>>

DeleteMin ==
  /\ heap # {}
  /\ heap' = heap \ {top}
  /\ inserted_nodes' = [inserted_nodes EXCEPT ![top[2] + 1].handle = FALSE]
  /\ UNCHANGED <<kind, index, cells, current_timestamp, clears>>

DeleteAll ==
  /\ heap' = {}
  /\ inserted_nodes' = [i \in 1..Size |-> [inserted_nodes[i] EXCEPT !.handle = FALSE]]
  /\ UNCHANGED <<kind, index, cells, current_timestamp, clears>>

\* The constructor ends with a call of Clear.
HeapInit ==
  /\ inserted_nodes = << >> /\ heap = {}
  /\ kind \in Storages
  /\ index = [n \in NodeID |-> IF InArray(n) THEN 0 ELSE NoKey]
  /\ cells = FreshCells
  /\ current_timestamp = IF kind = "xor" THEN 1 ELSE 0
  /\ clears = 0

Usable == \A n \in NodeID : kind = "xor" => ProbeStops(n)

HeapNext ==
  \/ Clear
  \/ /\ Usable
     /\ \/ \E n \in NodeID, w \in Weight, d \in Data : Insert(n, w, d) \/ DecreaseKey(n, w, d)
        \/ DeleteMin
        \/ DeleteAll

HeapSpec == HeapInit /\ [][HeapNext]_heapVars
-----------------------------------------------------------------------------
(***************************************************************************)
(* The heap is the queue of SearchQueue: what one search left behind in a  *)
(* storage is never taken for an entry of the next, and the entries, the   *)
(* pairs of the d-ary heap and the handles stay together (query_heap.hpp   *)
(* 223-370).                                                               *)
(***************************************************************************)
Queue == INSTANCE SearchQueue WITH
  QueueNodes <- NodeID, QueueWeights <- Weight, QueueData <- Data,
  queue <- [i \in 1..Size |-> [node |-> inserted_nodes[i].node,
                               weight |-> inserted_nodes[i].weight,
                               data |-> inserted_nodes[i].data,
                               queued |-> inserted_nodes[i].handle]]
ImplementsQueue == Queue!QueueSpec

(***************************************************************************)
(* WasInserted answers for exactly the nodes of the current search, and    *)
(* the position it looks up is the node's own entry (query_heap.hpp        *)
(* 286-316 over the storages).                                             *)
(***************************************************************************)
LookupExact ==
  Usable => \A n \in NodeID :
    /\ WasInserted(n) <=> \E i \in 1..Size : inserted_nodes[i].node = n
    /\ WasInserted(n) => /\ \A i \in 1..Size : inserted_nodes[i].node = n => i = peek_index(n) + 1
                         /\ (~WasRemoved(n)) <=> <<GetKey(n), peek_index(n)>> \in heap
=============================================================================
