--------------------------- MODULE QueryHeapProofs ---------------------------
(***************************************************************************)
(* Proofs about QueryHeap, for every size of the hash table and every hash *)
(* function.                                                               *)
(***************************************************************************)
EXTENDS QueryHeap, SequenceTheorems, FiniteSetTheorems,
        WellFoundedInduction, TLAPS

\* Every set of natural numbers but the empty one has a least element: inductions are made
\* on a least counterexample.
LEMMA Least ==
  ASSUME NEW T, T \subseteq Nat, T # {}
  PROVE  \E x \in T : \A y \in T : x <= y
<1> DEFINE R == {ss \in Nat \X Nat : ss[1] < ss[2]}
<1>0. IsWellFoundedOn(R, Nat)
  BY NatLessThanWellFounded, Zenon DEF OpToRel
<1>1. PICK x \in T : \A y \in T : ~ (<<y, x>> \in R)
  <2> HIDE DEF R
  <2> QED BY <1>0, WFMin, Zenon
<1>2. \A y \in T : ~(y < x)
  BY <1>1, Zenon
<1> QED
  BY <1>2

-----------------------------------------------------------------------------
(*****************************************************************************)
(* QueryHeap                                                                 *)
(*****************************************************************************)
HeapNode == [node : NodeID, weight : Weight, data : Data, handle : BOOLEAN]
Places == 0..(TableSize - 1)
Cell == [time : Nat, id : NodeID \cup {NoNode}, key : Nat]

HeapTypeOK ==
  /\ inserted_nodes \in Seq(HeapNode)
  /\ heap \subseteq Int \X Nat
  /\ index \in [NodeID -> Nat]
  /\ cells \in [Places -> Cell]
  /\ current_timestamp \in Nat

\* The pairs of the d-ary heap are those of the entries that have a handle.
PairsMatch ==
  /\ \A a \in heap : /\ a[2] < Size /\ At(a[2]).handle
                     /\ At(a[2]).weight = a[1]
  /\ \A i \in 1..Size : inserted_nodes[i].handle => <<inserted_nodes[i].weight, i - 1>> \in heap

\* Every set of pairs has a smallest one, so that DeleteMin finds its top.
Minima(H) == \A S \in SUBSET H : S # {} => \E a \in S : \A b \in S : Smaller(a, b)
HasMinima == Minima(heap)

\* An array or a map has the position of every entry of the current search, ...
OwnPosition == kind # "xor" => \A i \in 1..Size : index[inserted_nodes[i].node] = i - 1

\* ... and the hash table has it in the first cell that the probe does not pass.
Stops(n, k) == ~Passes(n, Probe(n, k)) /\ \A j \in 0..(k - 1) : Passes(n, Probe(n, j))
Keeps(n, k, i) == /\ Stops(n, k)
                  /\ cells[Probe(n, k)].key = i
                  /\ cells[Probe(n, k)].time = current_timestamp
                  /\ cells[Probe(n, k)].id = n
OwnCell == kind = "xor" =>
  \A i \in 1..Size : \A n \in NodeID : inserted_nodes[i].node = n =>
    \E k \in Places : Keeps(n, k, i - 1)

HeapInv == HeapTypeOK /\ PairsMatch /\ HasMinima /\ OwnPosition /\ OwnCell

-----------------------------------------------------------------------------
\* A probe stays within the hash table.
LEMMA ProbeTyped == ASSUME NEW n \in NodeID, NEW k \in Nat PROVE Probe(n, k) \in Places
  BY HeapAssumption DEF Probe, Places

\* A probe comes to every cell.
LEMMA ProbeReaches ==
  ASSUME NEW n \in NodeID, NEW p \in Places
  PROVE  \E k \in Places : Probe(n, k) = p
<1> DEFINE h == fast_hasher[n]
<1>1. h \in Places
  BY HeapAssumption DEF Places
<1>2. CASE p >= h
  <2>1. p - h \in Places /\ (h + (p - h)) % TableSize = p
    BY <1>1, <1>2, HeapAssumption DEF Places
  <2> QED BY <2>1 DEF Probe
<1>3. CASE p < h
  <2>1. p - h + TableSize \in Places /\ (h + (p - h + TableSize)) % TableSize = p
    <3>1. h + (p - h + TableSize) = p + TableSize
      BY <1>1, HeapAssumption DEF Places
    <3>2. (p + TableSize) % TableSize = p
      BY HeapAssumption DEF Places
    <3> QED BY <1>1, <1>3, <3>1, <3>2, HeapAssumption DEF Places
  <2> QED BY <2>1 DEF Probe
<1> QED BY <1>1, <1>2, <1>3, HeapAssumption DEF Places

\* When some cell is not passed, the probe stops at a first one.
LEMMA StopExists ==
  ASSUME NEW n \in NodeID, ProbeStops(n)
  PROVE  \E k \in Places : Stops(n, k)
<1>1. PICK p \in Places : ~Passes(n, p)
  BY DEF ProbeStops, Places
<1>2. PICK k \in Places : Probe(n, k) = p
  BY ProbeReaches
<1> DEFINE T == {m \in Places : ~Passes(n, Probe(n, m))}
<1>3. T \subseteq Nat /\ T # {}
  BY <1>1, <1>2 DEF Places
<1>4. PICK m \in T : \A y \in T : m <= y
  <2> HIDE DEF T
  <2> QED BY <1>3, Least, ZenonT(30)
<1>5. \A j \in 0..(m - 1) : j \in Places /\ ~(m <= j)
  BY HeapAssumption DEF Places
<1>6. \A j \in 0..(m - 1) : Passes(n, Probe(n, j))
  BY <1>4, <1>5
<1> QED BY <1>4, <1>6 DEF Stops

\* operator[] and peek_index stop at the first cell that is not passed.
LEMMA FoundIs ==
  ASSUME NEW n \in NodeID, NEW k \in Places, Stops(n, k)
  PROVE  Found(n) = Probe(n, k)
<1> DEFINE C(m) == /\ ~Passes(n, Probe(n, m))
                   /\ \A j \in 0..(m - 1) : Passes(n, Probe(n, j))
<1>1. C(k)
  BY DEF Stops
<1>2. ASSUME NEW m \in Places, C(m) PROVE m = k
  <2>1. ~(m < k)
    BY <1>1, <1>2, HeapAssumption DEF Places
  <2>2. ~(k < m)
    BY <1>1, <1>2, HeapAssumption DEF Places
  <2> QED BY <2>1, <2>2, HeapAssumption DEF Places
<1>3. (CHOOSE m \in Places : C(m)) = k
  <2> HIDE DEF C
  <2> QED BY <1>1, <1>2
<1> QED BY <1>3, ZenonT(30) DEF Found, Places

\* The entries of the current search.
LEMMA EntriesTyped ==
  ASSUME HeapTypeOK
  PROVE  /\ Size \in Nat
         /\ \A i \in 1..Size : /\ inserted_nodes[i] \in HeapNode
                               /\ inserted_nodes[i].node \in NodeID
                               /\ inserted_nodes[i].weight \in Int
<1>1. Size \in Nat /\ \A i \in 1..Size : inserted_nodes[i] \in HeapNode
  BY DEF HeapTypeOK, Size
<1> QED BY <1>1, HeapAssumption, ZenonT(30) DEF HeapNode

\* Every entry of the current search is found at its own position.
LEMMA PeekOwn ==
  ASSUME HeapInv, NEW i \in 1..Size
  PROVE  peek_index(inserted_nodes[i].node) = i - 1
<1> DEFINE n == inserted_nodes[i].node
<1>1. n \in NodeID
  BY EntriesTyped DEF HeapInv
<1>2. CASE kind = "xor"
  <2>1. PICK k \in Places : Stops(n, k) /\ cells[Probe(n, k)].key = i - 1
    BY <1>1, <1>2 DEF HeapInv, OwnCell, Keeps
  <2>2. Found(n) = Probe(n, k)
    BY <1>1, <2>1, FoundIs
  <2> QED BY <1>2, <2>1, <2>2 DEF peek_index
<1>3. CASE kind # "xor"
  BY <1>3 DEF HeapInv, OwnPosition, peek_index
<1> QED BY <1>2, <1>3

\* Whatever a storage is asked for, it answers with a position.
LEMMA PeekTyped ==
  ASSUME HeapInv, Usable, NEW n \in NodeID
  PROVE  peek_index(n) \in Nat
<1>1. CASE kind = "xor"
  <2>1. PICK k \in Places : Stops(n, k)
    BY <1>1, StopExists DEF Usable
  <2>2. Found(n) \in Places
    BY <2>1, FoundIs, ProbeTyped DEF Places
  <2>3. cells[Found(n)] \in Cell
    BY <2>2 DEF HeapInv, HeapTypeOK
  <2> QED BY <1>1, <2>3 DEF peek_index, Cell
<1>2. CASE kind # "xor"
  BY <1>2 DEF HeapInv, HeapTypeOK, peek_index
<1> QED BY <1>1, <1>2

\* No node has two entries in a search.
LEMMA OneEntryEach ==
  ASSUME HeapInv, NEW i \in 1..Size, NEW j \in 1..Size,
         inserted_nodes[i].node = inserted_nodes[j].node
  PROVE  i = j
<1>1. i - 1 = j - 1
  BY PeekOwn
<1>2. Size \in Nat
  BY EntriesTyped DEF HeapInv
<1> QED BY <1>1, <1>2

\* WasInserted knows the nodes of the current search, and no others.
LEMMA KnownNodes ==
  ASSUME HeapInv, Usable, NEW n \in NodeID
  PROVE  /\ WasInserted(n) <=> \E i \in 1..Size : inserted_nodes[i].node = n
         /\ WasInserted(n) => /\ peek_index(n) + 1 \in 1..Size
                              /\ inserted_nodes[peek_index(n) + 1].node = n
<1>1. peek_index(n) \in Nat /\ Size \in Nat
  BY PeekTyped, EntriesTyped DEF HeapInv
<1>2. WasInserted(n) => /\ peek_index(n) + 1 \in 1..Size
                        /\ inserted_nodes[peek_index(n) + 1].node = n
  BY <1>1 DEF WasInserted, At
<1>3. ASSUME NEW i \in 1..Size, inserted_nodes[i].node = n PROVE WasInserted(n)
  <2>1. peek_index(n) = i - 1
    BY <1>3, PeekOwn
  <2>2. peek_index(n) < Size /\ peek_index(n) + 1 = i
    BY <1>1, <2>1
  <2> QED BY <1>3, <2>2 DEF WasInserted, At
<1> QED BY <1>2, <1>3

\* The invariant says what LookupExact promises.
LEMMA InvariantIsExact == HeapInv => LookupExact
<1> SUFFICES ASSUME HeapInv, Usable, NEW n \in NodeID
             PROVE  /\ WasInserted(n) <=> \E i \in 1..Size : inserted_nodes[i].node = n
                    /\ WasInserted(n) =>
                         /\ \A i \in 1..Size : inserted_nodes[i].node = n => i = peek_index(n) + 1
                         /\ (~WasRemoved(n)) <=> <<GetKey(n), peek_index(n)>> \in heap
  BY DEF LookupExact
<1>0. peek_index(n) \in Nat /\ Size \in Nat
  BY PeekTyped, EntriesTyped DEF HeapInv
<1>1. WasInserted(n) <=> \E i \in 1..Size : inserted_nodes[i].node = n
  BY KnownNodes
<1>2. ASSUME WasInserted(n)
      PROVE  /\ \A i \in 1..Size : inserted_nodes[i].node = n => i = peek_index(n) + 1
             /\ (~WasRemoved(n)) <=> <<GetKey(n), peek_index(n)>> \in heap
  <2> DEFINE p == peek_index(n)
  <2>1. p + 1 \in 1..Size /\ inserted_nodes[p + 1].node = n
    BY <1>2, KnownNodes
  <2>2. \A i \in 1..Size : inserted_nodes[i].node = n => i = p + 1
    BY <2>1, OneEntryEach
  <2>3. ~WasRemoved(n) => <<GetKey(n), p>> \in heap
    <3>1. inserted_nodes[p + 1].handle => <<inserted_nodes[p + 1].weight, (p + 1) - 1>> \in heap
      BY <2>1 DEF HeapInv, PairsMatch
    <3>2. (p + 1) - 1 = p
      BY <1>0
    <3> QED BY <3>1, <3>2 DEF WasRemoved, GetKey, At
  <2>4. <<GetKey(n), p>> \in heap => ~WasRemoved(n)
    <3> SUFFICES ASSUME <<GetKey(n), p>> \in heap PROVE At(p).handle
      BY DEF WasRemoved
    <3>1. At((<<GetKey(n), p>>)[2]).handle
      BY DEF HeapInv, PairsMatch
    <3> QED BY <3>1
  <2> QED BY <2>2, <2>3, <2>4
<1> QED BY <1>1, <1>2

\* A function on 1..n is a sequence of length n.
LEMMA FunctionIsSeq ==
  ASSUME NEW S, NEW n \in Nat, NEW f \in [1..n -> S]
  PROVE  f \in Seq(S) /\ Len(f) = n
<1>1. f \in Seq(S)
  BY SeqDef
<1>2. DOMAIN f = 1..Len(f) /\ Len(f) \in Nat
  BY <1>1, LenProperties
<1>3. 1..n = 1..Len(f)
  BY <1>2
<1> QED BY <1>1, <1>2, <1>3

\* The pairs of weight and position are totally ordered.
LEMMA SmallerTotal ==
  ASSUME NEW a \in Int \X Nat, NEW b \in Int \X Nat
  PROVE  /\ Smaller(a, a)
         /\ Smaller(a, b) \/ Smaller(b, a)
         /\ \A c \in Int \X Nat : Smaller(a, b) /\ Smaller(b, c) => Smaller(a, c)
         /\ Smaller(a, b) /\ Smaller(b, a) => a = b
<1>1. a[1] \in Int /\ a[2] \in Int /\ b[1] \in Int /\ b[2] \in Int
  OBVIOUS
<1>2. Smaller(a, a) /\ (Smaller(a, b) \/ Smaller(b, a))
  BY <1>1 DEF Smaller
<1>3. ASSUME NEW c \in Int \X Nat, Smaller(a, b), Smaller(b, c) PROVE Smaller(a, c)
  <2>1. c[1] \in Int /\ c[2] \in Int
    OBVIOUS
  <2> QED BY <1>1, <1>3, <2>1 DEF Smaller
<1>4. ASSUME Smaller(a, b), Smaller(b, a) PROVE a = b
  <2>1. a[1] = b[1] /\ a[2] = b[2]
    BY <1>1, <1>4 DEF Smaller
  <2> QED BY <2>1
<1> QED BY <1>2, <1>3, <1>4

\* A pair that is added does not take the smallest ones away.
LEMMA MinimaGrow ==
  ASSUME NEW H, H \subseteq Int \X Nat, Minima(H), NEW x \in Int \X Nat
  PROVE  Minima(H \cup {x})
<1> SUFFICES ASSUME NEW S \in SUBSET (H \cup {x}), S # {}
             PROVE  \E a \in S : \A b \in S : Smaller(a, b)
  BY DEF Minima
<1>1. CASE S \ {x} = {}
  <2>1. \A b \in S : b = x
    BY <1>1
  <2> QED BY <2>1, SmallerTotal
<1>2. CASE S \ {x} # {}
  <2>1. S \ {x} \in SUBSET H
    OBVIOUS
  <2>2. PICK a \in S \ {x} : \A b \in S \ {x} : Smaller(a, b)
    BY <1>2, <2>1, ZenonT(30) DEF Minima
  <2>3. a \in Int \X Nat /\ \A b \in S : b \in Int \X Nat
    BY <2>1
  <2>4. CASE x \in S /\ ~Smaller(a, x)
    <3>1. Smaller(x, a) /\ Smaller(x, x)
      BY <2>3, <2>4, SmallerTotal
    <3>2. \A b \in S \ {x} : Smaller(x, b)
      BY <2>2, <2>3, <3>1, SmallerTotal
    <3> QED BY <2>4, <3>1, <3>2
  <2>5. CASE x \notin S \/ Smaller(a, x)
    BY <2>2, <2>5
  <2> QED BY <2>4, <2>5
<1> QED BY <1>1, <1>2

\* Nor does a pair that is taken out.
LEMMA MinimaShrink ==
  ASSUME NEW H, Minima(H), NEW G \in SUBSET H
  PROVE  Minima(G)
  BY DEF Minima

\* The constructor makes an empty heap.
LEMMA HeapInitially == HeapInit => HeapInv
<1> SUFFICES ASSUME HeapInit PROVE HeapInv
  OBVIOUS
<1>1. Size = 0 /\ inserted_nodes \in Seq(HeapNode) /\ 1..0 = {}
  BY DEF HeapInit, Size
<1>2. cells \in [Places -> Cell]
  BY HeapAssumption DEF HeapInit, FreshCells, Places, Cell, NoKey
<1>3. index \in [NodeID -> Nat]
  BY DEF HeapInit, NoKey
<1>4. HeapTypeOK
  BY <1>1, <1>2, <1>3 DEF HeapInit, HeapTypeOK
<1>5. PairsMatch /\ HasMinima /\ OwnPosition /\ OwnCell
  BY <1>1 DEF HeapInit, PairsMatch, HasMinima, Minima, OwnPosition, OwnCell
<1> QED BY <1>4, <1>5 DEF HeapInv

\* What Clear leaves in the storage is not taken for an entry: there are none.
LEMMA ClearInv == ASSUME HeapInv, Clear PROVE HeapInv'
<1>1. Size' = 0 /\ inserted_nodes' \in Seq(HeapNode) /\ 1..0 = {}
  BY DEF Clear, Size
<1>2. cells' \in [Places -> Cell]
  <2>1. FreshCells \in [Places -> Cell]
    BY HeapAssumption DEF FreshCells, Places, Cell, NoKey
  <2> QED BY <2>1 DEF Clear, ClearIndex, HeapInv, HeapTypeOK
<1>3. index' \in [NodeID -> Nat]
  BY DEF Clear, ClearIndex, NoKey, HeapInv, HeapTypeOK
<1>4. current_timestamp' \in Nat
  BY HeapAssumption DEF Clear, ClearIndex, HeapInv, HeapTypeOK
<1>5. HeapTypeOK'
  BY <1>1, <1>2, <1>3, <1>4 DEF Clear, HeapTypeOK
<1>6. (PairsMatch /\ HasMinima /\ OwnPosition /\ OwnCell)'
  BY <1>1 DEF Clear, PairsMatch, HasMinima, Minima, OwnPosition, OwnCell
<1> QED BY <1>5, <1>6 DEF HeapInv

\* The storages know nothing of weights, data and handles.
LEMMA IndexFrame ==
  ASSUME HeapInv, Size' = Size,
         \A i \in 1..Size : inserted_nodes'[i].node = inserted_nodes[i].node,
         UNCHANGED <<kind, index, cells, current_timestamp>>
  PROVE  OwnPosition' /\ OwnCell'
<1>1. \A n : \A k : \A i : Keeps(n, k, i)' <=> Keeps(n, k, i)
  BY DEF Keeps, Stops, Passes, Probe
<1>2. OwnPosition'
  BY DEF HeapInv, OwnPosition
<1>3. OwnCell'
  BY <1>1 DEF HeapInv, OwnCell
<1> QED BY <1>2, <1>3

\* Insert writes the position of the new entry, and the probes of the other nodes end
\* where they did: the cell it takes was passed by none of them.
LEMMA InsertInv ==
  ASSUME HeapInv, Usable, NEW n \in NodeID, NEW w \in Weight, NEW d \in Data, Insert(n, w, d)
  PROVE  HeapInv'
<1> DEFINE e == [node |-> n, weight |-> w, data |-> d, handle |-> TRUE]
<1>0. Size \in Nat /\ inserted_nodes \in Seq(HeapNode) /\ w \in Int /\ e \in HeapNode
  BY EntriesTyped, HeapAssumption DEF HeapInv, HeapTypeOK, HeapNode
<1>1. /\ inserted_nodes' \in Seq(HeapNode)
      /\ Size' = Size + 1
      /\ \A i \in 1..Size : inserted_nodes'[i] = inserted_nodes[i]
      /\ inserted_nodes'[Size + 1] = e
  BY <1>0 DEF Insert, Size
<1>2. \A i \in 1..Size : inserted_nodes[i].node # n
  BY KnownNodes DEF Insert
<1>3. heap' = heap \cup {<<w, Size>>} /\ kind' = kind /\ current_timestamp' = current_timestamp
  BY DEF Insert
<1>4. \A i \in 1..(Size + 1) : i \in 1..Size \/ i = Size + 1
  BY <1>0
<1>5. PairsMatch'
  <2>1. ASSUME NEW a \in heap'
        PROVE  /\ a[2] < Size' /\ inserted_nodes'[a[2] + 1].handle
               /\ inserted_nodes'[a[2] + 1].weight = a[1]
    <3>1. CASE a \in heap
      <4>1. a[2] < Size /\ At(a[2]).handle /\ At(a[2]).weight = a[1] /\ a[2] \in Nat
        BY <3>1 DEF HeapInv, PairsMatch, HeapTypeOK
      <4>2. a[2] + 1 \in 1..Size /\ a[2] < Size + 1
        BY <1>0, <4>1
      <4> QED BY <1>1, <4>1, <4>2 DEF At
    <3>2. CASE a = <<w, Size>>
      BY <1>0, <1>1, <3>2
    <3> QED BY <1>3, <2>1, <3>1, <3>2
  <2>2. ASSUME NEW i \in 1..Size', inserted_nodes'[i].handle
        PROVE  <<inserted_nodes'[i].weight, i - 1>> \in heap'
    <3>1. CASE i \in 1..Size
      BY <1>1, <1>3, <2>2, <3>1, SMTT(30) DEF HeapInv, PairsMatch
    <3>2. CASE i = Size + 1
      <4>1. i - 1 = Size
        BY <1>0, <3>2
      <4> QED BY <1>1, <1>3, <3>2, <4>1
    <3> QED BY <1>1, <1>4, <3>1, <3>2
  <2> QED BY <2>1, <2>2 DEF PairsMatch, At
<1>6. HasMinima'
  <2>1. <<w, Size>> \in Int \X Nat /\ heap \subseteq Int \X Nat /\ Minima(heap)
    BY <1>0 DEF HeapInv, HeapTypeOK, HasMinima
  <2>2. Minima(heap \cup {<<w, Size>>})
    BY <2>1, MinimaGrow
  <2> QED BY <1>3, <2>2 DEF HasMinima, Minima
<1>7. CASE kind # "xor"
  <2>1. index' = [index EXCEPT ![n] = Size] /\ cells' = cells
    BY <1>7 DEF Insert, SetIndex
  <2>2. index' \in [NodeID -> Nat]
    BY <1>0, <2>1 DEF HeapInv, HeapTypeOK
  <2>3. HeapTypeOK'
    BY <1>0, <1>1, <1>3, <2>1, <2>2, SMTT(30) DEF HeapInv, HeapTypeOK
  <2>4. OwnPosition'
    <3>1. ASSUME NEW i \in 1..(Size + 1) PROVE index'[inserted_nodes'[i].node] = i - 1
      <4>1. CASE i \in 1..Size
        <5>1. inserted_nodes'[i].node = inserted_nodes[i].node /\ inserted_nodes[i].node # n
          BY <1>1, <1>2, <4>1, SMTT(30)
        <5>2. index[inserted_nodes[i].node] = i - 1
          BY <1>7, <4>1 DEF HeapInv, OwnPosition
        <5>3. inserted_nodes[i].node \in NodeID
          BY <4>1, EntriesTyped DEF HeapInv
        <5> QED BY <2>1, <5>1, <5>2, <5>3, SMTT(30) DEF HeapInv, HeapTypeOK
      <4>2. CASE i = Size + 1
        <5>1. inserted_nodes'[i].node = n /\ i - 1 = Size
          BY <1>0, <1>1, <4>2
        <5> QED BY <2>1, <5>1 DEF HeapInv, HeapTypeOK
      <4> QED BY <1>4, <4>1, <4>2, SMTT(30)
    <3> QED BY <1>1, <3>1 DEF OwnPosition
  <2>5. OwnCell'
    BY <1>3, <1>7 DEF OwnCell
  <2> QED BY <1>5, <1>6, <2>3, <2>4, <2>5 DEF HeapInv
<1>8. CASE kind = "xor"
  <2> DEFINE c == Found(n)
             new == [time |-> current_timestamp, id |-> n, key |-> Size]
  <2>1. cells' = [cells EXCEPT ![c] = new] /\ index' = index
    BY <1>8 DEF Insert, SetIndex
  <2>2. PICK k \in Places : Stops(n, k)
    BY <1>8, StopExists DEF Usable
  <2>3. c = Probe(n, k) /\ c \in Places
    BY <2>2, FoundIs, ProbeTyped DEF Places
  <2>4. new \in Cell
    BY <1>0 DEF Cell, HeapInv, HeapTypeOK
  <2>5. cells' \in [Places -> Cell] /\ cells'[c] = new /\ \A p \in Places \ {c} : cells'[p] = cells[p]
    <3> HIDE DEF new, c
    <3> QED BY <2>1, <2>3, <2>4, SMTT(30) DEF HeapInv, HeapTypeOK
  <2>6. HeapTypeOK'
    BY <1>0, <1>1, <1>3, <2>1, <2>5, SMTT(30) DEF HeapInv, HeapTypeOK
  <2>7. ASSUME NEW m \in NodeID, NEW j \in Nat, Passes(m, Probe(m, j)), m # n
        PROVE  Passes(m, Probe(m, j))'
    <3>1. Probe(m, j) \in Places
      BY ProbeTyped, SMTT(30)
    <3>2. CASE Probe(m, j) = c
      <4>1. cells'[Probe(m, j)].time = current_timestamp' /\ cells'[Probe(m, j)].id = n
        BY <1>3, <2>5, <3>2, SMTT(30)
      <4> QED BY <2>7, <4>1, SMTT(30) DEF Passes, Probe
    <3>3. CASE Probe(m, j) # c
      <4>1. cells'[Probe(m, j)] = cells[Probe(m, j)]
        BY <2>5, <3>1, <3>3
      <4> QED BY <1>3, <2>7, <4>1, SMTT(30) DEF Passes, Probe
    <3> QED BY <3>2, <3>3
  <2>8. ASSUME NEW i \in 1..(Size + 1), NEW m \in NodeID, inserted_nodes'[i].node = m
        PROVE  \E l \in Places : Keeps(m, l, i - 1)'
    <3>1. CASE i \in 1..Size
      <4>2. inserted_nodes[i].node = m /\ m # n
        BY <1>1, <1>2, <2>8, <3>1, SMTT(30)
      <4>3. PICK l \in Places : /\ Stops(m, l)
                                /\ cells[Probe(m, l)].key = i - 1
                                /\ cells[Probe(m, l)].time = current_timestamp
                                /\ cells[Probe(m, l)].id = m
        BY <1>8, <3>1, <4>2, SMTT(30) DEF HeapInv, OwnCell, Keeps
      <4>4. Passes(n, Probe(m, l))
        BY <4>2, <4>3 DEF Passes
      <4>5. ~Passes(n, c)
        BY <2>2, <2>3 DEF Stops
      <4>6. Probe(m, l) # c /\ Probe(m, l) \in Places
        BY <4>4, <4>5, ProbeTyped, SMTT(30) DEF Places
      <4>7. cells'[Probe(m, l)] = cells[Probe(m, l)]
        BY <2>5, <4>6, SMTT(30)
      <4>8. ~Passes(m, Probe(m, l))'
        BY <4>3, <4>7 DEF Passes, Probe
      <4>9. \A j \in 0..(l - 1) : Passes(m, Probe(m, j))'
        <5>1. \A j \in 0..(l - 1) : j \in Nat /\ Passes(m, Probe(m, j))
          BY <4>3 DEF Stops
        <5> QED BY <2>7, <4>2, <5>1
      <4>10. Stops(m, l)'
        BY <4>8, <4>9 DEF Stops
      <4> QED BY <1>3, <4>3, <4>7, <4>10, SMTT(30) DEF Keeps, Probe
    <3>2. CASE i = Size + 1
      <4>1. m = n /\ i - 1 = Size
        BY <1>0, <1>1, <2>8, <3>2, SMTT(30)
      <4>2. ~Passes(n, Probe(n, k))'
        BY <1>3, <2>3, <2>5, SMTT(30) DEF Passes, Probe
      <4>3. ASSUME NEW j \in 0..(k - 1) PROVE Passes(n, Probe(n, j))'
        <5>1. Passes(n, Probe(n, j)) /\ ~Passes(n, c) /\ Probe(n, j) \in Places
          BY <2>2, <2>3, ProbeTyped, SMTT(30) DEF Stops
        <5>2. cells'[Probe(n, j)] = cells[Probe(n, j)]
          BY <2>5, <5>1
        <5> QED BY <1>3, <5>1, <5>2 DEF Passes, Probe
      <4>4. Stops(n, k)'
        BY <4>2, <4>3, SMTT(30) DEF Stops
      <4>5. Keeps(n, k, i - 1)'
        BY <1>3, <2>3, <2>5, <4>1, <4>4, SMTT(30) DEF Keeps, Probe
      <4> QED BY <4>1, <4>5, SMTT(30)
    <3> QED BY <1>4, <3>1, <3>2, SMTT(30)
  <2>9. OwnCell'
    BY <1>1, <2>8 DEF OwnCell
  <2>10. OwnPosition'
    BY <1>3, <1>8 DEF OwnPosition
  <2> QED BY <1>5, <1>6, <2>6, <2>9, <2>10, SMTT(30) DEF HeapInv
<1> QED BY <1>7, <1>8

\* DecreaseKey replaces the pair of one entry.
LEMMA DecreaseKeyInv ==
  ASSUME HeapInv, Usable, NEW n \in NodeID, NEW w \in Weight, NEW d \in Data, DecreaseKey(n, w, d)
  PROVE  HeapInv'
<1>0. Size \in Nat /\ inserted_nodes \in Seq(HeapNode) /\ w \in Int
  BY EntriesTyped, HeapAssumption DEF HeapInv, HeapTypeOK
<1>1. PICK p \in Nat : p = peek_index(n)
  BY PeekTyped
<1>2. p + 1 \in 1..Size /\ inserted_nodes[p + 1].node = n /\ inserted_nodes[p + 1].handle
  BY <1>1, KnownNodes DEF DecreaseKey, WasRemoved, At
<1>3. /\ heap' = (heap \ {<<inserted_nodes[p + 1].weight, p>>}) \cup {<<w, p>>}
      /\ inserted_nodes' = [inserted_nodes EXCEPT ![p + 1].weight = w, ![p + 1].data = d]
      /\ UNCHANGED <<kind, index, cells, current_timestamp>>
  BY <1>1 DEF DecreaseKey, At
<1>4. /\ inserted_nodes' \in Seq(HeapNode)
      /\ Size' = Size
      /\ \A i \in 1..Size : i # p + 1 => inserted_nodes'[i] = inserted_nodes[i]
      /\ inserted_nodes'[p + 1].weight = w
      /\ inserted_nodes'[p + 1].node = n
      /\ inserted_nodes'[p + 1].handle
  <2> DEFINE e == [[inserted_nodes[p + 1] EXCEPT !.weight = w] EXCEPT !.data = d]
  <2>1. inserted_nodes[p + 1] \in HeapNode
    BY <1>2, EntriesTyped DEF HeapInv
  <2>2. e \in HeapNode /\ e.weight = w /\ e.node = n /\ e.handle
    BY <1>2, <2>1, ZenonT(30) DEF HeapNode
  <2>3. inserted_nodes' = [inserted_nodes EXCEPT ![p + 1] = e]
    BY <1>0, <1>2, <1>3, <2>1, ZenonT(30) DEF HeapNode, Size
  <2> HIDE DEF e
  <2> QED BY <1>0, <1>2, <2>2, <2>3, ExceptSeq, SMTT(30) DEF Size
<1>5. HeapTypeOK'
  BY <1>0, <1>3, <1>4 DEF HeapInv, HeapTypeOK
<1>6. OwnPosition' /\ OwnCell'
  BY <1>2, <1>3, <1>4, IndexFrame, ZenonT(30)
<1>7. PairsMatch'
  <2>1. ASSUME NEW a \in heap'
        PROVE  /\ a[2] < Size' /\ inserted_nodes'[a[2] + 1].handle
               /\ inserted_nodes'[a[2] + 1].weight = a[1]
    <3>1. CASE a \in heap /\ a # <<inserted_nodes[p + 1].weight, p>>
      <4>1. a[2] < Size /\ At(a[2]).handle /\ At(a[2]).weight = a[1] /\ a[2] \in Nat /\ a = <<a[1], a[2]>>
        BY <3>1 DEF HeapInv, PairsMatch, HeapTypeOK
      <4>2. a[2] # p
        BY <3>1, <4>1 DEF At
      <4>3. a[2] + 1 \in 1..Size /\ a[2] + 1 # p + 1
        BY <1>0, <4>1, <4>2
      <4> QED BY <1>4, <4>1, <4>3 DEF At
    <3>2. CASE a = <<w, p>>
      <4>1. p < Size
        BY <1>0, <1>2
      <4> QED BY <1>4, <3>2, <4>1
    <3> QED BY <1>3, <2>1, <3>1, <3>2
  <2>2. ASSUME NEW i \in 1..Size, inserted_nodes'[i].handle
        PROVE  <<inserted_nodes'[i].weight, i - 1>> \in heap'
    <3>1. CASE i = p + 1
      <4>1. i - 1 = p
        BY <3>1
      <4> QED BY <1>3, <1>4, <3>1, <4>1
    <3>2. CASE i # p + 1
      <4>1. <<inserted_nodes[i].weight, i - 1>> \in heap /\ inserted_nodes'[i] = inserted_nodes[i]
        BY <1>4, <2>2, <3>2 DEF HeapInv, PairsMatch
      <4>2. i - 1 # p
        BY <1>0, <3>2
      <4> QED BY <1>3, <4>1, <4>2
    <3> QED BY <3>1, <3>2
  <2> QED BY <1>4, <2>1, <2>2 DEF PairsMatch, At
<1>8. HasMinima'
  <2> DEFINE G == heap \ {<<inserted_nodes[p + 1].weight, p>>}
  <2>1. <<w, p>> \in Int \X Nat /\ G \subseteq Int \X Nat /\ Minima(G)
    BY <1>0, MinimaShrink DEF HeapInv, HeapTypeOK, HasMinima
  <2>2. Minima(G \cup {<<w, p>>})
    <3> HIDE DEF G
    <3> QED BY <2>1, MinimaGrow
  <2> QED BY <1>3, <2>2 DEF HasMinima, Minima
<1> QED BY <1>5, <1>6, <1>7, <1>8 DEF HeapInv

\* DeleteMin finds the smallest pair, and its entry.
LEMMA TopIs ==
  ASSUME HeapInv, heap # {}
  PROVE  /\ top \in heap /\ \A b \in heap : Smaller(top, b)
         /\ top \in Int \X Nat
         /\ top[2] + 1 \in 1..Size
         /\ inserted_nodes[top[2] + 1].weight = top[1]
         /\ inserted_nodes[top[2] + 1].handle
<1>1. \E a \in heap : \A b \in heap : Smaller(a, b)
  BY DEF HeapInv, HasMinima, Minima
<1>2. top \in heap /\ \A b \in heap : Smaller(top, b)
  BY <1>1 DEF top
<1>3. top \in Int \X Nat /\ top[2] < Size /\ At(top[2]).handle /\ At(top[2]).weight = top[1]
  BY <1>2 DEF HeapInv, PairsMatch, HeapTypeOK
<1>4. Size \in Nat
  BY EntriesTyped DEF HeapInv
<1>5. top[2] + 1 \in 1..Size
  BY <1>3, <1>4
<1> QED BY <1>2, <1>3, <1>5 DEF At

\* DeleteMin takes out the pair of one entry, and its handle.
LEMMA DeleteMinInv == ASSUME HeapInv, DeleteMin PROVE HeapInv'
<1>0. Size \in Nat /\ inserted_nodes \in Seq(HeapNode)
  BY EntriesTyped DEF HeapInv, HeapTypeOK
<1>1. PICK t \in heap : t = top
  BY TopIs DEF DeleteMin
<1>2. /\ t \in Int \X Nat /\ t[2] \in Nat
      /\ t[2] + 1 \in 1..Size
      /\ inserted_nodes[t[2] + 1].weight = t[1]
  BY <1>1, TopIs DEF DeleteMin
<1>3. /\ heap' = heap \ {t}
      /\ inserted_nodes' = [inserted_nodes EXCEPT ![t[2] + 1].handle = FALSE]
      /\ UNCHANGED <<kind, index, cells, current_timestamp>>
  BY <1>1 DEF DeleteMin
<1>4. /\ inserted_nodes' \in Seq(HeapNode)
      /\ Size' = Size
      /\ \A i \in 1..Size : i # t[2] + 1 => inserted_nodes'[i] = inserted_nodes[i]
      /\ inserted_nodes'[t[2] + 1].node = inserted_nodes[t[2] + 1].node
      /\ ~inserted_nodes'[t[2] + 1].handle
  <2> DEFINE e == [inserted_nodes[t[2] + 1] EXCEPT !.handle = FALSE]
  <2>1. inserted_nodes[t[2] + 1] \in HeapNode
    BY <1>2, EntriesTyped DEF HeapInv
  <2>2. e \in HeapNode /\ e.node = inserted_nodes[t[2] + 1].node /\ ~e.handle
    BY <2>1, ZenonT(30) DEF HeapNode
  <2>3. inserted_nodes' = [inserted_nodes EXCEPT ![t[2] + 1] = e]
    BY <1>0, <1>2, <1>3, <2>1 DEF HeapNode, Size
  <2> HIDE DEF e
  <2> QED BY <1>0, <1>2, <2>2, <2>3, ExceptSeq DEF Size
<1>5. HeapTypeOK'
  BY <1>0, <1>3, <1>4 DEF HeapInv, HeapTypeOK
<1>6. OwnPosition' /\ OwnCell'
  BY <1>3, <1>4, IndexFrame
<1>7. PairsMatch'
  <2>1. ASSUME NEW a \in heap'
        PROVE  /\ a[2] < Size' /\ inserted_nodes'[a[2] + 1].handle
               /\ inserted_nodes'[a[2] + 1].weight = a[1]
    <3>1. a \in heap /\ a # t
      BY <1>3, <2>1
    <3>2. /\ a[2] < Size /\ At(a[2]).handle /\ At(a[2]).weight = a[1] /\ a[2] \in Nat
          /\ a = <<a[1], a[2]>> /\ t = <<t[1], t[2]>>
      BY <1>2, <3>1 DEF HeapInv, PairsMatch, HeapTypeOK
    <3>3. a[2] # t[2]
      BY <1>2, <3>1, <3>2 DEF At
    <3>4. a[2] + 1 \in 1..Size /\ a[2] + 1 # t[2] + 1
      BY <1>0, <1>2, <3>2, <3>3
    <3> QED BY <1>4, <3>2, <3>4 DEF At
  <2>2. ASSUME NEW i \in 1..Size, inserted_nodes'[i].handle
        PROVE  <<inserted_nodes'[i].weight, i - 1>> \in heap'
    <3>1. i # t[2] + 1
      BY <1>4, <2>2
    <3>2. <<inserted_nodes[i].weight, i - 1>> \in heap /\ inserted_nodes'[i] = inserted_nodes[i]
      BY <1>4, <2>2, <3>1 DEF HeapInv, PairsMatch
    <3>3. i - 1 # t[2]
      BY <1>0, <1>2, <3>1
    <3> QED BY <1>2, <1>3, <3>2, <3>3
  <2> QED BY <1>4, <2>1, <2>2 DEF PairsMatch, At
<1>8. HasMinima'
  <2>1. Minima(heap \ {t})
    BY MinimaShrink DEF HeapInv, HasMinima
  <2> QED BY <1>3, <2>1 DEF HasMinima, Minima
<1> QED BY <1>5, <1>6, <1>7, <1>8 DEF HeapInv

\* DeleteAll takes out all pairs, and all handles.
LEMMA DeleteAllInv == ASSUME HeapInv, DeleteAll PROVE HeapInv'
<1>0. Size \in Nat /\ \A i \in 1..Size : inserted_nodes[i] \in HeapNode
  BY EntriesTyped DEF HeapInv
<1>1. /\ inserted_nodes' \in [1..Size -> HeapNode]
      /\ \A i \in 1..Size : /\ inserted_nodes'[i].node = inserted_nodes[i].node
                            /\ ~inserted_nodes'[i].handle
  BY <1>0, ZenonT(30) DEF DeleteAll, HeapNode
<1>2. inserted_nodes' \in Seq(HeapNode) /\ Size' = Size
  BY <1>0, <1>1, FunctionIsSeq DEF Size
<1>3. heap' = {} /\ UNCHANGED <<kind, index, cells, current_timestamp>>
  BY DEF DeleteAll
<1>4. HeapTypeOK'
  BY <1>2, <1>3 DEF HeapInv, HeapTypeOK
<1>5. OwnPosition' /\ OwnCell'
  BY <1>1, <1>2, <1>3, IndexFrame
<1>6. PairsMatch' /\ HasMinima'
  BY <1>1, <1>2, <1>3 DEF PairsMatch, HasMinima, Minima
<1> QED BY <1>4, <1>5, <1>6 DEF HeapInv

\* HeapInv is inductive.
LEMMA HeapInvariance == HeapInv /\ [HeapNext]_heapVars => HeapInv'
<1> SUFFICES ASSUME HeapInv, [HeapNext]_heapVars PROVE HeapInv'
  OBVIOUS
<1>1. CASE Clear
  BY <1>1, ClearInv
<1>2. ASSUME Usable, NEW n \in NodeID, NEW w \in Weight, NEW d \in Data,
             Insert(n, w, d) \/ DecreaseKey(n, w, d)
      PROVE  HeapInv'
  BY <1>2, InsertInv, DecreaseKeyInv
<1>3. CASE DeleteMin
  BY <1>3, DeleteMinInv
<1>4. CASE DeleteAll
  BY <1>4, DeleteAllInv
<1>5. CASE UNCHANGED heapVars
  <2>1. Size' = Size /\ inserted_nodes' = inserted_nodes
    BY <1>5 DEF heapVars, Size
  <2>2. OwnPosition' /\ OwnCell'
    BY <1>5, <2>1, IndexFrame DEF heapVars
  <2>3. HeapTypeOK' /\ PairsMatch' /\ HasMinima'
    BY <1>5, <2>1, ZenonT(30) DEF heapVars, HeapInv, HeapTypeOK, PairsMatch, HasMinima, Minima, At
  <2> QED BY <2>2, <2>3 DEF HeapInv
<1> QED BY <1>1, <1>2, <1>3, <1>4, <1>5 DEF HeapNext

\* Whatever earlier searches left in the storage, and whichever of the four it is, the heap
\* looks up exactly the nodes of the current search, each at its own entry (LookupExact).
THEOREM LookupsAreExact == HeapSpec => []LookupExact
<1>1. HeapInv => LookupExact
  BY InvariantIsExact
<1> QED BY <1>1, HeapInitially, HeapInvariance, PTL DEF HeapSpec

-----------------------------------------------------------------------------
\* The queue that the heap stands for.
AsQueue == [i \in 1..Size |-> [node |-> inserted_nodes[i].node,
                               weight |-> inserted_nodes[i].weight,
                               data |-> inserted_nodes[i].data,
                               queued |-> inserted_nodes[i].handle]]
QueueEntry == [node : NodeID, weight : Int, data : Data, queued : BOOLEAN]

\* The entries of the queue are those of the heap.
LEMMA QueueTyped ==
  ASSUME HeapInv
  PROVE  /\ AsQueue \in Seq(QueueEntry) /\ Len(AsQueue) = Size /\ Size \in Nat
         /\ DOMAIN AsQueue = 1..Size
         /\ \A i \in 1..Size : /\ AsQueue[i] \in QueueEntry
                               /\ AsQueue[i].node = inserted_nodes[i].node
                               /\ AsQueue[i].weight = inserted_nodes[i].weight
                               /\ AsQueue[i].data = inserted_nodes[i].data
                               /\ AsQueue[i].queued = inserted_nodes[i].handle
<1>1. Size \in Nat /\ \A i \in 1..Size : inserted_nodes[i] \in HeapNode
  BY EntriesTyped DEF HeapInv
<1>2. AsQueue \in [1..Size -> QueueEntry]
  BY <1>1, HeapAssumption, ZenonT(30) DEF AsQueue, HeapNode, QueueEntry
<1>3. AsQueue \in Seq(QueueEntry) /\ Len(AsQueue) = Size
  BY <1>1, <1>2, FunctionIsSeq
<1> QED BY <1>1, <1>2, <1>3 DEF AsQueue

\* Clear empties the queue.
LEMMA ClearQueue == ASSUME HeapInv, Clear PROVE AsQueue' = << >>
<1>1. Size' = 0 /\ 1..0 = {}
  BY DEF Clear, Size
<1> QED BY <1>1 DEF AsQueue

\* Insert puts a new node into the queue.
LEMMA InsertQueue ==
  ASSUME HeapInv, HeapInv', Usable, NEW n \in NodeID, NEW w \in Weight, NEW d \in Data, Insert(n, w, d)
  PROVE  ~Queue!Inserted(AsQueue, n) /\ AsQueue' = Queue!With(AsQueue, n, w, d)
<1>1. /\ AsQueue \in Seq(QueueEntry) /\ Len(AsQueue) = Size /\ Size \in Nat
      /\ \A i \in 1..Size : AsQueue[i].node = inserted_nodes[i].node
  BY QueueTyped
<1>2. ~Queue!Inserted(AsQueue, n)
  BY <1>1, KnownNodes, SMTT(30) DEF Insert, Queue!Inserted
<1> DEFINE e == [node |-> n, weight |-> w, data |-> d, handle |-> TRUE]
           f == [node |-> n, weight |-> w, data |-> d, queued |-> TRUE]
<1>3. e \in HeapNode /\ inserted_nodes \in Seq(HeapNode) /\ f \in QueueEntry
  BY HeapAssumption, SMTT(30) DEF HeapNode, QueueEntry, HeapInv, HeapTypeOK
<1>4. /\ Size' = Size + 1
      /\ \A i \in 1..Size : inserted_nodes'[i] = inserted_nodes[i]
      /\ inserted_nodes'[Size + 1] = e
  BY <1>3 DEF Insert, Size
<1> HIDE DEF f
<1>5. /\ Append(AsQueue, f) \in [1..(Size + 1) -> QueueEntry]
      /\ \A i \in 1..Size : Append(AsQueue, f)[i] = AsQueue[i]
      /\ Append(AsQueue, f)[Size + 1] = f
  <2>1. /\ Append(AsQueue, f) \in Seq(QueueEntry) /\ Len(Append(AsQueue, f)) = Size + 1
        /\ \A i \in 1..Size : Append(AsQueue, f)[i] = AsQueue[i]
        /\ Append(AsQueue, f)[Size + 1] = f
    BY <1>1, <1>3, AppendProperties
  <2>2. Append(AsQueue, f) \in [1..(Size + 1) -> QueueEntry]
    BY <2>1, LenProperties, ZenonT(30)
  <2> QED BY <2>1, <2>2, ZenonT(30)
<1>6. \A i \in 1..(Size + 1) : AsQueue'[i] = Append(AsQueue, f)[i]
  <2> TAKE i \in 1..(Size + 1)
  <2>1. AsQueue'[i] = [node |-> inserted_nodes'[i].node, weight |-> inserted_nodes'[i].weight,
                       data |-> inserted_nodes'[i].data, queued |-> inserted_nodes'[i].handle]
    BY <1>4 DEF AsQueue
  <2>2. CASE i \in 1..Size
    <3>1. AsQueue[i] = [node |-> inserted_nodes[i].node, weight |-> inserted_nodes[i].weight,
                        data |-> inserted_nodes[i].data, queued |-> inserted_nodes[i].handle]
      BY <2>2 DEF AsQueue
    <3> QED BY <1>4, <1>5, <2>1, <2>2, <3>1, SMTT(30)
  <2>3. CASE i = Size + 1
    <3>1. /\ inserted_nodes'[i].node = n /\ inserted_nodes'[i].weight = w
          /\ inserted_nodes'[i].data = d /\ inserted_nodes'[i].handle = TRUE
      BY <1>4, <2>3
    <3>2. AsQueue'[i] = f
      BY <2>1, <3>1, ZenonT(30) DEF f
    <3> QED BY <1>5, <2>3, <3>2, SMTT(30)
  <2> QED BY <1>1, <2>2, <2>3
<1>7. AsQueue' = [i \in 1..(Size + 1) |-> AsQueue'[i]]
  BY <1>4 DEF AsQueue
<1>8. Append(AsQueue, f) = [i \in 1..(Size + 1) |-> Append(AsQueue, f)[i]]
  BY <1>5, ZenonT(30)
<1>9. AsQueue' = Append(AsQueue, f)
  BY <1>6, <1>7, <1>8, ZenonT(30)
<1> QED BY <1>2, <1>9 DEF Queue!With, Queue!Entry, f

\* Entries with the same fields are the same.
LEMMA SameEntry ==
  ASSUME NEW a \in QueueEntry, NEW b \in QueueEntry,
         a.node = b.node, a.weight = b.weight, a.data = b.data, a.queued = b.queued
  PROVE  a = b
  BY DEF QueueEntry

\* DecreaseKey changes the entry of the node.
LEMMA DecreaseQueue ==
  ASSUME HeapInv, Usable, NEW n \in NodeID, NEW w \in Weight, NEW d \in Data, DecreaseKey(n, w, d)
  PROVE  /\ Queue!IsQueued(AsQueue, n)
         /\ w < Queue!KeyOf(AsQueue, n)
         /\ AsQueue' = Queue!Decreased(AsQueue, n, w, d)
<1>1. /\ AsQueue \in Seq(QueueEntry) /\ Len(AsQueue) = Size /\ Size \in Nat
      /\ DOMAIN AsQueue = 1..Size
      /\ \A i \in 1..Size : /\ AsQueue[i] \in QueueEntry
                            /\ AsQueue[i].node = inserted_nodes[i].node
                            /\ AsQueue[i].weight = inserted_nodes[i].weight
                            /\ AsQueue[i].data = inserted_nodes[i].data
                            /\ AsQueue[i].queued = inserted_nodes[i].handle
  BY QueueTyped
<1>2. PICK p \in Nat : p = peek_index(n)
  BY PeekTyped
<1>3. /\ p + 1 \in 1..Size /\ inserted_nodes[p + 1].node = n /\ inserted_nodes[p + 1].handle
      /\ w < inserted_nodes[p + 1].weight
  BY <1>2, KnownNodes DEF DecreaseKey, WasRemoved, GetKey, At
<1>4. inserted_nodes' = [inserted_nodes EXCEPT ![p + 1].weight = w, ![p + 1].data = d]
  BY <1>2 DEF DecreaseKey
<1>5. Queue!Position(AsQueue, n) = p + 1
  <2> DEFINE C(i) == AsQueue[i].node = n /\ \A j \in (i + 1)..Size : AsQueue[j].node # n
  <2>1. \A i \in 1..Size : AsQueue[i].node = n => i = p + 1
    BY <1>1, <1>3, OneEntryEach
  <2>2. C(p + 1)
    <3>1. \A j \in (p + 1 + 1)..Size : j \in 1..Size /\ j # p + 1
      BY <1>1
    <3> QED BY <1>1, <1>3, <2>1, <3>1
  <2>3. \A i \in 1..Size : C(i) => i = p + 1
    BY <2>1
  <2>4. (CHOOSE i \in 1..Size : C(i)) = p + 1
    <3> HIDE DEF C
    <3> QED BY <1>3, <2>2, <2>3
  <2> QED BY <1>1, <2>4 DEF Queue!Position
<1>6. Queue!IsQueued(AsQueue, n)
  BY <1>1, <1>3 DEF Queue!IsQueued, Queue!Queued
<1>7. w < Queue!KeyOf(AsQueue, n)
  BY <1>1, <1>3, <1>5 DEF Queue!KeyOf
<1>8. AsQueue' = [AsQueue EXCEPT ![p + 1].weight = w, ![p + 1].data = d]
  <2>1. Size' = Size /\ inserted_nodes \in Seq(HeapNode)
    BY <1>3, <1>4 DEF HeapInv, HeapTypeOK, Size
  <2>2. \A i \in 1..Size : inserted_nodes[i] \in HeapNode
    BY EntriesTyped DEF HeapInv
  <2>3. \A i \in 1..Size : inserted_nodes'[i] =
           IF i = p + 1 THEN [[inserted_nodes[i] EXCEPT !.weight = w] EXCEPT !.data = d] ELSE inserted_nodes[i]
    <3>1. DOMAIN inserted_nodes = 1..Size
      BY <2>1 DEF Size
    <3> QED BY <1>3, <1>4, <2>2, <3>1, ZenonT(30) DEF HeapNode
  <2> DEFINE R == [AsQueue EXCEPT ![p + 1].weight = w, ![p + 1].data = d]
  <2>4. R = [i \in 1..Size |-> IF i = p + 1 THEN [[AsQueue[i] EXCEPT !.weight = w] EXCEPT !.data = d] ELSE AsQueue[i]]
    BY <1>1, <1>3, ZenonT(30)
  <2>5. \A i \in 1..Size : AsQueue'[i] = R[i]
    <3>1. SUFFICES ASSUME NEW i \in 1..Size PROVE AsQueue'[i] = R[i]
      BY ZenonT(30)
    <3>2. AsQueue'[i] = [node |-> inserted_nodes'[i].node, weight |-> inserted_nodes'[i].weight,
                         data |-> inserted_nodes'[i].data, queued |-> inserted_nodes'[i].handle]
      BY <2>1 DEF AsQueue
    <3>3. AsQueue[i] = [node |-> inserted_nodes[i].node, weight |-> inserted_nodes[i].weight,
                         data |-> inserted_nodes[i].data, queued |-> inserted_nodes[i].handle]
      BY DEF AsQueue
    <3>4. CASE i = p + 1
      <4>1. inserted_nodes'[i].node = inserted_nodes[i].node /\ inserted_nodes'[i].handle = inserted_nodes[i].handle
            /\ inserted_nodes'[i].weight = w /\ inserted_nodes'[i].data = d
        BY <2>2, <2>3, <3>4, ZenonT(30) DEF HeapNode
      <4>2. R[i] = [[AsQueue[i] EXCEPT !.weight = w] EXCEPT !.data = d]
        BY <2>4, <3>4, ZenonT(30)
      <4>3. /\ R[i] \in QueueEntry /\ R[i].node = inserted_nodes[i].node /\ R[i].weight = w
            /\ R[i].data = d /\ R[i].queued = inserted_nodes[i].handle
        <5> HIDE DEF R
        <5> QED BY <1>1, <4>2, HeapAssumption, ZenonT(30) DEF QueueEntry
      <4>4. AsQueue'[i] \in QueueEntry
        BY <2>2, <3>2, <4>1, HeapAssumption DEF QueueEntry, HeapNode
      <4> HIDE DEF R
      <4> QED BY <3>2, <4>1, <4>3, <4>4, SameEntry
    <3>5. CASE i # p + 1
      BY <2>3, <2>4, <3>2, <3>3, <3>5, ZenonT(30)
    <3> QED BY <3>4, <3>5
  <2>6. AsQueue' = [i \in 1..Size |-> AsQueue'[i]] /\ R = [i \in 1..Size |-> R[i]]
    <3>1. AsQueue' = [i \in 1..Size |-> AsQueue'[i]]
      BY <2>1, SMTT(30) DEF AsQueue
    <3>2. R = [i \in 1..Size |-> R[i]]
      BY <2>4, ZenonT(30)
    <3> QED BY <3>1, <3>2
  <2> HIDE DEF R
  <2>7. AsQueue' = R
    BY <2>5, <2>6
  <2> QED BY <2>7 DEF R
<1> QED BY <1>5, <1>6, <1>7, <1>8 DEF Queue!Decreased

\* DeleteMin takes the smallest entry from the queue, the first of those of its weight.
LEMMA DeleteMinQueue ==
  ASSUME HeapInv, DeleteMin
  PROVE  ~Queue!NothingQueued(AsQueue) /\ AsQueue' = Queue!WithoutTop(AsQueue)
<1>1. /\ AsQueue \in Seq(QueueEntry) /\ Len(AsQueue) = Size /\ Size \in Nat
      /\ DOMAIN AsQueue = 1..Size
      /\ \A i \in 1..Size : /\ AsQueue[i] \in QueueEntry
                            /\ AsQueue[i].node = inserted_nodes[i].node
                            /\ AsQueue[i].weight = inserted_nodes[i].weight
                            /\ AsQueue[i].data = inserted_nodes[i].data
                            /\ AsQueue[i].queued = inserted_nodes[i].handle
  BY QueueTyped
<1>2. PICK t \in heap : t = top
  BY TopIs DEF DeleteMin
<1>3. /\ t \in Int \X Nat /\ \A b \in heap : Smaller(t, b)
      /\ t[2] + 1 \in 1..Size /\ t[1] \in Int /\ t[2] \in Nat
      /\ inserted_nodes[t[2] + 1].weight = t[1]
      /\ inserted_nodes[t[2] + 1].handle
  BY <1>2, TopIs DEF DeleteMin
<1>4. inserted_nodes' = [inserted_nodes EXCEPT ![t[2] + 1].handle = FALSE]
  BY <1>2 DEF DeleteMin
<1> DEFINE p == t[2] + 1
           queued == {i \in 1..Size : AsQueue[i].queued}
           Leads(i) == \A j \in queued : \/ AsQueue[i].weight < AsQueue[j].weight
                                         \/ AsQueue[i].weight = AsQueue[j].weight /\ i <= j
<1>5. Queue!Queued(AsQueue) = queued /\ p \in queued
  BY <1>1, <1>3 DEF Queue!Queued
<1>6. ~Queue!NothingQueued(AsQueue)
  BY <1>1, <1>5 DEF Queue!NothingQueued
<1>7. Queue!Top(AsQueue) = p
  <2>1. \A i \in queued : AsQueue[i].weight \in Int /\ i \in Int
    BY <1>1 DEF QueueEntry
  <2>2. Leads(p)
    <3> SUFFICES ASSUME NEW j \in queued
                 PROVE  \/ AsQueue[p].weight < AsQueue[j].weight
                        \/ AsQueue[p].weight = AsQueue[j].weight /\ p <= j
      OBVIOUS
    <3>1. <<inserted_nodes[j].weight, j - 1>> \in heap
      BY <1>1 DEF HeapInv, PairsMatch
    <3>2. Smaller(t, <<inserted_nodes[j].weight, j - 1>>)
      BY <1>3, <3>1
    <3>3. t[1] < inserted_nodes[j].weight \/ (t[1] = inserted_nodes[j].weight /\ t[2] <= j - 1)
      BY <3>2 DEF Smaller
    <3>4. AsQueue[p].weight = t[1] /\ AsQueue[j].weight = inserted_nodes[j].weight
      BY <1>1, <1>3
    <3> QED BY <1>3, <2>1, <3>3, <3>4
  <2>3. ASSUME NEW i \in queued, Leads(i) PROVE i = p
    <3>1. \/ AsQueue[i].weight < AsQueue[p].weight
          \/ AsQueue[i].weight = AsQueue[p].weight /\ i <= p
      BY <1>5, <2>3
    <3>2. \/ AsQueue[p].weight < AsQueue[i].weight
          \/ AsQueue[p].weight = AsQueue[i].weight /\ p <= i
      BY <2>2
    <3> QED BY <1>3, <1>5, <2>1, <3>1, <3>2, SMTT(30)
  <2>4. (CHOOSE i \in queued : Leads(i)) = p
    <3> HIDE DEF Leads, queued, p
    <3> QED BY <1>5, <2>2, <2>3
  <2> QED BY <1>5, <2>4 DEF Queue!Top
<1>8. AsQueue' = [AsQueue EXCEPT ![p].queued = FALSE]
  <2>1. Size' = Size /\ inserted_nodes \in Seq(HeapNode)
    BY <1>3, <1>4 DEF HeapInv, HeapTypeOK, Size
  <2>2. \A i \in 1..Size : inserted_nodes[i] \in HeapNode
    BY EntriesTyped DEF HeapInv
  <2>3. \A i \in 1..Size : inserted_nodes'[i] =
           IF i = p THEN [inserted_nodes[i] EXCEPT !.handle = FALSE] ELSE inserted_nodes[i]
    <3>1. DOMAIN inserted_nodes = 1..Size
      BY <2>1 DEF Size
    <3> QED BY <1>3, <1>4, <2>2, <3>1, ZenonT(30) DEF HeapNode
  <2> DEFINE R == [AsQueue EXCEPT ![p].queued = FALSE]
  <2>4. R = [i \in 1..Size |-> IF i = p THEN [AsQueue[i] EXCEPT !.queued = FALSE] ELSE AsQueue[i]]
    BY <1>1, <1>3, ZenonT(30)
  <2>5. \A i \in 1..Size : AsQueue'[i] = R[i]
    <3>1. SUFFICES ASSUME NEW i \in 1..Size PROVE AsQueue'[i] = R[i]
      BY ZenonT(30)
    <3>2. AsQueue'[i] = [node |-> inserted_nodes'[i].node, weight |-> inserted_nodes'[i].weight,
                         data |-> inserted_nodes'[i].data, queued |-> inserted_nodes'[i].handle]
      BY <2>1 DEF AsQueue
    <3>3. AsQueue[i] = [node |-> inserted_nodes[i].node, weight |-> inserted_nodes[i].weight,
                        data |-> inserted_nodes[i].data, queued |-> inserted_nodes[i].handle]
      BY DEF AsQueue
    <3>4. CASE i = p
      <4>1. /\ inserted_nodes'[i].node = inserted_nodes[i].node
            /\ inserted_nodes'[i].weight = inserted_nodes[i].weight
            /\ inserted_nodes'[i].data = inserted_nodes[i].data
            /\ inserted_nodes'[i].handle = FALSE
        BY <2>2, <2>3, <3>4, ZenonT(30) DEF HeapNode
      <4>2. R[i] = [AsQueue[i] EXCEPT !.queued = FALSE]
        BY <2>4, <3>4, ZenonT(30)
      <4>3. /\ R[i] \in QueueEntry /\ R[i].node = inserted_nodes[i].node
            /\ R[i].weight = inserted_nodes[i].weight
            /\ R[i].data = inserted_nodes[i].data /\ R[i].queued = FALSE
        <5> HIDE DEF R
        <5> QED BY <1>1, <4>2, ZenonT(30) DEF QueueEntry
      <4>4. AsQueue'[i] \in QueueEntry
        <5>1. inserted_nodes[i].node \in NodeID /\ inserted_nodes[i].weight \in Int /\ inserted_nodes[i].data \in Data
          BY <2>2, HeapAssumption, ZenonT(30) DEF HeapNode
        <5>2. AsQueue'[i] = [node |-> inserted_nodes[i].node, weight |-> inserted_nodes[i].weight,
                             data |-> inserted_nodes[i].data, queued |-> FALSE]
          BY <3>2, <4>1, ZenonT(30)
        <5> QED BY <5>1, <5>2 DEF QueueEntry
      <4> HIDE DEF R
      <4> QED BY <3>2, <4>1, <4>3, <4>4, SameEntry, ZenonT(30)
    <3>5. CASE i # p
      BY <2>3, <2>4, <3>2, <3>3, <3>5, ZenonT(30)
    <3> QED BY <3>4, <3>5
  <2>6. AsQueue' = [i \in 1..Size |-> AsQueue'[i]] /\ R = [i \in 1..Size |-> R[i]]
    <3>1. AsQueue' = [i \in 1..Size |-> AsQueue'[i]]
      BY <2>1 DEF AsQueue
    <3>2. R = [i \in 1..Size |-> R[i]]
      BY <2>4, ZenonT(30)
    <3> QED BY <3>1, <3>2
  <2> HIDE DEF R
  <2>7. AsQueue' = R
    BY <2>5, <2>6
  <2> QED BY <2>7 DEF R
<1> QED BY <1>6, <1>7, <1>8 DEF Queue!WithoutTop

\* DeleteAll takes every entry from the queue.
LEMMA DeleteAllQueue ==
  ASSUME HeapInv, DeleteAll
  PROVE  AsQueue' = Queue!Emptied(AsQueue)
<1>1. /\ Len(AsQueue) = Size /\ Size \in Nat
      /\ \A i \in 1..Size : /\ AsQueue[i] \in QueueEntry
                            /\ AsQueue[i].node = inserted_nodes[i].node
                            /\ AsQueue[i].weight = inserted_nodes[i].weight
                            /\ AsQueue[i].data = inserted_nodes[i].data
  BY QueueTyped
<1>2. \A i \in 1..Size : inserted_nodes[i] \in HeapNode
  BY EntriesTyped DEF HeapInv
<1>3. /\ inserted_nodes' \in [1..Size -> HeapNode]
      /\ \A i \in 1..Size : /\ inserted_nodes'[i].node = inserted_nodes[i].node
                            /\ inserted_nodes'[i].weight = inserted_nodes[i].weight
                            /\ inserted_nodes'[i].data = inserted_nodes[i].data
                            /\ inserted_nodes'[i].handle = FALSE
  BY <1>2, ZenonT(30) DEF DeleteAll, HeapNode
<1>4. Size' = Size
  BY <1>1, <1>3, FunctionIsSeq DEF Size
<1> DEFINE R == [i \in 1..Size |-> [AsQueue[i] EXCEPT !.queued = FALSE]]
<1>5. \A i \in 1..Size : AsQueue'[i] = R[i]
  <2> TAKE i \in 1..Size
  <2>1. AsQueue'[i] = [node |-> inserted_nodes[i].node, weight |-> inserted_nodes[i].weight,
                       data |-> inserted_nodes[i].data, queued |-> FALSE]
    BY <1>3, <1>4, ZenonT(30) DEF AsQueue
  <2>3. /\ R[i] \in QueueEntry /\ R[i].node = inserted_nodes[i].node
        /\ R[i].weight = inserted_nodes[i].weight
        /\ R[i].data = inserted_nodes[i].data /\ R[i].queued = FALSE
    <3>1. R[i] = [AsQueue[i] EXCEPT !.queued = FALSE] /\ AsQueue[i] \in QueueEntry
      BY <1>1
    <3> HIDE DEF R
    <3> QED BY <1>1, <3>1, ZenonT(30) DEF QueueEntry
  <2>4. AsQueue'[i] \in QueueEntry
    <3>1. inserted_nodes[i].node \in NodeID /\ inserted_nodes[i].weight \in Int /\ inserted_nodes[i].data \in Data
      BY <1>2, HeapAssumption, ZenonT(30) DEF HeapNode
    <3> QED BY <2>1, <3>1 DEF QueueEntry
  <2> HIDE DEF R
  <2> QED BY <2>1, <2>3, <2>4, SameEntry, ZenonT(30)
<1>6. AsQueue' = [i \in 1..Size |-> AsQueue'[i]]
  BY <1>4 DEF AsQueue
<1>7. AsQueue' = R
  BY <1>5, <1>6
<1> QED BY <1>1, <1>7 DEF Queue!Emptied

\* QueryHeap over any of its storages is the priority queue that the searches are modelled
\* with (ImplementsQueue).
THEOREM HeapIsQueue == HeapSpec => ImplementsQueue
<1>1. HeapInit => Queue!QueueInit
  <2> SUFFICES ASSUME HeapInit PROVE AsQueue = << >>
    BY DEF Queue!QueueInit, AsQueue
  <2>1. Size = 0 /\ 1..0 = {}
    BY DEF HeapInit, Size
  <2> QED BY <2>1 DEF AsQueue
<1>2. HeapInv /\ HeapInv' /\ [HeapNext]_heapVars => [Queue!QueueNext]_AsQueue
  <2> SUFFICES ASSUME HeapInv, HeapInv', [HeapNext]_heapVars PROVE [Queue!QueueNext]_AsQueue
    BY SMTT(30)
  <2>1. CASE Clear
    BY <2>1, ClearQueue, ZenonT(30) DEF Queue!QueueNext, AsQueue
  <2>2. ASSUME Usable, NEW n \in NodeID, NEW w \in Weight, NEW d \in Data, Insert(n, w, d)
        PROVE  Queue!QueueNext
    <3>1. ~Queue!Inserted(AsQueue, n) /\ AsQueue' = Queue!With(AsQueue, n, w, d)
      BY <2>2, InsertQueue
    <3> QED BY <3>1, ZenonT(30) DEF Queue!QueueNext, AsQueue
  <2>3. ASSUME Usable, NEW n \in NodeID, NEW w \in Weight, NEW d \in Data, DecreaseKey(n, w, d)
        PROVE  Queue!QueueNext
    <3>1. /\ Queue!IsQueued(AsQueue, n)
          /\ w < Queue!KeyOf(AsQueue, n)
          /\ AsQueue' = Queue!Decreased(AsQueue, n, w, d)
      BY <2>3, DecreaseQueue
    <3> QED BY <3>1, ZenonT(30) DEF Queue!QueueNext, AsQueue
  <2>4. CASE DeleteMin
    BY <2>4, DeleteMinQueue DEF Queue!QueueNext, AsQueue
  <2>5. CASE DeleteAll
    BY <2>5, DeleteAllQueue, ZenonT(30) DEF Queue!QueueNext, AsQueue
  <2>6. CASE UNCHANGED heapVars
    BY <2>6 DEF heapVars, AsQueue, Size
  <2> QED BY <2>1, <2>2, <2>3, <2>4, <2>5, <2>6 DEF HeapNext
<1> QED BY <1>1, <1>2, HeapInitially, HeapInvariance, PTL
        DEF HeapSpec, ImplementsQueue, Queue!QueueSpec, AsQueue
=============================================================================
