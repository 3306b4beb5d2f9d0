---------------------------- MODULE PriorityQueue ----------------------------
(***************************************************************************)
(* What util::QueryHeap promises to the searches that use it: a priority   *)
(* queue that remembers every node inserted since the last Clear, with its *)
(* weight and data, also after the node has left the queue.                *)
(*                                                                         *)
(* A queue is the sequence of its entries in the order of insertion. Of    *)
(* two entries of the same weight the one inserted first is the smaller    *)
(* one, as the heap compares pairs of weight and position.                 *)
(*                                                                         *)
(* The searches are modelled with these operators; SearchQueue makes an    *)
(* abstract specification of them, which QueryHeap is shown to implement.  *)
(***************************************************************************)
EXTENDS Integers, Sequences

Entry(n, w, d) == [node |-> n, weight |-> w, data |-> d, queued |-> TRUE]

Inserted(q, n) == \E i \in 1..Len(q) : q[i].node = n
\* A node that is inserted once more is known by its last entry.
Position(q, n) == CHOOSE i \in 1..Len(q) : q[i].node = n /\ \A j \in (i + 1)..Len(q) : q[j].node # n
KeyOf(q, n) == q[Position(q, n)].weight
DataOf(q, n) == q[Position(q, n)].data

Queued(q) == {i \in 1..Len(q) : q[i].queued}
NothingQueued(q) == \A i \in 1..Len(q) : ~q[i].queued
IsQueued(q, n) == \E i \in Queued(q) : q[i].node = n

\* The position of the smallest entry that is still queued.
Top(q) == CHOOSE i \in Queued(q) :
            \A j \in Queued(q) : \/ q[i].weight < q[j].weight
                                 \/ q[i].weight = q[j].weight /\ i <= j
TopNode(q) == q[Top(q)].node
TopKey(q) == q[Top(q)].weight

With(q, n, w, d) == Append(q, Entry(n, w, d))
WithoutTop(q) == [q EXCEPT ![Top(q)].queued = FALSE]
Decreased(q, n, w, d) ==
  [q EXCEPT ![Position(q, n)].weight = w, ![Position(q, n)].data = d]
Emptied(q) == [i \in 1..Len(q) |-> [q[i] EXCEPT !.queued = FALSE]]

(***************************************************************************)
(* What every search does with a node it reaches: a new node is inserted,  *)
(* a known one gets the smaller weight and the new data.                   *)
(***************************************************************************)
Relaxed(q, n, w, d) ==
  IF ~Inserted(q, n) THEN With(q, n, w, d)
  ELSE IF w < KeyOf(q, n) THEN Decreased(q, n, w, d) ELSE q
=============================================================================
