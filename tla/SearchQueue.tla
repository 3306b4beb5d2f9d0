----------------------------- MODULE SearchQueue -----------------------------
(***************************************************************************)
(* The queue of one search thread: it is cleared, filled, decreased and    *)
(* emptied in any order, and behaves as PriorityQueue says.                *)
(***************************************************************************)
EXTENDS PriorityQueue

CONSTANTS QueueNodes,    \* the nodes that may be inserted
          QueueWeights,  \* their weights
          QueueData      \* what is stored with them

VARIABLE queue

QueueInit == queue = << >>

QueueNext ==
  \/ queue' = << >>
  \/ \E n \in QueueNodes, w \in QueueWeights, d \in QueueData :
       ~Inserted(queue, n) /\ queue' = With(queue, n, w, d)
  \/ \E n \in QueueNodes, w \in QueueWeights, d \in QueueData :
       IsQueued(queue, n) /\ w < KeyOf(queue, n) /\ queue' = Decreased(queue, n, w, d)
  \/ ~NothingQueued(queue) /\ queue' = WithoutTop(queue)
  \/ queue' = Emptied(queue)

QueueSpec == QueueInit /\ [][QueueNext]_queue
=============================================================================
