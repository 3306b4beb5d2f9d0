--------------------------- MODULE SharedMonitor ---------------------------
(* storage::SharedMonitor as it is built: an interprocess mutex and a        *)
(* condition variable made of a ring of semaphores, all in one shared memory *)
(* block.  A thread that waits constructs a semaphore in the next ring slot, *)
(* gives the mutex up and blocks on the semaphore; notify_all posts every    *)
(* queued semaphore.  Threads may be killed at any moment, which leaves      *)
(* their semaphores in the ring.                                             *)
EXTENDS Integers

CONSTANTS Threads,      \* the threads of all processes that mapped the block
          NoThread,     \* the owner of a free mutex
          Abandoned,    \* what Monitor calls the owner of a lost mutex
          BufferSize,   \* buffer_size, 4096 * 4 in the code
          MaxKills      \* bound: how many threads are killed in a behaviour

ASSUME NoThreadAssumption == NoThread \notin Threads /\ Abandoned \notin Threads
ASSUME BufferAssumption == BufferSize \in Nat /\ BufferSize >= 2
ASSUME MaxKillsAssumption == MaxKills \in Nat

VARIABLES mutex,      \* InternalData::mutex: its owner, or NoThread
          head, tail, \* InternalData::head and tail
          slot,       \* InternalData::buffer
          pc,         \* where each thread is
          mine,       \* the semaphore pointer of a thread inside wait()
          dead,       \* threads that were killed or ended by an exception
          kills,      \* how many were killed so far
          undefined   \* a semaphore was destroyed while a thread used it

ring == <<head, tail, slot>>
vars == <<mutex, head, tail, slot, pc, mine, dead, kills, undefined>>

Slots == 0 .. BufferSize - 1

(* A slot holds 0xff bytes until a semaphore is constructed in it. *)
Semaphores == [valid : BOOLEAN, count : 0 .. 1]
Invalid == [valid |-> FALSE, count |-> 0]
Constructed == [valid |-> TRUE, count |-> 0]

Locations == {"out", "in", "blocked", "relock", "drain"}

TypeOK == /\ mutex \in Threads \cup {NoThread}
          /\ head \in Slots
          /\ tail \in Slots
          /\ slot \in [Slots -> Semaphores]
          /\ pc \in [Threads -> Locations]
          /\ mine \in [Threads -> Slots]
          /\ dead \subseteq Threads
          /\ kills \in 0 .. MaxKills
          /\ undefined \in BOOLEAN

Succ(i) == (i + 1) % BufferSize

(* How many slots lie from a to b, going round the ring. *)
Distance(a, b) == IF b >= a THEN b - a ELSE BufferSize + b - a

(* size() and empty() *)
Size == Distance(tail, head)
Empty == tail = head

Init == /\ mutex = NoThread
        /\ head = 0
        /\ tail = 0
        /\ slot = [i \in Slots |-> Invalid]
        /\ pc = [t \in Threads |-> "out"]
        /\ mine = [t \in Threads |-> 0]
        /\ dead = {}
        /\ kills = 0
        /\ undefined = FALSE

Alive(t) == t \notin dead

(* A live thread is inside semaphore->wait() on slot i. *)
InUse(i) == \E t \in Threads : Alive(t) /\ pc[t] = "blocked" /\ mine[t] = i

Lock(t) == /\ Alive(t)
           /\ pc[t] = "out"
           /\ mutex = NoThread
           /\ mutex' = t
           /\ pc' = [pc EXCEPT ![t] = "in"]
           /\ UNCHANGED <<ring, mine, dead, kills, undefined>>

Unlock(t) == /\ Alive(t)
             /\ pc[t] = "in"
             /\ mutex' = NoThread
             /\ pc' = [pc EXCEPT ![t] = "out"]
             /\ UNCHANGED <<ring, mine, dead, kills, undefined>>

(* The limit is tested after head has moved. *)
Full == Distance(tail, Succ(head)) >= BufferSize \div 2

(* wait(): enqueue_semaphore() destroys what the slot held, constructs a     *)
(* semaphore with count 0, and InvertedLock gives the mutex up.  Nobody sees *)
(* the ring between the two: it is only touched under the mutex.             *)
Wait(t) == /\ Alive(t)
           /\ pc[t] = "in"
           /\ ~Full
           /\ ~InUse(head)
           /\ slot' = [slot EXCEPT ![head] = Constructed]
           /\ mine' = [mine EXCEPT ![t] = head]
           /\ head' = Succ(head)
           /\ mutex' = NoThread
           /\ pc' = [pc EXCEPT ![t] = "blocked"]
           /\ UNCHANGED <<tail, dead, kills, undefined>>

(* The same, when the slot's old semaphore has been posted but the thread it *)
(* woke has not run since: sem_destroy is undefined, and so is what follows. *)
WaitClobbers(t) == /\ Alive(t)
                   /\ pc[t] = "in"
                   /\ ~Full
                   /\ InUse(head)
                   /\ undefined' = TRUE
                   /\ UNCHANGED <<mutex, ring, pc, mine, dead, kills>>

(* enqueue_semaphore() throws with head already advanced.  No caller of      *)
(* wait() has a handler, so the process ends without unwinding: the          *)
(* scoped_lock of the thread is never released.                              *)
WaitThrows(t) == /\ Alive(t)
                 /\ pc[t] = "in"
                 /\ Full
                 /\ head' = Succ(head)
                 /\ dead' = dead \cup {t}
                 /\ UNCHANGED <<mutex, tail, slot, pc, mine, kills, undefined>>

(* semaphore->wait() returns *)
SemWait(t) == /\ Alive(t)
              /\ pc[t] = "blocked"
              /\ slot[mine[t]].count > 0
              /\ slot' = [slot EXCEPT ![mine[t]].count = @ - 1]
              /\ pc' = [pc EXCEPT ![t] = "relock"]
              /\ UNCHANGED <<mutex, head, tail, mine, dead, kills, undefined>>

(* ~InvertedLock takes the mutex back and wait() returns *)
Relock(t) == /\ Alive(t)
             /\ pc[t] = "relock"
             /\ mutex = NoThread
             /\ mutex' = t
             /\ pc' = [pc EXCEPT ![t] = "in"]
             /\ UNCHANGED <<ring, mine, dead, kills, undefined>>

(* notify_all(): take the mutex, ... *)
NotifyLock(t) == /\ Alive(t)
                 /\ pc[t] = "out"
                 /\ mutex = NoThread
                 /\ mutex' = t
                 /\ pc' = [pc EXCEPT ![t] = "drain"]
                 /\ UNCHANGED <<ring, mine, dead, kills, undefined>>

PostNextSlot(t) == /\ Alive(t)
                   /\ pc[t] = "drain"
                   /\ ~Empty
                   /\ slot' = [slot EXCEPT ![Succ(tail)].count = 1]
                   /\ tail' = Succ(tail)
                   /\ UNCHANGED <<mutex, head, pc, mine, dead, kills, undefined>>

(* ... post the semaphore at the tail until none is left, ... *)
Post(t) == /\ Alive(t)
           /\ pc[t] = "drain"
           /\ ~Empty
           /\ slot' = [slot EXCEPT ![tail].count = @ + 1]
           /\ tail' = Succ(tail)
           /\ UNCHANGED <<mutex, head, pc, mine, dead, kills, undefined>>

NotifyDoneEarly(t) == /\ Alive(t)
                      /\ pc[t] = "drain"
                      /\ Size <= 1
                      /\ mutex' = NoThread
                      /\ pc' = [pc EXCEPT ![t] = "out"]
                      /\ UNCHANGED <<ring, mine, dead, kills, undefined>>

(* ... and release the mutex. *)
NotifyDone(t) == /\ Alive(t)
                 /\ pc[t] = "drain"
                 /\ Empty
                 /\ mutex' = NoThread
                 /\ pc' = [pc EXCEPT ![t] = "out"]
                 /\ UNCHANGED <<ring, mine, dead, kills, undefined>>

(* A process is killed: its semaphore stays queued, its mutex stays locked. *)
Kill(t) == /\ Alive(t)
           /\ pc[t] # "out"
           /\ kills < MaxKills
           /\ kills' = kills + 1
           /\ dead' = dead \cup {t}
           /\ UNCHANGED <<mutex, ring, pc, mine, undefined>>

(* A new process takes the place of a dead one. *)
Restart(t) == /\ t \in dead
              /\ mutex # t
              /\ dead' = dead \ {t}
              /\ pc' = [pc EXCEPT ![t] = "out"]
              /\ UNCHANGED <<mutex, ring, mine, kills, undefined>>

Step(t) == \/ Lock(t) \/ Unlock(t)
           \/ Wait(t) \/ WaitClobbers(t) \/ WaitThrows(t)
           \/ SemWait(t) \/ Relock(t)
           \/ NotifyLock(t) \/ Post(t) \/ NotifyDone(t)
           \/ Kill(t) \/ Restart(t)

Next == ~undefined /\ \E t \in Threads : Step(t)

Spec == Init /\ [][Next]_vars

(* Threads keep running once they are runnable; nobody has to take the       *)
(* mutex, wait or notify, and a thread in its critical section may stay.     *)
Fairness == \A t \in Threads : /\ WF_vars(~undefined /\ SemWait(t))
                               /\ WF_vars(~undefined /\ Post(t))
                               /\ WF_vars(~undefined /\ NotifyDone(t))

FairSpec == Spec /\ Fairness

(***************************************************************************)
(* Properties                                                              *)
(***************************************************************************)
Sleeping(t) == Alive(t) /\ pc[t] = "blocked" /\ slot[mine[t]].count = 0

Queued(i) == Distance(tail, i) < Size

(* A live thread that is blocked in wait() and not yet notified is always in *)
(* the queue notify_all() drains, behind a constructed semaphore that no     *)
(* other live thread blocks on, whoever was killed and however often the     *)
(* ring went round: the queue of enqueue_semaphore/dequeue_semaphore never   *)
(* forgets a waiter.                                                         *)
SleepersQueued ==
    \A t \in Threads : Sleeping(t) =>
        /\ Queued(mine[t])
        /\ slot[mine[t]].valid
        /\ \A u \in Threads \ {t} :
               Alive(u) /\ pc[u] = "blocked" => mine[u] # mine[t]

(* The number of queued semaphores never exceeds half of the ring, the limit *)
(* enqueue_semaphore() enforces, although head moves before the test throws: *)
(* the thrower dies with the mutex and nobody enqueues after it.             *)
HalfRing == Size <= BufferSize \div 2

(* The inductive invariant behind the two: who is inside the critical        *)
(* section has the mutex; the limit is only reached by a thread that dies    *)
(* with the mutex; as long as the owner lives, what is queued is constructed *)
(* and not posted; live threads block on different slots.                    *)
MutexHeld == \A t \in Threads : mutex = t <=> pc[t] \in {"in", "drain"}

LimitEndsAll == Size = BufferSize \div 2 => mutex \in dead

QueueConstructed ==
    mutex \notin dead => \A i \in Slots : Queued(i) => slot[i] = Constructed

BlockedApart ==
    \A t, u \in Threads : (/\ t # u
                           /\ Alive(t) /\ pc[t] = "blocked"
                           /\ Alive(u) /\ pc[u] = "blocked") => mine[t] # mine[u]

SleepersInQueue ==
    \A t \in Threads : Sleeping(t) => Queued(mine[t]) /\ slot[mine[t]].valid

IInv == /\ TypeOK
        /\ MutexHeld
        /\ HalfRing
        /\ LimitEndsAll
        /\ QueueConstructed
        /\ BlockedApart
        /\ SleepersInQueue

(* The ring of semaphores implements a condition variable: the abstract wait *)
(* set is the set of sleepers, and a notify_all() that has the mutex has     *)
(* notified everybody although it posts one semaphore at a time.             *)
Draining == mutex # NoThread /\ pc[mutex] = "drain"
InWait == {t \in Threads : Alive(t) /\ pc[t] \in {"blocked", "relock"}}
Waiting == IF Draining THEN {} ELSE {t \in Threads : Sleeping(t)}

Abstract == INSTANCE Monitor WITH owner <- IF mutex \in dead THEN Abandoned ELSE mutex,
                                  waiting <- Waiting,
                                  woken <- InWait \ Waiting

ImplementsMonitor == Abstract!Spec

(* Every thread that is blocked when notify_all() has the mutex wakes, in    *)
(* whatever order the semaphores are posted and the threads scheduled,       *)
(* unless it or the notifier is killed or a semaphore is destroyed in use.   *)
NotifiedWake ==
    \A t, u \in Threads :
        (pc[t] = "blocked" /\ Alive(t) /\ pc[u] = "drain" /\ Alive(u))
            ~> (pc[t] # "blocked" \/ ~Alive(t) \/ ~Alive(u) \/ undefined)
=============================================================================
