------------------------ MODULE SharedMemoryProofs ------------------------
(* Proofs about what threads share: the SharedMonitor's queue of semaphores, *)
(* for every number of threads, every ring size and any number of kills, and *)
(* the words of a PackedVector, for every width of words and elements and    *)
(* every number of threads.                                                  *)
EXTENDS SharedMonitor, PackedVector, FiniteSetTheorems, WellFoundedInduction, TLAPS

Limit == BufferSize \div 2

(* Half of a ring of at least two slots is at least one slot and not all. *)
LEMMA LimitFacts == Limit \in Nat /\ Limit >= 1 /\ Limit < BufferSize
  BY BufferAssumption DEF Limit

(* The next slot is one further, and after the last slot comes the first. *)
LEMMA SuccIs == ASSUME NEW i \in Slots
                PROVE  /\ Succ(i) \in Slots
                       /\ Succ(i) = IF i = BufferSize - 1 THEN 0 ELSE i + 1
  <1>1. CASE i = BufferSize - 1
    <2>1. (i + 1) % BufferSize = 0
      BY <1>1, BufferAssumption DEF Slots
    <2> QED BY <1>1, <2>1, BufferAssumption DEF Succ, Slots
  <1>2. CASE i # BufferSize - 1
    <2>1. (i + 1) % BufferSize = i + 1
      BY <1>2, BufferAssumption DEF Slots
    <2> QED BY <1>2, <2>1, BufferAssumption DEF Succ, Slots
  <1> QED BY <1>1, <1>2

(* Distances are measured within one round of the ring. *)
LEMMA DistanceFacts ==
  ASSUME NEW a \in Slots, NEW b \in Slots
  PROVE  /\ Distance(a, b) \in 0 .. BufferSize - 1
         /\ Distance(a, b) = 0 <=> a = b
         /\ \A c \in Slots : Distance(a, c) = Distance(a, b) => c = b
  BY BufferAssumption DEF Distance, Slots

(* Moving the far end one on adds one, unless the ring is full; moving the   *)
(* near end one on takes one away, unless it is empty.                       *)
LEMMA DistanceSucc ==
  ASSUME NEW a \in Slots, NEW b \in Slots
  PROVE  /\ Distance(a, b) < BufferSize - 1 => Distance(a, Succ(b)) = Distance(a, b) + 1
         /\ Distance(a, b) = BufferSize - 1 => Distance(a, Succ(b)) = 0
         /\ a # b => Distance(Succ(a), b) = Distance(a, b) - 1
  BY SuccIs, BufferAssumption DEF Distance, Slots

(* The invariant holds of a fresh block: an empty ring and nobody inside. *)
LEMMA InitInv == Init => IInv
  <1> SUFFICES ASSUME Init PROVE IInv
    OBVIOUS
  <1>1. 0 \in Slots /\ Size = 0
    BY BufferAssumption DEF Init, Slots, Size, Distance
  <1>2. TypeOK
    <2>1. slot \in [Slots -> Semaphores]
      BY DEF Init, Semaphores, Invalid
    <2>2. /\ mutex \in Threads \cup {NoThread}
          /\ pc \in [Threads -> Locations]
          /\ mine \in [Threads -> Slots]
          /\ dead \subseteq Threads
          /\ kills \in 0 .. MaxKills
      BY <1>1, MaxKillsAssumption DEF Init, Locations
    <2> QED BY <1>1, <2>1, <2>2, ZenonT(30) DEF Init, TypeOK
  <1>3. \A i \in Slots : ~Queued(i)
    BY <1>1, DistanceFacts DEF Init, Queued
  <1>4. MutexHeld /\ BlockedApart /\ SleepersInQueue
    BY NoThreadAssumption DEF Init, MutexHeld, BlockedApart, SleepersInQueue, Sleeping
  <1>5. HalfRing /\ LimitEndsAll
    BY <1>1, LimitFacts DEF HalfRing, LimitEndsAll, Limit
  <1>6. QueueConstructed
    BY <1>3 DEF QueueConstructed
  <1> QED BY <1>2, <1>4, <1>5, <1>6 DEF IInv

(* A step that only moves threads into and out of the critical section. *)
QuietStep(t) == Lock(t) \/ Unlock(t) \/ Relock(t) \/ NotifyLock(t) \/ NotifyDone(t)

LEMMA QuietInv ==
  ASSUME IInv, NEW t \in Threads, QuietStep(t)
  PROVE  IInv'
  <1>0. /\ TypeOK /\ MutexHeld /\ HalfRing /\ LimitEndsAll
        /\ QueueConstructed /\ BlockedApart /\ SleepersInQueue
    BY DEF IInv
  <1>1. /\ UNCHANGED <<head, tail, slot, mine, dead, kills, undefined>>
        /\ t \notin dead
        /\ mutex \notin dead /\ mutex' \notin dead
    BY <1>0, NoThreadAssumption
    DEF QuietStep, Lock, Unlock, Relock, NotifyLock, NotifyDone, ring, Alive, TypeOK, MutexHeld
  <1>2. /\ pc' \in [Threads -> Locations]
        /\ mutex' \in Threads \cup {NoThread}
        /\ \A u \in Threads : pc'[u] = "blocked" => pc[u] = "blocked"
    BY <1>0
    DEF QuietStep, Lock, Unlock, Relock, NotifyLock, NotifyDone, TypeOK, Locations
  <1>3. TypeOK'
    BY <1>0, <1>1, <1>2 DEF TypeOK
  <1>4. MutexHeld'
    BY <1>0, NoThreadAssumption
    DEF QuietStep, Lock, Unlock, Relock, NotifyLock, NotifyDone, TypeOK, MutexHeld
  <1>5. Size' = Size /\ \A i : Queued(i)' <=> Queued(i)
    BY <1>1 DEF Size, Queued
  <1>6. HalfRing' /\ LimitEndsAll' /\ QueueConstructed'
    BY <1>0, <1>1, <1>5 DEF HalfRing, LimitEndsAll, QueueConstructed
  <1>7. BlockedApart'
    BY <1>0, <1>1, <1>2 DEF BlockedApart, Alive
  <1>8. SleepersInQueue'
    BY <1>0, <1>1, <1>2, <1>5 DEF SleepersInQueue, Sleeping, Alive
  <1> QED BY <1>3, <1>4, <1>6, <1>7, <1>8 DEF IInv

(* wait() queues the caller behind everybody else. *)
LEMMA WaitInv ==
  ASSUME IInv, NEW t \in Threads, Wait(t)
  PROVE  IInv'
  <1>0. /\ TypeOK /\ MutexHeld /\ HalfRing /\ LimitEndsAll
        /\ QueueConstructed /\ BlockedApart /\ SleepersInQueue
    BY DEF IInv
  <1>1. /\ head \in Slots /\ tail \in Slots /\ mutex = t /\ t \notin dead
        /\ NoThread \notin dead
    BY <1>0, NoThreadAssumption DEF TypeOK, MutexHeld, Wait, Alive
  <1>2. /\ head' = Succ(head) /\ tail' = tail
        /\ slot' = [slot EXCEPT ![head] = Constructed]
        /\ mine' = [mine EXCEPT ![t] = head]
        /\ pc' = [pc EXCEPT ![t] = "blocked"]
        /\ mutex' = NoThread
        /\ UNCHANGED <<dead, kills, undefined>>
        /\ ~InUse(head)
    BY DEF Wait
  <1>3. Size < Limit
    BY <1>0, <1>1, LimitFacts, DistanceFacts DEF HalfRing, LimitEndsAll, Limit, Size
  <1>4. Size' = Size + 1 /\ Size + 1 < Limit
    <2>1. Distance(tail, Succ(head)) = Size + 1
      BY <1>1, <1>3, LimitFacts, DistanceFacts, DistanceSucc, BufferAssumption DEF Size
    <2> QED BY <1>1, <1>2, <2>1, LimitFacts, DistanceFacts DEF Wait, Full, Limit, Size
  <1>5. /\ Distance(tail', head) < Size'
        /\ \A i \in Slots : Distance(tail', i) < Size' => Queued(i) \/ i = head
        /\ \A i \in Slots : Queued(i) => Distance(tail', i) < Size'
    BY <1>1, <1>2, <1>4, DistanceFacts, BufferAssumption DEF Queued, Size
  <1>6. TypeOK'
    <2>1. slot' \in [Slots -> Semaphores]
      BY <1>0, <1>1, <1>2 DEF TypeOK, Semaphores, Constructed
    <2> QED BY <1>0, <1>1, <1>2, <2>1, SuccIs DEF TypeOK, Locations
  <1>7. MutexHeld'
    BY <1>0, <1>1, <1>2, NoThreadAssumption DEF MutexHeld, TypeOK
  <1>8. HalfRing' /\ LimitEndsAll'
    BY <1>1, <1>4, DistanceFacts, LimitFacts DEF HalfRing, LimitEndsAll, Limit, Size
  <1>9. QueueConstructed'
    BY <1>0, <1>1, <1>2, <1>5 DEF QueueConstructed, TypeOK, Queued
  <1>10. \A u \in Threads \ {t} :
            /\ pc'[u] = pc[u] /\ mine'[u] = mine[u]
            /\ u \notin dead /\ pc[u] = "blocked" => mine[u] # head
    BY <1>0, <1>2 DEF InUse, Alive, TypeOK
  <1>11. mine'[t] = head
    BY <1>0, <1>2 DEF TypeOK
  <1>12. BlockedApart'
    BY <1>0, <1>2, <1>10, <1>11 DEF BlockedApart, Alive
  <1>13. SleepersInQueue'
    <2> SUFFICES ASSUME NEW u \in Threads, Sleeping(u)'
                 PROVE  Queued(mine[u])' /\ slot'[mine'[u]].valid
      BY DEF SleepersInQueue
    <2>1. CASE u = t
      BY <1>0, <1>1, <1>2, <1>5, <1>11, <2>1 DEF TypeOK, Constructed, Queued
    <2>2. CASE u # t
      <3>1. /\ pc[u] = "blocked" /\ mine'[u] = mine[u] /\ mine[u] # head
            /\ u \notin dead /\ mine[u] \in Slots
        BY <1>0, <1>2, <1>10, <2>2 DEF Sleeping, Alive, TypeOK
      <3>2. slot'[mine[u]] = slot[mine[u]]
        BY <1>0, <1>1, <1>2, <3>1 DEF TypeOK
      <3>3. Sleeping(u)
        BY <3>1, <3>2 DEF Sleeping, Alive
      <3> QED BY <1>0, <1>5, <3>1, <3>2, <3>3 DEF SleepersInQueue, Queued
    <2> QED BY <2>1, <2>2
  <1> QED BY <1>6, <1>7, <1>8, <1>9, <1>12, <1>13 DEF IInv

(* The wait() that finds the ring half full leaves a hole at the head of the *)
(* queue and dies with the mutex.                                            *)
LEMMA WaitThrowsInv ==
  ASSUME IInv, NEW t \in Threads, WaitThrows(t)
  PROVE  IInv'
  <1>0. /\ TypeOK /\ MutexHeld /\ HalfRing /\ LimitEndsAll
        /\ QueueConstructed /\ BlockedApart /\ SleepersInQueue
    BY DEF IInv
  <1>1. /\ head \in Slots /\ tail \in Slots /\ mutex = t /\ t \notin dead
        /\ head' = Succ(head) /\ dead' = dead \cup {t}
        /\ UNCHANGED <<mutex, tail, slot, pc, mine, kills, undefined>>
    BY <1>0 DEF TypeOK, MutexHeld, WaitThrows, Alive
  <1>2. Size < Limit
    BY <1>0, <1>1, LimitFacts, DistanceFacts DEF HalfRing, LimitEndsAll, Limit, Size
  <1>3. Size' = Size + 1 /\ Size' <= Limit
    BY <1>1, <1>2, LimitFacts, DistanceFacts, DistanceSucc, BufferAssumption DEF Size
  <1>4. \A i \in Slots : Queued(i) => Distance(tail', i) < Size'
    BY <1>1, <1>3, DistanceFacts, BufferAssumption DEF Queued, Size
  <1>5. TypeOK'
    BY <1>0, <1>1, SuccIs DEF TypeOK
  <1>6. MutexHeld' /\ LimitEndsAll' /\ QueueConstructed' /\ BlockedApart'
    BY <1>0, <1>1 DEF MutexHeld, LimitEndsAll, QueueConstructed, BlockedApart, Alive
  <1>7. HalfRing'
    BY <1>3 DEF HalfRing, Limit
  <1>8. SleepersInQueue'
    BY <1>0, <1>1, <1>4 DEF SleepersInQueue, Sleeping, Alive, Queued, TypeOK
  <1> QED BY <1>5, <1>6, <1>7, <1>8 DEF IInv

(* A thread leaves semaphore->wait(): its slot has been posted, hence is not *)
(* queued any more, and nobody else blocks on it.                            *)
LEMMA SemWaitInv ==
  ASSUME IInv, NEW t \in Threads, SemWait(t)
  PROVE  IInv'
  <1>0. /\ TypeOK /\ MutexHeld /\ HalfRing /\ LimitEndsAll
        /\ QueueConstructed /\ BlockedApart /\ SleepersInQueue
    BY DEF IInv
  <1> DEFINE m == mine[t]
  <1>1. /\ m \in Slots /\ t \notin dead /\ pc[t] = "blocked"
        /\ slot[m] \in Semaphores /\ slot[m].count > 0
        /\ UNCHANGED <<mutex, head, tail, mine, dead, kills, undefined>>
    BY <1>0 DEF TypeOK, SemWait, Alive
  <1>2. /\ slot' \in [Slots -> Semaphores]
        /\ slot'[m].valid = slot[m].valid
        /\ \A i \in Slots \ {m} : slot'[i] = slot[i]
    BY <1>0, <1>1 DEF TypeOK, SemWait, Semaphores
  <1>3. /\ pc' \in [Threads -> Locations]
        /\ pc'[t] = "relock"
        /\ \A u \in Threads \ {t} : pc'[u] = pc[u]
    BY <1>0 DEF TypeOK, SemWait, Locations
  <1>4. TypeOK'
    BY <1>0, <1>1, <1>2, <1>3 DEF TypeOK
  <1>5. MutexHeld'
    BY <1>0, <1>1, <1>3 DEF MutexHeld
  <1>6. HalfRing' /\ LimitEndsAll'
    BY <1>0, <1>1 DEF HalfRing, LimitEndsAll, Size
  <1>7. QueueConstructed'
    BY <1>0, <1>1, <1>2 DEF QueueConstructed, Constructed, Queued, Size
  <1>8. BlockedApart'
    BY <1>0, <1>1, <1>3 DEF BlockedApart, Alive
  <1>9. SleepersInQueue'
    <2> SUFFICES ASSUME NEW u \in Threads, Sleeping(u)'
                 PROVE  Queued(mine[u])' /\ slot'[mine'[u]].valid
      BY DEF SleepersInQueue
    <2>1. u # t /\ pc[u] = "blocked" /\ u \notin dead
      BY <1>1, <1>3 DEF Sleeping, Alive
    <2>2. mine[u] # m /\ mine[u] \in Slots
      BY <1>0, <1>1, <2>1 DEF BlockedApart, Alive, TypeOK
    <2>3. Sleeping(u)
      BY <1>1, <1>2, <2>1, <2>2 DEF Sleeping, Alive
    <2> QED BY <1>0, <1>1, <1>2, <2>2, <2>3 DEF SleepersInQueue, Queued, Size
  <1> QED BY <1>4, <1>5, <1>6, <1>7, <1>8, <1>9 DEF IInv

(* notify_all() posts the semaphore at the tail and takes it off the queue. *)
LEMMA PostInv ==
  ASSUME IInv, NEW t \in Threads, Post(t)
  PROVE  IInv'
  <1>0. /\ TypeOK /\ MutexHeld /\ HalfRing /\ LimitEndsAll
        /\ QueueConstructed /\ BlockedApart /\ SleepersInQueue
    BY DEF IInv
  <1>1. /\ head \in Slots /\ tail \in Slots /\ tail # head
        /\ tail' = Succ(tail) /\ mutex = t /\ t \notin dead
        /\ UNCHANGED <<mutex, head, pc, mine, dead, kills, undefined>>
    BY <1>0 DEF TypeOK, MutexHeld, Post, Alive, Empty
  <1>2. Size' = Size - 1
    BY <1>1, DistanceSucc DEF Size
  <1>3. \A i \in Slots \ {tail} : Distance(tail', i) = Distance(tail, i) - 1
    BY <1>1, DistanceSucc
  <1>4. Distance(tail', tail) >= Size'
    BY <1>1, <1>2, SuccIs, BufferAssumption DEF Distance, Slots, Size
  <1>5. \A i \in Slots : Distance(tail', i) < Size' <=> Queued(i) /\ i # tail
    <2> TAKE i \in Slots
    <2>1. Size \in Int /\ Distance(tail, i) \in Int
      BY <1>1, DistanceFacts, BufferAssumption DEF Size
    <2>2. CASE i = tail
      BY <1>1, <1>2, <1>4, <2>1, <2>2, SuccIs, DistanceFacts, BufferAssumption
    <2>3. CASE i # tail
      BY <1>2, <1>3, <2>1, <2>3 DEF Queued
    <2> QED BY <2>2, <2>3
  <1>6. Queued(tail) /\ slot[tail] = Constructed
    <2>1. Queued(tail)
      BY <1>1, DistanceFacts, BufferAssumption DEF Queued, Size
    <2> QED BY <1>0, <1>1, <2>1 DEF QueueConstructed
  <1>7. /\ slot' \in [Slots -> Semaphores]
        /\ slot'[tail].count = 1
        /\ \A i \in Slots \ {tail} : slot'[i] = slot[i]
    <2>1. slot[tail].count + 1 = 1
      BY <1>6 DEF Constructed
    <2>2. slot' = [slot EXCEPT ![tail].count = 1]
      BY <2>1, ZenonT(30) DEF Post
    <2>3. /\ [slot[tail] EXCEPT !.count = 1] \in Semaphores
          /\ [slot[tail] EXCEPT !.count = 1].count = 1
      BY <1>0, <1>1 DEF TypeOK, Semaphores
    <2> QED BY <1>0, <1>1, <2>2, <2>3 DEF TypeOK
  <1>8. TypeOK'
    BY <1>0, <1>1, <1>7, SuccIs DEF TypeOK
  <1>9. MutexHeld' /\ BlockedApart'
    BY <1>0, <1>1 DEF MutexHeld, BlockedApart, Alive
  <1>10. HalfRing' /\ LimitEndsAll'
    BY <1>0, <1>1, <1>2, LimitFacts, DistanceFacts, BufferAssumption
    DEF HalfRing, LimitEndsAll, Limit, Size
  <1>11. QueueConstructed'
    BY <1>0, <1>1, <1>5, <1>7 DEF QueueConstructed, Queued
  <1>12. SleepersInQueue'
    <2> SUFFICES ASSUME NEW u \in Threads, Sleeping(u)'
                 PROVE  Queued(mine[u])' /\ slot'[mine'[u]].valid
      BY DEF SleepersInQueue
    <2>1. mine'[u] = mine[u] /\ mine[u] \in Slots /\ mine[u] # tail
      BY <1>0, <1>1, <1>7 DEF Sleeping, TypeOK
    <2>2. Sleeping(u)
      BY <1>1, <1>7, <2>1 DEF Sleeping, Alive
    <2> QED BY <1>0, <1>5, <1>7, <2>1, <2>2 DEF SleepersInQueue, Queued
  <1> QED BY <1>8, <1>9, <1>10, <1>11, <1>12 DEF IInv

(* A death leaves ring and mutex as they are; a process that replaces a dead *)
(* one starts outside of the critical section.                               *)
LEMMA DeathInv ==
  ASSUME IInv, NEW t \in Threads, Kill(t) \/ Restart(t)
  PROVE  IInv'
  <1>0. /\ TypeOK /\ MutexHeld /\ HalfRing /\ LimitEndsAll
        /\ QueueConstructed /\ BlockedApart /\ SleepersInQueue
    BY DEF IInv
  <1>1. /\ UNCHANGED <<mutex, head, tail, slot, mine, undefined>>
        /\ mutex \in dead => mutex \in dead'
        /\ dead' \subseteq Threads
    BY <1>0 DEF Kill, Restart, ring, TypeOK
  <1>2. \A u \in Threads : u \notin dead' /\ pc'[u] = "blocked" =>
                              u \notin dead /\ pc[u] = "blocked"
    BY <1>0 DEF Kill, Restart, TypeOK
  <1>3. kills' \in 0 .. MaxKills /\ pc' \in [Threads -> Locations]
    BY <1>0, MaxKillsAssumption DEF Kill, Restart, TypeOK, Locations
  <1>4. TypeOK'
    BY <1>0, <1>1, <1>3 DEF TypeOK
  <1>5. MutexHeld'
    BY <1>0 DEF Kill, Restart, MutexHeld, TypeOK
  <1>6. HalfRing' /\ LimitEndsAll' /\ QueueConstructed'
    BY <1>0, <1>1 DEF HalfRing, LimitEndsAll, QueueConstructed, Queued, Size
  <1>7. BlockedApart'
    BY <1>0, <1>1, <1>2 DEF BlockedApart, Alive
  <1>8. SleepersInQueue'
    BY <1>0, <1>1, <1>2 DEF SleepersInQueue, Sleeping, Alive, Queued, Size
  <1> QED BY <1>4, <1>5, <1>6, <1>7, <1>8 DEF IInv

(* Every step preserves the invariant. *)
LEMMA NextInv == IInv /\ [Next]_vars => IInv'
  <1> SUFFICES ASSUME IInv, [Next]_vars PROVE IInv'
    OBVIOUS
  <1>1. CASE UNCHANGED vars
    BY <1>1 DEF IInv, vars, TypeOK, MutexHeld, HalfRing, LimitEndsAll, QueueConstructed,
                BlockedApart, SleepersInQueue, Sleeping, Alive, Queued, Size
  <1>2. CASE Next
    <2>1. PICK t \in Threads : Step(t)
      BY <1>2, SMTT(30) DEF Next
    <2>2. CASE WaitClobbers(t)
      <3>1. TypeOK'
        BY <2>2 DEF IInv, WaitClobbers, TypeOK, ring
      <3> QED BY <2>2, <3>1 DEF IInv, WaitClobbers, ring, MutexHeld, HalfRing, LimitEndsAll,
                 QueueConstructed, BlockedApart, SleepersInQueue, Sleeping, Alive, Queued, Size
    <2> QED BY <2>1, <2>2, QuietInv, WaitInv, WaitThrowsInv, SemWaitInv, PostInv, DeathInv
            DEF Step, QuietStep
  <1> QED BY <1>1, <1>2

(* For any number of threads and any ring: the variables of the monitor stay *)
(* well-typed; in particular no semaphore is posted twice before its thread  *)
(* runs, and a killed process never makes the ring indices leave the ring.   *)
THEOREM MonitorTyped == Spec => []TypeOK
  <1>1. IInv => TypeOK
    BY DEF IInv
  <1> QED BY <1>1, InitInv, NextInv, PTL DEF Spec

(* For any number of threads and any ring: notify_all() never misses a       *)
(* thread that sleeps in wait(), whoever was killed before.                  *)
THEOREM NobodyForgotten == Spec => []SleepersQueued
  <1>1. IInv => SleepersQueued
    BY DEF IInv, SleepersQueued, SleepersInQueue, BlockedApart, Sleeping
  <1> QED BY <1>1, InitInv, NextInv, PTL DEF Spec

(* For any number of threads and any ring: at most half of the ring is ever  *)
(* queued, so head never runs into tail.                                     *)
THEOREM NeverOverHalf == Spec => []HalfRing
  <1>1. IInv => HalfRing
    BY DEF IInv
  <1> QED BY <1>1, InitInv, NextInv, PTL DEF Spec

(***************************************************************************)
(* The ring implements a condition variable                                *)
(***************************************************************************)
(* A fresh block is a free monitor that nobody waits on. *)
LEMMA RefinementInit == Init => Abstract!Init
  BY NoThreadAssumption DEF Init, Abstract!Init, Waiting, InWait, Sleeping, Draining

(* The steps of the threads that take and release the mutex *)
LEMMA RefinementQuiet ==
  ASSUME IInv, NEW t \in Threads, QuietStep(t)
  PROVE  Abstract!Next
  <1>0. TypeOK /\ MutexHeld /\ SleepersInQueue
    BY DEF IInv
  <1>1. /\ UNCHANGED <<head, tail, slot, mine, dead>> /\ t \notin dead
        /\ pc' = [pc EXCEPT ![t] = pc'[t]]
        /\ \A u \in Threads \ {t} : pc'[u] = pc[u]
        /\ \A u \in Threads \ {t} : Sleeping(u)' <=> Sleeping(u)
        /\ pc[t] # "blocked" /\ pc'[t] # "blocked"
    BY <1>0, SMTT(30) DEF QuietStep, Lock, Unlock, Relock, NotifyLock, NotifyDone, ring, Alive, TypeOK,
                Sleeping
  <1>2. {u \in Threads : Sleeping(u)}' = {u \in Threads : Sleeping(u)}
    BY <1>1 DEF Sleeping
  <1>3. CASE Lock(t)
    <2>1. Waiting' = Waiting /\ InWait' = InWait /\ t \notin InWait /\ Waiting \subseteq InWait
      BY <1>0, <1>1, <1>2, <1>3, NoThreadAssumption
      DEF Lock, Waiting, InWait, Draining, Alive, TypeOK, Sleeping
    <2>2. Abstract!Lock(t)
      BY <1>0, <1>3, <2>1, NoThreadAssumption
      DEF Lock, Abstract!Lock, Abstract!Outside, Alive, TypeOK
    <2> QED BY <2>2 DEF Abstract!Next
  <1>4. CASE Unlock(t)
    <2>1. Abstract!Unlock(t)
      BY <1>0, <1>1, <1>2, <1>4, NoThreadAssumption
      DEF Unlock, Abstract!Unlock, Waiting, InWait, Draining, Alive, TypeOK, MutexHeld
    <2> QED BY <2>1 DEF Abstract!Next
  <1>5. CASE Relock(t)
    <2>1. Abstract!Relock(t)
      BY <1>0, <1>1, <1>2, <1>5, NoThreadAssumption
      DEF Relock, Abstract!Relock, Waiting, InWait, Draining, Alive, TypeOK, Sleeping
    <2> QED BY <2>1 DEF Abstract!Next
  <1>6. CASE NotifyLock(t)
    <2>1. Abstract!NotifyAll(t)
      BY <1>0, <1>1, <1>2, <1>6, NoThreadAssumption
      DEF NotifyLock, Abstract!NotifyAll, Abstract!Outside, Waiting, InWait, Draining, Alive,
          TypeOK, Sleeping
    <2> QED BY <2>1 DEF Abstract!Next
  <1>7. CASE NotifyDone(t)
    <2>1. {u \in Threads : Sleeping(u)} = {}
      BY <1>0, <1>7, DistanceFacts DEF NotifyDone, Empty, SleepersInQueue, Queued, Size, TypeOK
    <2>2. Abstract!Unlock(t)
      BY <1>0, <1>1, <1>2, <1>7, <2>1, NoThreadAssumption
      DEF NotifyDone, Abstract!Unlock, Waiting, InWait, Draining, Alive, TypeOK, MutexHeld
    <2> QED BY <2>2 DEF Abstract!Next
  <1> QED BY <1>3, <1>4, <1>5, <1>6, <1>7 DEF QuietStep

(* wait() is one step of the condition variable. *)
LEMMA RefinementWait ==
  ASSUME IInv, NEW t \in Threads, Wait(t)
  PROVE  Abstract!Next
  <1>0. TypeOK /\ MutexHeld
    BY DEF IInv
  <1>1. /\ mutex = t /\ mutex' = NoThread /\ t \notin dead /\ dead' = dead
        /\ ~Draining /\ ~Draining'
    BY <1>0, NoThreadAssumption DEF Wait, Alive, TypeOK, MutexHeld, Draining
  <1>2. Sleeping(t)' /\ ~Sleeping(t)
    BY <1>0 DEF Wait, Sleeping, Alive, TypeOK, Constructed
  <1>3. \A u \in Threads \ {t} : Sleeping(u)' <=> Sleeping(u)
    <2> TAKE u \in Threads \ {t}
    <2>1. /\ pc'[u] = pc[u] /\ mine'[u] = mine[u] /\ dead' = dead
          /\ u \notin dead /\ pc[u] = "blocked" => mine[u] # head
      BY <1>0 DEF Wait, InUse, Alive, TypeOK
    <2>2. u \notin dead /\ pc[u] = "blocked" => slot'[mine[u]] = slot[mine[u]]
      BY <1>0, <2>1 DEF Wait, TypeOK
    <2> QED BY <2>1, <2>2 DEF Sleeping, Alive
  <1>4. Waiting' = Waiting \cup {t} /\ t \notin Waiting
    BY <1>1, <1>2, <1>3 DEF Waiting
  <1>5. InWait' = InWait \cup {t} /\ t \notin InWait
    BY <1>0, <1>1 DEF Wait, InWait, Alive, TypeOK
  <1>6. Abstract!Wait(t)
    BY <1>0, <1>1, <1>4, <1>5, NoThreadAssumption DEF Abstract!Wait, TypeOK
  <1> QED BY <1>6 DEF Abstract!Next

(* A semaphore that is posted or passed is invisible: its thread counts as   *)
(* notified from the moment notify_all() has the mutex.                      *)
LEMMA RefinementSemaphore ==
  ASSUME IInv, NEW t \in Threads, SemWait(t) \/ Post(t)
  PROVE  UNCHANGED Abstract!vars
  <1>0. TypeOK /\ MutexHeld /\ BlockedApart
    BY DEF IInv
  <1>1. UNCHANGED <<mutex, dead>>
    BY DEF SemWait, Post
  <1>2. InWait' = InWait
    BY <1>0 DEF SemWait, Post, InWait, Alive, TypeOK
  <1>3. Waiting' = Waiting
    <2>1. CASE SemWait(t)
      <3>1. Draining' <=> Draining
        BY <1>0, <2>1 DEF SemWait, Draining, TypeOK
      <3>2. ~Sleeping(t)' /\ ~Sleeping(t)
        BY <1>0, <2>1 DEF SemWait, Sleeping, TypeOK, Semaphores
      <3>3. \A u \in Threads \ {t} : Sleeping(u)' <=> Sleeping(u)
        <4> TAKE u \in Threads \ {t}
        <4>1. /\ pc'[u] = pc[u] /\ mine' = mine /\ dead' = dead
              /\ u \notin dead /\ pc[u] = "blocked" => mine[u] # mine[t]
          BY <1>0, <2>1 DEF SemWait, Alive, TypeOK, BlockedApart
        <4>2. u \notin dead /\ pc[u] = "blocked" => slot'[mine[u]] = slot[mine[u]]
          BY <1>0, <2>1, <4>1 DEF SemWait, TypeOK
        <4> QED BY <4>1, <4>2 DEF Sleeping, Alive
      <3> QED BY <3>1, <3>2, <3>3 DEF Waiting
    <2>2. CASE Post(t)
      BY <1>0, <2>2, NoThreadAssumption DEF Post, Draining, Waiting, TypeOK, MutexHeld
    <2> QED BY <2>1, <2>2
  <1> QED BY <1>1, <1>2, <1>3 DEF Abstract!vars

(* A death, by a signal or by the exception of a full ring *)
LEMMA RefinementDeath ==
  ASSUME IInv, NEW t \in Threads, Kill(t) \/ WaitThrows(t)
  PROVE  Abstract!Next
  <1>0. TypeOK /\ MutexHeld
    BY DEF IInv
  <1>1. /\ UNCHANGED <<mutex, slot, pc, mine>>
        /\ dead' = dead \cup {t} /\ t \notin dead
    BY DEF Kill, WaitThrows, ring, Alive
  <1>2. Waiting' = Waiting \ {t} /\ InWait' = InWait \ {t}
    BY <1>0, <1>1 DEF Waiting, InWait, Draining, Sleeping, Alive
  <1>3. Abstract!Die({t})
    BY <1>0, <1>1, <1>2, NoThreadAssumption DEF Abstract!Die, TypeOK
  <1> QED BY <1>3 DEF Abstract!Next

(* For any number of threads and any ring, SharedMonitor's semaphores        *)
(* implement a condition variable: waiting is atomic with giving the mutex   *)
(* up, and notify_all() reaches exactly the threads that wait when it gets   *)
(* the mutex, although the code posts one semaphore after the other.         *)
THEOREM MonitorImplemented == Spec => ImplementsMonitor
  <1>1. IInv /\ [Next]_vars => [Abstract!Next]_Abstract!vars
    <2> SUFFICES ASSUME IInv, [Next]_vars PROVE Abstract!Next \/ UNCHANGED Abstract!vars
      OBVIOUS
    <2>1. CASE UNCHANGED vars
      BY <2>1 DEF vars, Abstract!vars, Waiting, InWait, Draining, Sleeping, Alive
    <2>2. CASE Next
      <3>1. PICK t \in Threads : Step(t)
        BY <2>2 DEF Next
      <3>2. CASE WaitClobbers(t)
        BY <3>2 DEF WaitClobbers, ring, Abstract!vars, Waiting, InWait, Draining, Sleeping, Alive
      <3>3. CASE Restart(t)
        <4>1. /\ UNCHANGED <<mutex, slot, mine>> /\ mutex # t
              /\ dead' = dead \ {t} /\ t \in dead /\ pc'[t] = "out"
              /\ \A u \in Threads \ {t} : pc'[u] = pc[u]
          BY <3>3 DEF Restart, ring, IInv, TypeOK
        <4>2. Draining' <=> Draining
          BY <4>1 DEF Draining, IInv, TypeOK
        <4>3. Waiting' = Waiting /\ InWait' = InWait
          BY <4>1, <4>2, ZenonT(30) DEF Waiting, InWait, Sleeping, Alive
        <4> QED BY <4>1, <4>3 DEF Abstract!vars
      <3> QED BY <3>1, <3>2, <3>3, RefinementQuiet, RefinementWait, RefinementSemaphore,
                 RefinementDeath DEF Step, QuietStep
    <2> QED BY <2>1, <2>2
  <1> QED BY <1>1, InitInv, NextInv, RefinementInit, PTL DEF Spec, ImplementsMonitor, Abstract!Spec

-----------------------------------------------------------------------------
(*****************************************************************************)
(* PackedVector                                                              *)
(*****************************************************************************)
\* Every set of natural numbers but the empty one has a least element: inductions are made
\* on a least counterexample.
LEMMA Least ==
  ASSUME NEW T, T \subseteq Nat, T # {}
  PROVE  \E x \in T : \A y \in T : x <= y
<1> DEFINE R == {ss \in Nat \X Nat : ss[1] < ss[2]}
<1>0. IsWellFoundedOn(R, Nat)
  BY NatLessThanWellFounded, Zenon DEF OpToRel
<1>1. PICK x \in T : \A y \in T : ~ (<<y, x>> \in R)
  <2> HIDE DEF R
  <2> QED BY <1>0, WFMin, Zenon
<1>2. \A y \in T : ~(y < x)
  BY <1>1, Zenon
<1> QED
  BY <1>2

\* Quotient and remainder.
LEMMA Division ==
  ASSUME NEW N \in Nat \ {0}, NEW a \in Int
  PROVE  a = (N * (a \div N)) + (a % N) /\ a \div N \in Int /\ a % N \in 0..(N - 1)
  OBVIOUS

\* There is only one quotient and remainder.
LEMMA DivisionUnique ==
  ASSUME NEW N \in Nat \ {0}, NEW q \in Int, NEW r \in 0..(N - 1), NEW a \in Int, a = N * q + r
  PROVE  a \div N = q /\ a % N = r
  OBVIOUS

\* The quotient of a natural number.
LEMMA DivisionNat ==
  ASSUME NEW N \in Nat \ {0}, NEW a \in Nat
  PROVE  a \div N \in Nat
  OBVIOUS

\* The bits of the vector counted through: the one at a position of a word.
Bit(v, g) == v[g \div WORD_BITS][g % WORD_BITS]
\* The element i of v has the bits of a value.
Has(v, i, value) == \A b \in 0..(Bits - 1) : Bit(v, i * Bits + b) = value[b]

\* Element i begins at bit i * Bits.
LEMMA Layout ==
  ASSUME NEW i \in Nat
  PROVE  /\ lower_word(i) = (i * Bits) \div WORD_BITS
         /\ lower_offset(element(i)) = (i * Bits) % WORD_BITS
         /\ lower_word(i) \in Nat
         /\ lower_offset(element(i)) \in 0..(WORD_BITS - 1)
         /\ i * Bits = WORD_BITS * lower_word(i) + lower_offset(element(i))
<1>0. WORD_BITS \in Nat \ {0} /\ Bits \in Nat \ {0}
  BY BitsAssumption
<1>1. BLOCK_WORDS = Bits
  BY <1>0, DivisionUnique DEF BLOCK_WORDS, BLOCK_ELEMENTS
<1> DEFINE q == i \div WORD_BITS
           e == i % WORD_BITS
           u == (e * Bits) \div WORD_BITS
           l == (e * Bits) % WORD_BITS
<1>2. i = WORD_BITS * q + e /\ q \in Int /\ e \in 0..(WORD_BITS - 1)
  BY <1>0, Division
<1>3. e * Bits = WORD_BITS * u + l /\ u \in Int /\ l \in 0..(WORD_BITS - 1)
  <2>1. e * Bits \in Int
    BY <1>0, <1>2
  <2> HIDE DEF e
  <2> QED BY <1>0, <2>1, Division, Zenon
<1> HIDE DEF q, e, u, l
<1>4. i * Bits = WORD_BITS * (Bits * q + u) + l
  <2>1. i * Bits = WORD_BITS * (Bits * q) + e * Bits
    BY <1>0, <1>2
  <2>2. WORD_BITS * (Bits * q + u) = WORD_BITS * (Bits * q) + WORD_BITS * u
    BY <1>0, <1>2, <1>3
  <2> QED BY <1>0, <1>2, <1>3, <2>1, <2>2
<1>5. Bits * q + u \in Int /\ i * Bits \in Int
  BY <1>0, <1>2, <1>3
<1>6. (i * Bits) \div WORD_BITS = Bits * q + u /\ (i * Bits) % WORD_BITS = l
  <2>1. PICK a \in Int : a = i * Bits
    BY <1>5, Zenon
  <2>2. PICK z \in Int : z = Bits * q + u
    BY <1>5, Zenon
  <2>3. a = WORD_BITS * z + l
    BY <1>4, <2>1, <2>2, Zenon
  <2>4. a \div WORD_BITS = z /\ a % WORD_BITS = l
    BY <1>0, <1>3, <2>3, DivisionUnique
  <2> QED BY <2>1, <2>2, <2>4, Zenon
<1>7. lower_word(i) = Bits * q + u /\ lower_offset(element(i)) = l
  BY <1>1, Zenon DEF lower_word, lower_offset, word_offset, element, BLOCK_ELEMENTS, q, e, u, l
<1>8. i * Bits \in Nat
  BY <1>0
<1>9. (i * Bits) \div WORD_BITS \in Nat
  BY <1>0, <1>8, DivisionNat, Zenon
<1> QED BY <1>3, <1>4, <1>6, <1>7, <1>9, Zenon

\* Where each bit of an element is.
LEMMA Place ==
  ASSUME NEW i \in Nat, NEW b \in 0..(Bits - 1)
  PROVE  /\ i * Bits + b \in Nat
         /\ lower_offset(element(i)) + b < WORD_BITS =>
              /\ (i * Bits + b) \div WORD_BITS = lower_word(i)
              /\ (i * Bits + b) % WORD_BITS = lower_offset(element(i)) + b
         /\ lower_offset(element(i)) + b >= WORD_BITS =>
              /\ (i * Bits + b) \div WORD_BITS = upper_word(i)
              /\ (i * Bits + b) % WORD_BITS = lower_offset(element(i)) + b - WORD_BITS
              /\ lower_offset(element(i)) + b - WORD_BITS \in 0..(WORD_BITS - 1)
<1>0. WORD_BITS \in Nat \ {0} /\ Bits \in Nat \ {0} /\ Bits < WORD_BITS
  BY BitsAssumption
<1> DEFINE w == lower_word(i)
           o == lower_offset(element(i))
<1>1. w \in Nat /\ o \in 0..(WORD_BITS - 1) /\ i * Bits = WORD_BITS * w + o
  BY Layout, Zenon
<1>2. upper_word(i) = w + 1
  BY Zenon DEF upper_word
<1> HIDE DEF w, o
<1>3. i * Bits + b = WORD_BITS * w + (o + b) /\ i * Bits + b \in Nat
  BY <1>0, <1>1
<1>4. ASSUME o + b < WORD_BITS
      PROVE  (i * Bits + b) \div WORD_BITS = w /\ (i * Bits + b) % WORD_BITS = o + b
  BY <1>0, <1>1, <1>3, <1>4, DivisionUnique
<1>5. ASSUME o + b >= WORD_BITS
      PROVE  /\ (i * Bits + b) \div WORD_BITS = w + 1
             /\ (i * Bits + b) % WORD_BITS = o + b - WORD_BITS
             /\ o + b - WORD_BITS \in 0..(WORD_BITS - 1)
  <2>1. o + b - WORD_BITS \in 0..(WORD_BITS - 1)
    BY <1>0, <1>1, <1>5
  <2>2. WORD_BITS * (w + 1) = WORD_BITS * w + WORD_BITS
    BY <1>0, <1>1
  <2>3. i * Bits + b = WORD_BITS * (w + 1) + (o + b - WORD_BITS)
    BY <1>0, <1>1, <1>3, <2>2
  <2>4. PICK z \in Int : z = w + 1
    BY <1>1
  <2>5. PICK r \in 0..(WORD_BITS - 1) : r = o + b - WORD_BITS
    BY <2>1, Zenon
  <2>6. PICK a \in Int : a = i * Bits + b
    BY <1>3
  <2>7. a = WORD_BITS * z + r
    BY <2>3, <2>4, <2>5, <2>6, Zenon
  <2>8. a \div WORD_BITS = z /\ a % WORD_BITS = r
    BY <1>0, <2>7, DivisionUnique, Zenon
  <2> QED BY <2>4, <2>5, <2>6, <2>8, Zenon
<1> QED BY <1>2, <1>3, <1>4, <1>5, Zenon DEF w, o

\* Different elements have no bit in common.
LEMMA Apart ==
  ASSUME NEW i \in Nat, NEW j \in Nat, i # j, NEW b \in 0..(Bits - 1)
  PROVE  (j * Bits + b) - i * Bits \notin 0..(Bits - 1)
<1>0. Bits \in Nat \ {0}
  BY BitsAssumption
<1>1. (j * Bits + b) - i * Bits = (j - i) * Bits + b
  BY <1>0
<1>2. CASE j > i
  <2>1. (j - i) * Bits >= Bits
    BY <1>0, <1>2
  <2> QED BY <1>0, <1>1, <2>1
<1>3. CASE j < i
  <2>1. (i - j) * Bits >= Bits /\ (j - i) * Bits = -((i - j) * Bits)
    BY <1>0, <1>3
  <2> QED BY <1>0, <1>1, <2>1
<1> QED BY <1>2, <1>3

\* Where a bit of the vector is.
LEMMA BitTyped ==
  ASSUME NEW n \in Nat, NEW v \in [0..(n - 1) -> Word], NEW g \in Nat, g \div WORD_BITS < n
  PROVE  Bit(v, g) \in BOOLEAN /\ g \div WORD_BITS \in 0..(n - 1) /\ g % WORD_BITS \in Positions
<1>1. WORD_BITS \in Nat \ {0}
  BY BitsAssumption
<1>2. g \div WORD_BITS \in Nat /\ g % WORD_BITS \in Positions
  <2>1. g \in Int
    OBVIOUS
  <2> QED BY <1>1, <2>1, Division, DivisionNat, Zenon DEF Positions
<1>3. g \div WORD_BITS \in 0..(n - 1)
  BY <1>2
<1> QED BY <1>2, <1>3, Zenon DEF Bit, Word

\* The masks divide the bits of an element among its two words.
LEMMA CombineBits ==
  ASSUME NEW lo \in Word, NEW up \in Word, NEW i \in Nat
  PROVE  /\ Combine(element(i), lo, up) \in Value
         /\ \A b \in 0..(Bits - 1) :
              Combine(element(i), lo, up)[b] =
                IF lower_offset(element(i)) + b < WORD_BITS
                THEN lo[lower_offset(element(i)) + b]
                ELSE up[lower_offset(element(i)) + b - WORD_BITS]
<1>0. WORD_BITS \in Nat \ {0} /\ Bits \in Nat \ {0} /\ Bits < WORD_BITS
  BY BitsAssumption
<1> DEFINE o == lower_offset(element(i))
           e == element(i)
<1>1. o \in 0..(WORD_BITS - 1)
  BY Layout, Zenon
<1>2. Combine(e, lo, up) \in Value
  BY Zenon DEF Combine, Value
<1>3. ASSUME NEW b \in 0..(Bits - 1)
      PROVE  Combine(e, lo, up)[b] = IF o + b < WORD_BITS THEN lo[o + b] ELSE up[o + b - WORD_BITS]
  <2>1. Combine(e, lo, up)[b] = \/ b + o \in lower_mask(e) /\ lo[b + o]
                                \/ b - upper_offset(e) \in upper_mask(e) /\ up[b - upper_offset(e)]
    BY Zenon DEF Combine
  <2>2. b + o \in lower_mask(e) <=> o + b < WORD_BITS
    <3>1. (b + o) - o \in 0..(Bits - 1)
      BY <1>1
    <3>2. b + o \in Positions <=> o + b < WORD_BITS
      BY <1>0, <1>1 DEF Positions
    <3> QED BY <3>1, <3>2, Zenon DEF lower_mask
  <2>3. b - upper_offset(e) \in upper_mask(e) <=> ~(o + b < WORD_BITS)
    <3>1. CASE Sliced(e)
      <4>1. upper_offset(e) = WORD_BITS - o
        BY <3>1, Zenon DEF upper_offset
      <4>2. (b - (WORD_BITS - o)) + (WORD_BITS - o) \in 0..(Bits - 1)
        BY <1>0, <1>1
      <4>3. b - (WORD_BITS - o) \in Positions <=> ~(o + b < WORD_BITS)
        BY <1>0, <1>1 DEF Positions
      <4>4. upper_mask(e) = {k \in Positions : k + (WORD_BITS - o) \in 0..(Bits - 1)}
        BY <3>1, <4>1, Zenon DEF upper_mask
      <4> HIDE DEF o, e
      <4> QED BY <4>1, <4>2, <4>3, <4>4, Zenon
    <3>2. CASE ~Sliced(e)
      <4>1. upper_mask(e) = {} /\ o + Bits <= WORD_BITS
        BY <1>0, <1>1, <3>2 DEF upper_mask, Sliced
      <4> QED BY <1>0, <1>1, <4>1
    <3> QED BY <3>1, <3>2, Zenon
  <2>4. CASE o + b < WORD_BITS
    <3>1. Combine(e, lo, up)[b] <=> lo[b + o]
      BY <2>1, <2>2, <2>3, <2>4, Zenon
    <3>2. Combine(e, lo, up)[b] \in BOOLEAN /\ lo[o + b] \in BOOLEAN /\ b + o = o + b
      BY <1>0, <1>1, <1>2, <2>4 DEF Value, Word, Positions
    <3> QED BY <2>4, <3>1, <3>2, Zenon
  <2>5. CASE ~(o + b < WORD_BITS)
    <3>1. upper_offset(e) = WORD_BITS - o
      BY <2>3, <2>5, Zenon DEF upper_mask, upper_offset
    <3>2. b - upper_offset(e) = o + b - WORD_BITS /\ o + b - WORD_BITS \in Positions
      BY <1>0, <1>1, <2>5, <3>1 DEF Positions
    <3>3. Combine(e, lo, up)[b] <=> up[o + b - WORD_BITS]
      BY <2>1, <2>2, <2>3, <2>5, <3>2, Zenon
    <3>4. Combine(e, lo, up)[b] \in BOOLEAN /\ up[o + b - WORD_BITS] \in BOOLEAN
      BY <1>2, <3>2, Zenon DEF Value, Word
    <3> QED BY <2>5, <3>3, <3>4, Zenon
  <2> QED BY <2>4, <2>5, Zenon
<1> QED BY <1>2, <1>3, Zenon

\* get_value reads the bits of its element.
LEMMA GetBits ==
  ASSUME NEW n \in Nat, NEW v \in [0..(n - 1) -> Word], NEW i \in Nat, upper_word(i) < n
  PROVE  /\ get_value(v, i) \in Value
         /\ \A b \in 0..(Bits - 1) : get_value(v, i)[b] = Bit(v, i * Bits + b)
         /\ \A b \in 0..(Bits - 1) : i * Bits + b \in Nat /\ (i * Bits + b) \div WORD_BITS < n
<1>0. WORD_BITS \in Nat \ {0} /\ Bits \in Nat \ {0} /\ Bits < WORD_BITS
  BY BitsAssumption
<1>1. /\ lower_word(i) \in Nat /\ upper_word(i) = lower_word(i) + 1
      /\ lower_offset(element(i)) \in 0..(WORD_BITS - 1)
  BY Layout, Zenon DEF upper_word
<1>2. lower_word(i) \in 0..(n - 1) /\ upper_word(i) \in 0..(n - 1)
  BY <1>1
<1>3. v[lower_word(i)] \in Word /\ v[upper_word(i)] \in Word
  BY <1>2, Zenon
<1>4. get_value(v, i) = Combine(element(i), v[lower_word(i)], v[upper_word(i)])
  BY <1>2, Zenon DEF get_value, WordAt
<1>5. get_value(v, i) \in Value
  BY <1>3, <1>4, CombineBits
<1>6. ASSUME NEW b \in 0..(Bits - 1)
      PROVE  /\ get_value(v, i)[b] = Bit(v, i * Bits + b)
             /\ i * Bits + b \in Nat /\ (i * Bits + b) \div WORD_BITS < n
  <2>1. get_value(v, i)[b] = IF lower_offset(element(i)) + b < WORD_BITS
                             THEN v[lower_word(i)][lower_offset(element(i)) + b]
                             ELSE v[upper_word(i)][lower_offset(element(i)) + b - WORD_BITS]
    <3>1. PICK lo \in Word : lo = v[lower_word(i)]
      BY <1>3, Zenon
    <3>2. PICK up \in Word : up = v[upper_word(i)]
      BY <1>3, Zenon
    <3>3. Combine(element(i), lo, up)[b] =
            IF lower_offset(element(i)) + b < WORD_BITS
            THEN lo[lower_offset(element(i)) + b]
            ELSE up[lower_offset(element(i)) + b - WORD_BITS]
      BY CombineBits, Zenon
    <3> QED BY <1>4, <3>1, <3>2, <3>3, Zenon
  <2>2. CASE lower_offset(element(i)) + b < WORD_BITS
    <3>1. /\ i * Bits + b \in Nat /\ (i * Bits + b) \div WORD_BITS = lower_word(i)
          /\ (i * Bits + b) % WORD_BITS = lower_offset(element(i)) + b
      BY <2>2, Place, Zenon
    <3>2. lower_word(i) < n
      BY <1>2
    <3> QED BY <2>1, <2>2, <3>1, <3>2, Zenon DEF Bit
  <2>3. CASE ~(lower_offset(element(i)) + b < WORD_BITS)
    <3>0. lower_offset(element(i)) + b >= WORD_BITS
      BY <1>0, <1>1, <2>3
    <3>1. /\ i * Bits + b \in Nat /\ (i * Bits + b) \div WORD_BITS = upper_word(i)
          /\ (i * Bits + b) % WORD_BITS = lower_offset(element(i)) + b - WORD_BITS
      BY <3>0, Place, Zenon
    <3> QED BY <2>1, <2>3, <3>1, Zenon DEF Bit
  <2> QED BY <2>2, <2>3, Zenon
<1> QED BY <1>5, <1>6, Zenon

\* get_value returns a value just when the element has its bits.
LEMMA GetIs ==
  ASSUME NEW n \in Nat, NEW v \in [0..(n - 1) -> Word], NEW i \in Nat, upper_word(i) < n,
         NEW x \in Value
  PROVE  get_value(v, i) = x <=> Has(v, i, x)
<1>1. /\ get_value(v, i) \in Value
      /\ \A b \in 0..(Bits - 1) : get_value(v, i)[b] = Bit(v, i * Bits + b)
  BY GetBits, Zenon
<1>2. get_value(v, i) = x => Has(v, i, x)
  BY <1>1, Zenon DEF Has
<1>3. Has(v, i, x) => get_value(v, i) = x
  <2> SUFFICES ASSUME Has(v, i, x) PROVE get_value(v, i) = x
    BY Zenon
  <2>1. \A b \in 0..(Bits - 1) : get_value(v, i)[b] = x[b]
    BY <1>1, Zenon DEF Has
  <2>2. /\ x = [b \in 0..(Bits - 1) |-> x[b]]
        /\ get_value(v, i) = [b \in 0..(Bits - 1) |-> get_value(v, i)[b]]
    BY <1>1, Zenon DEF Value
  <2> QED BY <2>1, <2>2, Zenon
<1> QED BY <1>2, <1>3, Zenon

\* The two stores of set_value, and what each changes.
StoreLower(v, i, value) ==
  [v EXCEPT ![lower_word(i)] = set_lower_value(v[lower_word(i)], element(i), value)]
StoreUpper(v, i, value) ==
  [v EXCEPT ![upper_word(i)] = set_upper_value(v[upper_word(i)], element(i), value)]

\* The store into the lower word writes the bits that the element has there.
LEMMA LowerBits ==
  ASSUME NEW n \in Nat, NEW v \in [0..(n - 1) -> Word], NEW i \in Nat, lower_word(i) < n,
         NEW x \in Value
  PROVE  /\ StoreLower(v, i, x) \in [0..(n - 1) -> Word]
         /\ \A g \in Nat : g \div WORD_BITS < n =>
              Bit(StoreLower(v, i, x), g) =
                IF g \div WORD_BITS = lower_word(i) /\ g - i * Bits \in 0..(Bits - 1)
                THEN x[g - i * Bits] ELSE Bit(v, g)
<1>0. WORD_BITS \in Nat \ {0} /\ Bits \in Nat \ {0} /\ Bits < WORD_BITS
  BY BitsAssumption
<1> DEFINE w == lower_word(i)
           o == lower_offset(element(i))
           u == StoreLower(v, i, x)
           new == set_lower_value(v[w], element(i), x)
<1>1. w \in 0..(n - 1) /\ o \in 0..(WORD_BITS - 1) /\ i * Bits = WORD_BITS * w + o
  BY Layout
<1>2. v[w] \in Word
  BY <1>1, Zenon
<1>3. new \in Word /\ \A k \in Positions : new[k] = IF k - o \in 0..(Bits - 1) THEN x[k - o] ELSE v[w][k]
  BY <1>2, Zenon DEF set_lower_value, Word, Value, lower_mask
<1> HIDE DEF new, u
<1>4. u \in [0..(n - 1) -> Word] /\ u[w] = new /\ \A k \in 0..(n - 1) : k # w => u[k] = v[k]
  BY <1>1, <1>3, Zenon DEF new, u, StoreLower
<1>5. ASSUME NEW g \in Nat, g \div WORD_BITS < n
      PROVE  Bit(u, g) = IF g \div WORD_BITS = w /\ g - i * Bits \in 0..(Bits - 1)
                         THEN x[g - i * Bits] ELSE Bit(v, g)
  <2>1. g \div WORD_BITS \in 0..(n - 1) /\ g % WORD_BITS \in Positions
    BY <1>5, BitTyped, Zenon
  <2>2. g = WORD_BITS * (g \div WORD_BITS) + (g % WORD_BITS)
    BY <1>0, Division
  <2>3. CASE g \div WORD_BITS = w
    <3>1. g - i * Bits = (g % WORD_BITS) - o
      <4>1. PICK k \in Int : k = g % WORD_BITS
        BY <2>1 DEF Positions
      <4>2. g = WORD_BITS * w + k
        BY <2>2, <2>3, <4>1, Zenon
      <4>3. PICK z \in Int : z = WORD_BITS * w
        BY <1>0, <1>1
      <4>4. g = z + k /\ i * Bits = z + o
        BY <1>1, <4>2, <4>3, Zenon
      <4>5. (z + k) - (z + o) = k - o
        BY <1>1
      <4> QED BY <4>1, <4>4, <4>5, Zenon
    <3>2. Bit(u, g) = new[g % WORD_BITS] /\ Bit(v, g) = v[w][g % WORD_BITS]
      BY <1>4, <2>3, Zenon DEF Bit
    <3> QED BY <1>3, <2>1, <2>3, <3>1, <3>2, Zenon
  <2>4. CASE g \div WORD_BITS # w
    BY <1>4, <2>1, <2>4, Zenon DEF Bit
  <2> QED BY <2>3, <2>4, Zenon
<1> QED BY <1>4, <1>5, Zenon DEF u

\* The store into the upper word writes the bits that the element has there.
LEMMA UpperBits ==
  ASSUME NEW n \in Nat, NEW v \in [0..(n - 1) -> Word], NEW i \in Nat, upper_word(i) < n,
         NEW x \in Value
  PROVE  /\ StoreUpper(v, i, x) \in [0..(n - 1) -> Word]
         /\ \A g \in Nat : g \div WORD_BITS < n =>
              Bit(StoreUpper(v, i, x), g) =
                IF g \div WORD_BITS = upper_word(i) /\ g - i * Bits \in 0..(Bits - 1)
                THEN x[g - i * Bits] ELSE Bit(v, g)
<1>0. WORD_BITS \in Nat \ {0} /\ Bits \in Nat \ {0} /\ Bits < WORD_BITS
  BY BitsAssumption
<1> DEFINE w == upper_word(i)
           o == lower_offset(element(i))
           u == StoreUpper(v, i, x)
           d == WORD_BITS - o
           new == set_upper_value(v[w], element(i), x)
<1>1. /\ w \in 0..(n - 1) /\ o \in 0..(WORD_BITS - 1)
      /\ i * Bits = WORD_BITS * (w - 1) + o /\ d \in Int
  <2>1. /\ lower_word(i) \in Nat /\ w = lower_word(i) + 1 /\ o \in 0..(WORD_BITS - 1)
        /\ i * Bits = WORD_BITS * lower_word(i) + o
    BY Layout, Zenon DEF upper_word
  <2>2. w - 1 = lower_word(i) /\ w \in 0..(n - 1)
    BY <2>1
  <2> QED BY <1>0, <2>1, <2>2
<1>2. v[w] \in Word
  BY <1>1, Zenon
<1>3. new \in Word /\ \A k \in Positions : new[k] = IF k + d \in 0..(Bits - 1) THEN x[k + d] ELSE v[w][k]
  <2>1. CASE Sliced(element(i))
    <3>1. upper_offset(element(i)) = d
      BY <2>1, Zenon DEF upper_offset
    <3>2. upper_mask(element(i)) = {k \in Positions : k + d \in 0..(Bits - 1)}
      BY <2>1, <3>1, Zenon DEF upper_mask
    <3>3. new = [k \in Positions |-> IF k + d \in 0..(Bits - 1) THEN x[k + d] ELSE v[w][k]]
      <4> HIDE DEF d
      <4> QED BY <3>1, <3>2, Zenon DEF set_upper_value
    <3> HIDE DEF new, d
    <3> QED BY <1>2, <3>3, Zenon DEF Word, Value
  <2>2. CASE ~Sliced(element(i))
    <3>1. upper_mask(element(i)) = {} /\ Bits <= d
      BY <1>0, <1>1, <2>2, SMTT(30) DEF upper_mask, Sliced
    <3>2. \A k \in Positions : k + d \notin 0..(Bits - 1)
      <4> HIDE DEF d
      <4> QED BY <1>0, <1>1, <3>1 DEF Positions
    <3>3. new = [k \in Positions |-> v[w][k]]
      BY <3>1, Zenon DEF set_upper_value
    <3> HIDE DEF new, d
    <3> QED BY <1>2, <3>2, <3>3, Zenon DEF Word
  <2> QED BY <2>1, <2>2, Zenon
<1> HIDE DEF new, u
<1>4. u \in [0..(n - 1) -> Word] /\ u[w] = new /\ \A k \in 0..(n - 1) : k # w => u[k] = v[k]
  BY <1>1, <1>3, Zenon DEF new, u, StoreUpper
<1>5. ASSUME NEW g \in Nat, g \div WORD_BITS < n
      PROVE  Bit(u, g) = IF g \div WORD_BITS = w /\ g - i * Bits \in 0..(Bits - 1)
                         THEN x[g - i * Bits] ELSE Bit(v, g)
  <2>1. g \div WORD_BITS \in 0..(n - 1) /\ g % WORD_BITS \in Positions
    BY <1>5, BitTyped
  <2>2. g = WORD_BITS * (g \div WORD_BITS) + (g % WORD_BITS)
    BY <1>0, Division
  <2>3. CASE g \div WORD_BITS = w
    <3>1. g - i * Bits = (g % WORD_BITS) + d
      <4>1. PICK k \in Int : k = g % WORD_BITS
        BY <2>1 DEF Positions
      <4>2. g = WORD_BITS * w + k
        BY <2>2, <2>3, <4>1
      <4>3. PICK z \in Int : z = WORD_BITS * (w - 1)
        BY <1>0, <1>1, SMTT(30)
      <4>4. WORD_BITS * w = z + WORD_BITS
        <5>0. w - 1 \in Int /\ w = (w - 1) + 1
          BY <1>1
        <5>1. PICK y \in Int : w = y + 1
          BY <5>0, Zenon
        <5>2. WORD_BITS * (y + 1) = WORD_BITS * y + WORD_BITS /\ w - 1 = y
          BY <1>0, <5>1
        <5> QED BY <4>3, <5>1, <5>2, Zenon
      <4>5. g = z + WORD_BITS + k /\ i * Bits = z + o
        BY <1>1, <4>2, <4>3, <4>4, Zenon
      <4>6. (z + WORD_BITS + k) - (z + o) = k + (WORD_BITS - o)
        BY <1>0, <1>1, SMTT(30)
      <4> QED BY <4>1, <4>5, <4>6, Zenon
    <3>2. Bit(u, g) = new[g % WORD_BITS] /\ Bit(v, g) = v[w][g % WORD_BITS]
      BY <1>4, <2>3 DEF Bit
    <3> QED BY <1>3, <2>1, <2>3, <3>1, <3>2, Zenon
  <2>4. CASE g \div WORD_BITS # w
    BY <1>4, <2>1, <2>4 DEF Bit
  <2> QED BY <2>3, <2>4
<1> QED BY <1>4, <1>5 DEF u

\* A store that changes bits of element i only leaves the other elements as they are.
LEMMA OthersKept ==
  ASSUME NEW n \in Nat, NEW v \in [0..(n - 1) -> Word], NEW u, NEW i \in Nat,
         \A g \in Nat : g \div WORD_BITS < n /\ g - i * Bits \notin 0..(Bits - 1) => Bit(u, g) = Bit(v, g),
         NEW j \in Nat, j # i, upper_word(j) < n
  PROVE  \A b \in 0..(Bits - 1) : Bit(u, j * Bits + b) = Bit(v, j * Bits + b)
<1> TAKE b \in 0..(Bits - 1)
<1>1. j * Bits + b \in Nat /\ (j * Bits + b) \div WORD_BITS < n
  BY GetBits, Zenon
<1>2. (j * Bits + b) - i * Bits \notin 0..(Bits - 1)
  BY Apart, Zenon
<1> QED BY <1>1, <1>2, Zenon

\* The bits that an element has in its lower word; the others are in the upper one.
InLower(i, b) == (i * Bits + b) \div WORD_BITS = lower_word(i)

\* Every bit of an element is in one of its two words.
LEMMA LowerOrUpper ==
  ASSUME NEW i \in Nat, NEW b \in 0..(Bits - 1)
  PROVE  /\ InLower(i, b) \/ (i * Bits + b) \div WORD_BITS = upper_word(i)
         /\ (i * Bits + b) - i * Bits = b
         /\ lower_word(i) \in Nat /\ upper_word(i) \in Nat /\ lower_word(i) < upper_word(i)
<1>0. WORD_BITS \in Nat \ {0} /\ Bits \in Nat \ {0}
  BY BitsAssumption
<1>1. lower_word(i) \in Nat /\ upper_word(i) = lower_word(i) + 1 /\ lower_offset(element(i)) \in Int
  BY Layout DEF upper_word
<1>2. lower_offset(element(i)) + b < WORD_BITS \/ lower_offset(element(i)) + b >= WORD_BITS
  BY <1>0, <1>1
<1>3. InLower(i, b) \/ (i * Bits + b) \div WORD_BITS = upper_word(i)
  BY <1>2, Place, Zenon DEF InLower
<1>4. (i * Bits + b) - i * Bits = b
  BY <1>0
<1> QED BY <1>1, <1>3, <1>4

\* set_value writes its element and no other.
LEMMA SetBits ==
  ASSUME NEW n \in Nat, NEW v \in [0..(n - 1) -> Word], NEW i \in Nat, upper_word(i) < n,
         NEW x \in Value
  PROVE  /\ Set(v, i, x) \in [0..(n - 1) -> Word]
         /\ Has(Set(v, i, x), i, x)
         /\ \A j \in Nat : \A y : j # i /\ upper_word(j) < n /\ Has(v, j, y) => Has(Set(v, i, x), j, y)
<1> DEFINE lw == lower_word(i)
           uw == upper_word(i)
           v1 == StoreLower(v, i, x)
           v2 == StoreUpper(v1, i, x)
<1>1. lw \in 0..(n - 1) /\ uw \in 0..(n - 1) /\ lw # uw /\ lw < n
  <2>1. lw \in Nat /\ uw = lw + 1
    BY Layout, Zenon DEF upper_word
  <2> QED BY <2>1
<1>2. Set(v, i, x) = v2
  BY <1>1, Zenon DEF Set, StoreLower, StoreUpper
<1>3. /\ v1 \in [0..(n - 1) -> Word]
      /\ \A g \in Nat : g \div WORD_BITS < n =>
           Bit(v1, g) = IF g \div WORD_BITS = lw /\ g - i * Bits \in 0..(Bits - 1)
                        THEN x[g - i * Bits] ELSE Bit(v, g)
  BY <1>1, LowerBits
<1> HIDE DEF v1
<1>4. /\ v2 \in [0..(n - 1) -> Word]
      /\ \A g \in Nat : g \div WORD_BITS < n =>
           Bit(v2, g) = IF g \div WORD_BITS = uw /\ g - i * Bits \in 0..(Bits - 1)
                        THEN x[g - i * Bits] ELSE Bit(v1, g)
  BY <1>3, UpperBits
<1> HIDE DEF v2
<1>5. ASSUME NEW b \in 0..(Bits - 1) PROVE Bit(v2, i * Bits + b) = x[b]
  <2>1. i * Bits + b \in Nat /\ (i * Bits + b) \div WORD_BITS < n
    BY GetBits, Zenon
  <2>2. /\ (i * Bits + b) \div WORD_BITS = lw \/ (i * Bits + b) \div WORD_BITS = uw
        /\ (i * Bits + b) - i * Bits = b
    BY LowerOrUpper, Zenon DEF InLower
  <2> QED BY <1>3, <1>4, <2>1, <2>2, Zenon
<1>6. \A g \in Nat : g \div WORD_BITS < n /\ g - i * Bits \notin 0..(Bits - 1) => Bit(v2, g) = Bit(v, g)
  BY <1>3, <1>4, Zenon
<1>7. ASSUME NEW j \in Nat, NEW y, j # i, upper_word(j) < n, Has(v, j, y) PROVE Has(v2, j, y)
  <2>1. \A b \in 0..(Bits - 1) : Bit(v2, j * Bits + b) = Bit(v, j * Bits + b)
    BY <1>6, <1>7, OthersKept
  <2> QED BY <1>7, <2>1, Zenon DEF Has
<1>8. Has(v2, i, x)
  BY <1>5, Zenon DEF Has
<1> QED BY <1>2, <1>4, <1>7, <1>8, Zenon

\* Resizing keeps the elements that have room before and after.
LEMMA ResizedBits ==
  ASSUME NEW n \in Nat, NEW v \in [0..(n - 1) -> Word], NEW m \in Nat
  PROVE  /\ Resized(v, m) \in [0..(m - 1) -> Word]
         /\ \A i \in Nat : \A y : upper_word(i) < n /\ upper_word(i) < m /\ Has(v, i, y)
                                    => Has(Resized(v, m), i, y)
<1>1. ZeroWord \in Word
  BY Zenon DEF ZeroWord, Word
<1>2. Resized(v, m) \in [0..(m - 1) -> Word]
  BY <1>1, Zenon DEF Resized, WordAt
<1>3. \A k \in Nat : k < n /\ k < m => Resized(v, m)[k] = v[k]
  BY DEF Resized, WordAt
<1>4. ASSUME NEW i \in Nat, NEW y, upper_word(i) < n, upper_word(i) < m, Has(v, i, y),
             NEW b \in 0..(Bits - 1)
      PROVE  Bit(Resized(v, m), i * Bits + b) = y[b]
  <2>1. /\ i * Bits + b \in Nat /\ (i * Bits + b) \div WORD_BITS < n
    BY <1>4, GetBits, Zenon
  <2>2. (i * Bits + b) \div WORD_BITS < m
    BY <1>2, <1>4, GetBits, Zenon
  <2>3. (i * Bits + b) \div WORD_BITS \in Nat
    BY <2>1, BitsAssumption, DivisionNat
  <2>4. Bit(v, i * Bits + b) = y[b]
    BY <1>4, Zenon DEF Has
  <2> QED BY <1>3, <2>1, <2>2, <2>3, <2>4, Zenon DEF Bit
<1> QED BY <1>2, <1>4, Zenon DEF Has

\* The size of the vector of words.
LEMMA SizeIs ==
  ASSUME NEW n \in Nat, NEW S, vec \in [0..(n - 1) -> S]
  PROVE  VectorSize = n
<1>1. DOMAIN vec = 0..(n - 1)
  BY Zenon
<1>2. Cardinality(0..(n - 1)) = IF 0 > n - 1 THEN 0 ELSE n - 1 - 0 + 1
  BY FS_Interval
<1> QED BY <1>1, <1>2 DEF VectorSize

-----------------------------------------------------------------------------
VectorSteps == {"idle", "lower", "casLower", "upper", "casUpper", "readUpper"}

VectorTypeOK ==
  /\ VectorSize \in Nat /\ vec \in [0..(VectorSize - 1) -> Word]
  /\ num_elements \in Nat
  /\ content \in [Indices -> Value]
  /\ stage \in [Workers -> VectorSteps]
  /\ job \in [Workers -> [index : Int, value : Value]]
  /\ seen \in [Workers -> Word]

Fits == ~outside /\ \A i \in Indices : upper_word(i) < VectorSize

\* A thread works on an element of its own.
OwnElements == \A t \in Workers :
  /\ stage[t] = "idle" => job[t].index = -1
  /\ stage[t] # "idle" => /\ job[t].index \in Indices
                       /\ \A u \in Workers \ {t} : job[u].index # job[t].index

\* What nobody assigns to is there, ...
Stored == \A i \in Indices :
  (\A t \in Workers : job[t].index = i => stage[t] = "readUpper") => Has(vec, i, content[i])

\* ... and between its two words an assignment has stored, and a read has seen, the lower one.
LowerStored == \A t \in Workers : stage[t] \in {"upper", "casUpper"} =>
  \A b \in 0..(Bits - 1) : InLower(job[t].index, b) =>
    Bit(vec, job[t].index * Bits + b) = job[t].value[b]
LowerSeen == \A t \in Workers : stage[t] = "readUpper" =>
  \A b \in 0..(Bits - 1) : InLower(job[t].index, b) =>
    seen[t][(job[t].index * Bits + b) % WORD_BITS] = content[job[t].index][b]

VectorInv == VectorTypeOK /\ Fits /\ OwnElements /\ Stored /\ LowerStored /\ LowerSeen

\* The vector is empty at first.
LEMMA VectorInitially == VectorInit => VectorInv
<1> SUFFICES ASSUME VectorInit PROVE VectorInv
  BY Zenon
<1>1. Indices = {} /\ num_elements = 0
  BY DEF VectorInit, Indices
<1>2. 0..(0 - 1) = {} /\ vec \in [0..(0 - 1) -> Word]
  BY DEF VectorInit
<1>3. VectorSize = 0
  BY <1>2, SizeIs, Zenon
<1>4. NoJob \in [index : Int, value : Value] /\ ZeroWord \in Word /\ NoJob.index = -1
  BY DEF NoJob, Value, ZeroWord, Word
<1>5. content \in [Indices -> Value]
  BY <1>1, Zenon DEF VectorInit
<1>6. VectorTypeOK
  BY <1>1, <1>2, <1>3, <1>4, <1>5 DEF VectorInit, VectorTypeOK, VectorSteps
<1>7. Fits /\ Stored
  BY <1>1, Zenon DEF VectorInit, Fits, Stored
<1>8. OwnElements /\ LowerStored /\ LowerSeen
  BY <1>4, Zenon DEF VectorInit, OwnElements, LowerStored, LowerSeen
<1> QED BY <1>6, <1>7, <1>8, Zenon DEF VectorInv

\* What a thread works on lies within the vector.
LEMMA JobTyped ==
  ASSUME VectorInv, NEW t \in Workers
  PROVE  /\ job[t].index \in Int /\ job[t].value \in Value /\ seen[t] \in Word
         /\ Indices \subseteq Nat /\ -1 \notin Indices
         /\ stage[t] # "idle" => /\ job[t].index \in Nat /\ job[t].index \in Indices
                              /\ lower_word(job[t].index) \in 0..(VectorSize - 1)
                              /\ upper_word(job[t].index) \in 0..(VectorSize - 1)
                              /\ upper_word(job[t].index) < VectorSize
<1>1. job[t].index \in Int /\ job[t].value \in Value /\ seen[t] \in Word
  <2>1. job[t] \in [index : Int, value : Value]
    BY Zenon DEF VectorInv, VectorTypeOK
  <2> QED BY <2>1, Zenon DEF VectorInv, VectorTypeOK
<1>2. Indices \subseteq Nat /\ -1 \notin Indices
  BY DEF Indices
<1>3. ASSUME stage[t] # "idle"
      PROVE  /\ job[t].index \in Nat /\ job[t].index \in Indices
             /\ lower_word(job[t].index) \in 0..(VectorSize - 1)
             /\ upper_word(job[t].index) \in 0..(VectorSize - 1)
             /\ upper_word(job[t].index) < VectorSize
  <2>1. job[t].index \in Indices /\ upper_word(job[t].index) < VectorSize
    BY <1>3, Zenon DEF VectorInv, OwnElements, Fits
  <2>2. lower_word(job[t].index) \in Nat /\ upper_word(job[t].index) = lower_word(job[t].index) + 1
    BY <1>2, <2>1, Layout, Zenon DEF upper_word
  <2>3. VectorSize \in Nat
    BY Zenon DEF VectorInv, VectorTypeOK
  <2>4. \A a, b : a \in Nat /\ b = a + 1 /\ b < VectorSize =>
                   a \in 0..(VectorSize - 1) /\ b \in 0..(VectorSize - 1)
    BY <2>3
  <2> QED BY <1>2, <2>1, <2>2, <2>4, Zenon
<1> QED BY <1>1, <1>2, <1>3, Zenon

\* What the other threads have stored and seen does not depend on the step of a thread that
\* changes neither the words nor the contents.
LEMMA OthersKeep ==
  ASSUME VectorInv, NEW t \in Workers, vec' = vec, content' = content,
         \A u \in Workers \ {t} : stage'[u] = stage[u] /\ job'[u] = job[u] /\ seen'[u] = seen[u]
  PROVE  /\ stage'[t] \notin {"upper", "casUpper"} => LowerStored'
         /\ stage'[t] # "readUpper" => LowerSeen'
<1>1. ASSUME stage'[t] \notin {"upper", "casUpper"} PROVE LowerStored'
  <2> SUFFICES ASSUME NEW u \in Workers, stage'[u] \in {"upper", "casUpper"},
                      NEW b \in 0..(Bits - 1), InLower(job'[u].index, b)
               PROVE  Bit(vec, job'[u].index * Bits + b) = job'[u].value[b]
    BY Zenon DEF LowerStored, InLower, Bit
  <2>1. u \in Workers \ {t}
    BY <1>1, Zenon
  <2>2. stage'[u] = stage[u] /\ job'[u] = job[u]
    BY <2>1, Zenon
  <2>3. stage[u] \in {"upper", "casUpper"} /\ InLower(job[u].index, b)
    BY <2>2, Zenon
  <2>4. Bit(vec, job[u].index * Bits + b) = job[u].value[b]
    BY <2>3, Zenon DEF VectorInv, LowerStored
  <2> QED BY <2>2, <2>4, Zenon
<1>2. ASSUME stage'[t] # "readUpper" PROVE LowerSeen'
  <2> SUFFICES ASSUME NEW u \in Workers, stage'[u] = "readUpper",
                      NEW b \in 0..(Bits - 1), InLower(job'[u].index, b)
               PROVE  seen'[u][(job'[u].index * Bits + b) % WORD_BITS] = content[job'[u].index][b]
    BY Zenon DEF LowerSeen, InLower
  <2>1. u \in Workers \ {t}
    BY <1>2, Zenon
  <2>2. stage'[u] = stage[u] /\ job'[u] = job[u] /\ seen'[u] = seen[u]
    BY <2>1, Zenon
  <2>3. stage[u] = "readUpper" /\ InLower(job[u].index, b)
    BY <2>2, Zenon
  <2>4. seen[u][(job[u].index * Bits + b) % WORD_BITS] = content[job[u].index][b]
    BY <2>3, Zenon DEF VectorInv, LowerSeen
  <2> QED BY <2>2, <2>4, Zenon
<1> QED BY <1>1, <1>2, Zenon

\* The threads keep to elements of their own when one of them begins with an element that no
\* other works on, ...
LEMMA OwnBegins ==
  ASSUME VectorInv, NEW t \in Workers, NEW i \in Indices, Indices' = Indices,
         \A u \in Workers \ {t} : stage'[u] = stage[u] /\ job'[u] = job[u] /\ job[u].index # i,
         stage'[t] # "idle", job'[t].index = i
  PROVE  OwnElements'
<1> SUFFICES ASSUME NEW u \in Workers
             PROVE  /\ stage'[u] = "idle" => job'[u].index = -1
                    /\ stage'[u] # "idle" => /\ job'[u].index \in Indices
                                             /\ \A v \in Workers \ {u} : job'[v].index # job'[u].index
  BY Zenon DEF OwnElements
<1>1. CASE u = t
  BY <1>1, Zenon
<1>2. CASE u # t
  <2>1. stage'[u] = stage[u] /\ job'[u] = job[u] /\ job[u].index # i
    BY <1>2, Zenon
  <2>2. /\ stage[u] = "idle" => job[u].index = -1
        /\ stage[u] # "idle" => /\ job[u].index \in Indices
                                /\ \A v \in Workers \ {u} : job[v].index # job[u].index
    BY Zenon DEF VectorInv, OwnElements
  <2>3. ASSUME stage[u] # "idle", NEW v \in Workers \ {u} PROVE job'[v].index # job[u].index
    <3>1. CASE v = t
      BY <2>1, <3>1, Zenon
    <3>2. CASE v # t
      <4>1. job'[v] = job[v]
        BY <3>2, Zenon
      <4>2. job[v].index # job[u].index
        BY <2>2, <2>3, Zenon
      <4> QED BY <4>1, <4>2, Zenon
    <3> QED BY <3>1, <3>2, Zenon
  <2> QED BY <2>1, <2>2, <2>3, Zenon
<1> QED BY <1>1, <1>2, Zenon

\* ... and when one of them ends.
LEMMA OwnEnds ==
  ASSUME VectorInv, NEW t \in Workers, Indices' = Indices,
         \A u \in Workers \ {t} : stage'[u] = stage[u] /\ job'[u] = job[u],
         stage'[t] = "idle", job'[t].index = -1
  PROVE  OwnElements'
<1> SUFFICES ASSUME NEW u \in Workers
             PROVE  /\ stage'[u] = "idle" => job'[u].index = -1
                    /\ stage'[u] # "idle" => /\ job'[u].index \in Indices
                                             /\ \A v \in Workers \ {u} : job'[v].index # job'[u].index
  BY Zenon DEF OwnElements
<1>1. CASE u = t
  BY <1>1, Zenon
<1>2. CASE u # t
  <2>1. stage'[u] = stage[u] /\ job'[u] = job[u]
    BY <1>2, Zenon
  <2>2. /\ stage[u] = "idle" => job[u].index = -1
        /\ stage[u] # "idle" => /\ job[u].index \in Indices
                                /\ \A v \in Workers \ {u} : job[v].index # job[u].index
    BY Zenon DEF VectorInv, OwnElements
  <2>3. ASSUME stage[u] # "idle", NEW v \in Workers \ {u} PROVE job'[v].index # job[u].index
    <3>1. CASE v = t
      <4>1. job[u].index # -1
        BY <2>2, <2>3, JobTyped, Zenon
      <4> QED BY <3>1, <4>1, Zenon
    <3>2. CASE v # t
      <4>1. job'[v] = job[v]
        BY <3>2, Zenon
      <4>2. job[v].index # job[u].index
        BY <2>2, <2>3, Zenon
      <4> QED BY <4>1, <4>2, Zenon
    <3> QED BY <3>1, <3>2, Zenon
  <2> QED BY <2>1, <2>2, <2>3, Zenon
<1> QED BY <1>1, <1>2, Zenon

\* A step of a thread between its loads and stores.
LEMMA MoveInv ==
  ASSUME VectorInv, NEW t \in Workers, NEW s \in Word,
         stage[t] # "idle", stage[t] # "readUpper",
         stage' \in {[stage EXCEPT ![t] = "lower"], [stage EXCEPT ![t] = "casLower"],
                  [stage EXCEPT ![t] = "upper"], [stage EXCEPT ![t] = "casUpper"]},
         stage'[t] \in {"upper", "casUpper"} => stage[t] \in {"upper", "casUpper"},
         seen' = [seen EXCEPT ![t] = s],
         UNCHANGED <<vec, num_elements, job, content, outside>>
  PROVE  VectorInv'
<1>1. /\ stage' \in [Workers -> VectorSteps] /\ stage'[t] \in VectorSteps \ {"idle", "readUpper"}
      /\ \A u \in Workers \ {t} : stage'[u] = stage[u] /\ seen'[u] = seen[u]
      /\ seen' \in [Workers -> Word]
  BY Zenon DEF VectorInv, VectorTypeOK, VectorSteps
<1>2. VectorSize' = VectorSize /\ Indices' = Indices
  BY Zenon DEF VectorSize, Indices
<1>3. VectorTypeOK' /\ Fits'
  BY <1>1, <1>2, Zenon DEF VectorInv, VectorTypeOK, Fits
<1>4. OwnElements'
  BY <1>1, <1>2, Zenon DEF VectorInv, OwnElements
<1>5. Stored'
  <2> SUFFICES ASSUME NEW i \in Indices,
                      \A u \in Workers : job[u].index = i => stage'[u] = "readUpper"
               PROVE  Has(vec, i, content[i])
    BY <1>2, Zenon DEF Stored, Has, Bit
  <2>1. \A u \in Workers : job[u].index = i => stage[u] = "readUpper"
    BY <1>1, Zenon
  <2> QED BY <2>1, Zenon DEF VectorInv, Stored
<1>6. LowerStored'
  <2> SUFFICES ASSUME NEW u \in Workers, stage'[u] \in {"upper", "casUpper"},
                      NEW b \in 0..(Bits - 1), InLower(job[u].index, b)
               PROVE  Bit(vec, job[u].index * Bits + b) = job[u].value[b]
    BY Zenon DEF LowerStored, InLower, Bit
  <2>1. stage[u] \in {"upper", "casUpper"}
    BY <1>1, Zenon
  <2> QED BY <2>1, Zenon DEF VectorInv, LowerStored
<1>7. LowerSeen'
  <2>1. stage'[t] # "readUpper" /\ \A u \in Workers \ {t} : job'[u] = job[u]
    BY <1>1, Zenon
  <2> QED BY <1>1, <2>1, OthersKeep, Zenon
<1> QED BY <1>3, <1>4, <1>5, <1>6, <1>7, Zenon DEF VectorInv

\* Loads, and a compare-and-swap that fails, change no word.
LEMMA LoadInv ==
  ASSUME VectorInv, NEW t \in Workers, LoadLower(t) \/ LoadUpper(t) \/ CasFails(t)
  PROVE  VectorInv'
<1>1. CASE LoadLower(t)
  <2>1. vec[lower_word(job[t].index)] \in Word
    BY <1>1, JobTyped, Zenon DEF LoadLower, IsAt, VectorInv, VectorTypeOK
  <2> QED BY <1>1, <2>1, MoveInv, Zenon DEF LoadLower, IsAt, Load, GoesTo, VectorInv, VectorTypeOK
<1>2. CASE LoadUpper(t)
  <2>1. vec[upper_word(job[t].index)] \in Word
    BY <1>2, JobTyped, Zenon DEF LoadUpper, IsAt, VectorInv, VectorTypeOK
  <2> QED BY <1>2, <2>1, MoveInv, Zenon DEF LoadUpper, IsAt, Load, GoesTo, VectorInv, VectorTypeOK
<1>3. CASE CasFails(t)
  <2>1. seen[t] \in Word /\ seen' = [seen EXCEPT ![t] = seen[t]]
    BY <1>3, JobTyped, Zenon DEF CasFails, VectorInv, VectorTypeOK
  <2> QED BY <1>3, <2>1, MoveInv, Zenon DEF CasFails, IsAt, GoesTo, VectorInv, VectorTypeOK
<1> QED BY <1>1, <1>2, <1>3, Zenon

\* A thread begins an assignment to an element of its own.
LEMMA AssignInv ==
  ASSUME VectorInv, NEW t \in Workers, NEW i \in Indices, NEW x \in Values, Assign(t, i, x)
  PROVE  VectorInv'
<1>0. x \in Value /\ i \in Int /\ i # -1
  BY ValuesAssumption, JobTyped DEF Value
<1>1. /\ stage' \in [Workers -> VectorSteps] /\ stage'[t] = "lower"
      /\ \A u \in Workers \ {t} : stage'[u] = stage[u] /\ job'[u] = job[u] /\ job[u].index # i
      /\ job' \in [Workers -> [index : Int, value : Value]] /\ job'[t].index = i
      /\ stage[t] = "idle" /\ job[t].index = -1
  BY <1>0, Zenon DEF Assign, IsAt, GoesTo, Own, VectorInv, VectorTypeOK, VectorSteps, OwnElements
<1>2. VectorSize' = VectorSize /\ Indices' = Indices
  BY Zenon DEF Assign, VectorSize, Indices
<1>3. VectorTypeOK' /\ Fits'
  BY <1>1, <1>2, Zenon DEF Assign, VectorInv, VectorTypeOK, Fits
<1>4. OwnElements'
  BY <1>1, <1>2, OwnBegins, Zenon
<1>5. Stored'
  <2> SUFFICES ASSUME NEW j \in Indices,
                      \A u \in Workers : job'[u].index = j => stage'[u] = "readUpper"
               PROVE  Has(vec, j, content[j])
    BY <1>2, Zenon DEF Assign, Stored, Has, Bit
  <2>1. j \in Indices /\ j # -1
    BY JobTyped, Zenon
  <2>2. \A u \in Workers : job[u].index = j => stage[u] = "readUpper"
    BY <1>1, <2>1, Zenon
  <2> QED BY <2>2, Zenon DEF VectorInv, Stored
<1>6. vec' = vec /\ content' = content /\ seen' = seen
  BY Zenon DEF Assign
<1>7. LowerStored' /\ LowerSeen'
  BY <1>1, <1>6, OthersKeep, Zenon
<1> QED BY <1>3, <1>4, <1>5, <1>7, Zenon DEF VectorInv

\* A thread begins to read an element and sees its lower word.
LEMMA ReadLowerInv ==
  ASSUME VectorInv, NEW t \in Workers, NEW i \in Indices, ReadLower(t, i)
  PROVE  VectorInv'
<1>0. /\ i \in Nat /\ i # -1 /\ upper_word(i) < VectorSize /\ VectorSize \in Nat
      /\ vec \in [0..(VectorSize - 1) -> Word]
  BY JobTyped, Zenon DEF VectorInv, VectorTypeOK, Fits
<1>1. lower_word(i) \in 0..(VectorSize - 1)
  <2>1. lower_word(i) \in Nat /\ upper_word(i) = lower_word(i) + 1
    BY <1>0, Layout, Zenon DEF upper_word
  <2> QED BY <1>0, <2>1
<1>2. vec[lower_word(i)] \in Word /\ [NoJob EXCEPT !.index = i] \in [index : Int, value : Value]
      /\ [NoJob EXCEPT !.index = i].index = i
  <2>1. NoJob \in [index : Int, value : Value]
    BY DEF NoJob, Value
  <2> QED BY <1>0, <1>1, <2>1
<1>3. /\ stage' \in [Workers -> VectorSteps] /\ stage'[t] = "readUpper"
      /\ \A u \in Workers \ {t} : stage'[u] = stage[u] /\ job'[u] = job[u] /\ job[u].index # i /\ seen'[u] = seen[u]
      /\ job' \in [Workers -> [index : Int, value : Value]] /\ job'[t].index = i
      /\ seen' \in [Workers -> Word] /\ seen'[t] = vec[lower_word(i)]
      /\ stage[t] = "idle" /\ job[t].index = -1
  BY <1>2, Zenon DEF ReadLower, IsAt, GoesTo, Own, VectorInv, VectorTypeOK, VectorSteps, OwnElements
<1>4. VectorSize' = VectorSize /\ Indices' = Indices
  BY Zenon DEF ReadLower, VectorSize, Indices
<1>5. VectorTypeOK' /\ Fits'
  BY <1>3, <1>4, Zenon DEF ReadLower, VectorInv, VectorTypeOK, Fits
<1>6. OwnElements'
  BY <1>3, <1>4, OwnBegins, Zenon
<1>7. Stored'
  <2> SUFFICES ASSUME NEW j \in Indices,
                      \A u \in Workers : job'[u].index = j => stage'[u] = "readUpper"
               PROVE  Has(vec, j, content[j])
    BY <1>4, Zenon DEF ReadLower, Stored, Has, Bit
  <2>1. j # -1
    BY JobTyped, Zenon
  <2>2. \A u \in Workers : job[u].index = j => stage[u] = "readUpper"
    BY <1>3, <2>1, Zenon
  <2> QED BY <2>2, Zenon DEF VectorInv, Stored
<1>u. vec' = vec /\ content' = content
  BY Zenon DEF ReadLower
<1>8. LowerStored'
  BY <1>3, <1>u, OthersKeep, Zenon
<1>9. Has(vec, i, content[i])
  BY <1>0, <1>3, Zenon DEF VectorInv, Stored
<1>10. LowerSeen'
  <2>1. ASSUME NEW b \in 0..(Bits - 1), InLower(i, b)
        PROVE  seen'[t][(i * Bits + b) % WORD_BITS] = content[i][b]
    <3>1. Bit(vec, i * Bits + b) = content[i][b]
      BY <1>9, Zenon DEF Has
    <3>2. vec[lower_word(i)][(i * Bits + b) % WORD_BITS] = content[i][b]
      BY <2>1, <3>1, Zenon DEF Bit, InLower
    <3> QED BY <1>3, <3>2, Zenon
  <2> SUFFICES ASSUME NEW u \in Workers, stage'[u] = "readUpper",
                      NEW b \in 0..(Bits - 1), InLower(job'[u].index, b)
               PROVE  seen'[u][(job'[u].index * Bits + b) % WORD_BITS] = content[job'[u].index][b]
    BY <1>u, Zenon DEF LowerSeen, InLower
  <2>2. CASE u = t
    BY <1>3, <2>1, <2>2, Zenon
  <2>3. CASE u # t
    <3>1. stage'[u] = stage[u] /\ job'[u] = job[u] /\ seen'[u] = seen[u]
      BY <1>3, <2>3, Zenon
    <3>2. stage[u] = "readUpper" /\ InLower(job[u].index, b)
      BY <3>1, Zenon
    <3>3. seen[u][(job[u].index * Bits + b) % WORD_BITS] = content[job[u].index][b]
      BY <3>2, Zenon DEF VectorInv, LowerSeen
    <3> QED BY <3>1, <3>3, Zenon
  <2> QED BY <2>2, <2>3, Zenon
<1> QED BY <1>5, <1>6, <1>7, <1>8, <1>10, Zenon DEF VectorInv

\* A read ends with the upper word.
LEMMA ReadUpperInv ==
  ASSUME VectorInv, NEW t \in Workers, ReadUpper(t)
  PROVE  VectorInv'
<1>1. NoJob \in [index : Int, value : Value] /\ ZeroWord \in Word /\ NoJob.index = -1
  BY DEF NoJob, Value, ZeroWord, Word
<1>2. /\ stage' \in [Workers -> VectorSteps] /\ stage'[t] = "idle"
      /\ \A u \in Workers \ {t} : stage'[u] = stage[u] /\ job'[u] = job[u] /\ seen'[u] = seen[u]
      /\ job' \in [Workers -> [index : Int, value : Value]] /\ job'[t].index = -1
      /\ seen' \in [Workers -> Word]
      /\ stage[t] = "readUpper"
  BY <1>1, Zenon DEF ReadUpper, IsAt, GoesTo, VectorInv, VectorTypeOK, VectorSteps
<1>3. VectorSize' = VectorSize /\ Indices' = Indices
  BY Zenon DEF ReadUpper, VectorSize, Indices
<1>4. VectorTypeOK' /\ Fits'
  BY <1>2, <1>3, Zenon DEF ReadUpper, VectorInv, VectorTypeOK, Fits
<1>5. OwnElements'
  BY <1>2, <1>3, OwnEnds, Zenon
<1>6. Stored'
  <2> SUFFICES ASSUME NEW j \in Indices,
                      \A u \in Workers : job'[u].index = j => stage'[u] = "readUpper"
               PROVE  Has(vec, j, content[j])
    BY <1>3, Zenon DEF ReadUpper, Stored, Has, Bit
  <2>1. \A u \in Workers : job[u].index = j => stage[u] = "readUpper"
    BY <1>2, Zenon
  <2> QED BY <2>1, Zenon DEF VectorInv, Stored
<1>7. vec' = vec /\ content' = content
  BY Zenon DEF ReadUpper
<1>8. LowerStored' /\ LowerSeen'
  BY <1>2, <1>7, OthersKeep, Zenon
<1> QED BY <1>4, <1>5, <1>6, <1>8, Zenon DEF VectorInv

\* The lower word is stored: another thread may have stored its own bits there, but not
\* since the word was loaded.
LEMMA CasLowerInv ==
  ASSUME VectorInv, NEW t \in Workers, CasLower(t)
  PROVE  VectorInv'
<1>0. PICK i \in Nat : i = job[t].index
  BY JobTyped, Zenon DEF CasLower, IsAt
<1>1. PICK x \in Value : x = job[t].value
  BY JobTyped, Zenon
<1>2. PICK n \in Nat : n = VectorSize
  BY Zenon DEF VectorInv, VectorTypeOK
<1>3. /\ i \in Indices /\ lower_word(i) \in 0..(n - 1) /\ upper_word(i) < n /\ lower_word(i) < n
      /\ vec \in [0..(n - 1) -> Word]
  BY <1>0, <1>2, JobTyped DEF CasLower, IsAt, VectorInv, VectorTypeOK
<1>4. vec' = StoreLower(vec, i, x)
  BY <1>0, <1>1, Zenon DEF CasLower, Swap, StoreLower
<1>5. /\ vec' \in [0..(n - 1) -> Word]
      /\ \A g \in Nat : g \div WORD_BITS < n =>
           Bit(vec', g) = IF g \div WORD_BITS = lower_word(i) /\ g - i * Bits \in 0..(Bits - 1)
                          THEN x[g - i * Bits] ELSE Bit(vec, g)
  BY <1>3, <1>4, LowerBits
<1>6. /\ stage' \in [Workers -> VectorSteps] /\ stage'[t] = "upper"
      /\ \A u \in Workers \ {t} : stage'[u] = stage[u]
      /\ stage[t] = "casLower"
  BY Zenon DEF CasLower, IsAt, GoesTo, VectorInv, VectorTypeOK, VectorSteps
<1>7. Indices' = Indices /\ UNCHANGED <<num_elements, job, seen, content, outside>>
  BY Zenon DEF CasLower, Indices
<1>8. VectorSize' = n
  <2>1. (DOMAIN vec)' = DOMAIN vec
    BY <1>3, <1>5, Zenon
  <2> QED BY <1>2, <2>1, Zenon DEF VectorSize
<1>9. VectorTypeOK' /\ Fits'
  BY <1>2, <1>5, <1>6, <1>7, <1>8, Zenon DEF VectorInv, VectorTypeOK, Fits
<1>10. OwnElements'
  BY <1>6, <1>7, Zenon DEF VectorInv, OwnElements
<1>11. ASSUME NEW j \in Indices, j # i
       PROVE  \A b \in 0..(Bits - 1) : Bit(vec', j * Bits + b) = Bit(vec, j * Bits + b)
  <2>1. j \in Nat /\ upper_word(j) < n
    BY <1>2, JobTyped, Zenon DEF VectorInv, Fits
  <2>2. \A g \in Nat : g \div WORD_BITS < n /\ g - i * Bits \notin 0..(Bits - 1) => Bit(vec', g) = Bit(vec, g)
    BY <1>5, Zenon
  <2> QED BY <1>3, <1>11, <2>1, <2>2, OthersKept
<1>12. Stored'
  <2> SUFFICES ASSUME NEW j \in Indices,
                      \A u \in Workers : job[u].index = j => stage'[u] = "readUpper"
               PROVE  Has(vec', j, content[j])
    BY <1>7, Zenon DEF Stored, Has, Bit
  <2>1. j # i
    BY <1>0, <1>6, Zenon
  <2>2. \A u \in Workers : job[u].index = j => stage[u] = "readUpper"
    BY <1>0, <1>6, <2>1, Zenon
  <2>3. Has(vec, j, content[j])
    BY <2>2, Zenon DEF VectorInv, Stored
  <2> QED BY <1>11, <2>1, <2>3, Zenon DEF Has
<1>13. LowerStored'
  <2> SUFFICES ASSUME NEW u \in Workers, stage'[u] \in {"upper", "casUpper"},
                      NEW b \in 0..(Bits - 1), InLower(job[u].index, b)
               PROVE  Bit(vec', job[u].index * Bits + b) = job[u].value[b]
    BY <1>7, Zenon DEF LowerStored, InLower, Bit
  <2>1. CASE u = t
    <3>1. (i * Bits + b) \div WORD_BITS = lower_word(i) /\ i * Bits + b \in Nat
          /\ (i * Bits + b) - i * Bits = b
      BY <1>0, <1>3, <2>1, GetBits, LowerOrUpper, Zenon DEF InLower
    <3>2. Bit(vec', i * Bits + b) = x[b]
      BY <1>3, <1>5, <3>1, Zenon
    <3> QED BY <1>0, <1>1, <2>1, <3>2, Zenon
  <2>2. CASE u # t
    <3>1. job[u].index \in Indices /\ job[u].index # i /\ stage[u] \in {"upper", "casUpper"}
      BY <1>0, <1>6, <2>2, Zenon DEF VectorInv, OwnElements
    <3>2. Bit(vec, job[u].index * Bits + b) = job[u].value[b]
      BY <3>1, Zenon DEF VectorInv, LowerStored
    <3> QED BY <1>11, <3>1, <3>2, Zenon
  <2> QED BY <2>1, <2>2, Zenon
<1>14. LowerSeen'
  BY <1>6, <1>7, Zenon DEF VectorInv, LowerSeen, InLower
<1> QED BY <1>9, <1>10, <1>12, <1>13, <1>14, Zenon DEF VectorInv

\* The upper word is stored, and with it the assignment is done.
LEMMA CasUpperInv ==
  ASSUME VectorInv, NEW t \in Workers, CasUpper(t)
  PROVE  VectorInv'
<1>0. PICK i \in Nat : i = job[t].index
  BY JobTyped, Zenon DEF CasUpper, IsAt
<1>1. PICK x \in Value : x = job[t].value
  BY JobTyped
<1>2. PICK n \in Nat : n = VectorSize
  BY DEF VectorInv, VectorTypeOK
<1>3. /\ i \in Indices /\ upper_word(i) \in 0..(n - 1) /\ upper_word(i) < n /\ i # -1
      /\ vec \in [0..(n - 1) -> Word] /\ content \in [Indices -> Value]
  BY <1>0, <1>2, JobTyped, Zenon DEF CasUpper, IsAt, VectorInv, VectorTypeOK
<1>4. vec' = StoreUpper(vec, i, x)
  BY <1>0, <1>1, Zenon DEF CasUpper, Swap, StoreUpper
<1>5. /\ vec' \in [0..(n - 1) -> Word]
      /\ \A g \in Nat : g \div WORD_BITS < n =>
           Bit(vec', g) = IF g \div WORD_BITS = upper_word(i) /\ g - i * Bits \in 0..(Bits - 1)
                          THEN x[g - i * Bits] ELSE Bit(vec, g)
  BY <1>3, <1>4, UpperBits
<1>6. NoJob \in [index : Int, value : Value] /\ ZeroWord \in Word /\ NoJob.index = -1
  BY DEF NoJob, Value, ZeroWord, Word
<1>7. /\ stage' \in [Workers -> VectorSteps] /\ stage'[t] = "idle"
      /\ \A u \in Workers \ {t} : stage'[u] = stage[u] /\ job'[u] = job[u] /\ seen'[u] = seen[u]
      /\ job' \in [Workers -> [index : Int, value : Value]] /\ job'[t].index = -1
      /\ seen' \in [Workers -> Word]
      /\ stage[t] = "casUpper"
  BY <1>6, Zenon DEF CasUpper, IsAt, GoesTo, VectorInv, VectorTypeOK, VectorSteps
<1>8. /\ Indices' = Indices /\ UNCHANGED <<num_elements, outside>>
      /\ content' \in [Indices -> Value] /\ content'[i] = x
      /\ \A j \in Indices : j # i => content'[j] = content[j]
  BY <1>0, <1>1, <1>3, Zenon DEF CasUpper, Indices
<1>9. VectorSize' = n
  <2>1. (DOMAIN vec)' = DOMAIN vec
    BY <1>3, <1>5, Zenon
  <2> QED BY <1>2, <2>1 DEF VectorSize
<1>10. VectorTypeOK' /\ Fits'
  BY <1>2, <1>5, <1>7, <1>8, <1>9, Zenon DEF VectorInv, VectorTypeOK, Fits
<1>11. OwnElements'
  BY <1>7, <1>8, OwnEnds, Zenon
<1>12. ASSUME NEW j \in Indices, j # i
       PROVE  \A b \in 0..(Bits - 1) : Bit(vec', j * Bits + b) = Bit(vec, j * Bits + b)
  <2>1. j \in Nat /\ upper_word(j) < n
    BY <1>2, JobTyped, SMTT(30) DEF VectorInv, Fits
  <2>2. \A g \in Nat : g \div WORD_BITS < n /\ g - i * Bits \notin 0..(Bits - 1) => Bit(vec', g) = Bit(vec, g)
    BY <1>5
  <2> QED BY <1>3, <1>12, <2>1, <2>2, OthersKept, SMTT(30)
<1>13. Has(vec', i, x)
  <2> SUFFICES ASSUME NEW b \in 0..(Bits - 1) PROVE Bit(vec', i * Bits + b) = x[b]
    BY Zenon DEF Has
  <2>1. /\ i * Bits + b \in Nat /\ (i * Bits + b) \div WORD_BITS < n
    BY <1>3, GetBits, Zenon
  <2>2. /\ (i * Bits + b) - i * Bits = b /\ lower_word(i) # upper_word(i)
        /\ InLower(i, b) \/ (i * Bits + b) \div WORD_BITS = upper_word(i)
    BY LowerOrUpper
  <2>3. CASE InLower(i, b)
    <3>1. Bit(vec, i * Bits + b) = x[b]
      BY <1>0, <1>1, <1>7, <2>3, Zenon DEF VectorInv, LowerStored
    <3>2. (i * Bits + b) \div WORD_BITS # upper_word(i)
      BY <2>2, <2>3, Zenon DEF InLower
    <3> QED BY <1>5, <2>1, <3>1, <3>2, Zenon
  <2>4. CASE (i * Bits + b) \div WORD_BITS = upper_word(i)
    BY <1>5, <2>1, <2>2, <2>4, Zenon
  <2> QED BY <2>2, <2>3, <2>4, Zenon
<1>14. Stored'
  <2> SUFFICES ASSUME NEW j \in Indices,
                      \A u \in Workers : job'[u].index = j => stage'[u] = "readUpper"
               PROVE  Has(vec', j, content'[j])
    BY <1>8, Zenon DEF Stored, Has, Bit
  <2>1. CASE j = i
    BY <1>8, <1>13, <2>1, Zenon
  <2>2. CASE j # i
    <3>1. \A u \in Workers : job[u].index = j => stage[u] = "readUpper"
      BY <1>0, <1>7, <2>2, Zenon
    <3>2. Has(vec, j, content[j])
      BY <3>1, Zenon DEF VectorInv, Stored
    <3> QED BY <1>8, <1>12, <2>2, <3>2, Zenon DEF Has
  <2> QED BY <2>1, <2>2, Zenon
<1>15. \A u \in Workers \ {t} : stage[u] # "idle" => job[u].index \in Indices /\ job[u].index # i
  BY <1>0, <1>7, Zenon DEF VectorInv, OwnElements
<1>16. LowerStored'
  <2> SUFFICES ASSUME NEW u \in Workers, stage'[u] \in {"upper", "casUpper"},
                      NEW b \in 0..(Bits - 1), InLower(job'[u].index, b)
               PROVE  Bit(vec', job'[u].index * Bits + b) = job'[u].value[b]
    BY Zenon DEF LowerStored, InLower, Bit
  <2>1. u # t /\ stage[u] \in {"upper", "casUpper"} /\ job'[u] = job[u]
    BY <1>7, Zenon
  <2>2. job[u].index \in Indices /\ job[u].index # i
    BY <1>15, <2>1, Zenon
  <2>3. Bit(vec, job[u].index * Bits + b) = job[u].value[b]
    BY <2>1, Zenon DEF VectorInv, LowerStored
  <2> QED BY <1>12, <2>1, <2>2, <2>3, Zenon
<1>17. LowerSeen'
  <2> SUFFICES ASSUME NEW u \in Workers, stage'[u] = "readUpper",
                      NEW b \in 0..(Bits - 1), InLower(job'[u].index, b)
               PROVE  seen'[u][(job'[u].index * Bits + b) % WORD_BITS] = content'[job'[u].index][b]
    BY Zenon DEF LowerSeen, InLower
  <2>1. u # t /\ stage[u] = "readUpper" /\ job'[u] = job[u] /\ seen'[u] = seen[u]
    BY <1>7, Zenon
  <2>2. job[u].index \in Indices /\ job[u].index # i
    BY <1>15, <2>1, Zenon
  <2>3. seen[u][(job[u].index * Bits + b) % WORD_BITS] = content[job[u].index][b]
    BY <2>1, Zenon DEF VectorInv, LowerSeen
  <2> QED BY <1>8, <2>1, <2>2, <2>3, Zenon
<1> QED BY <1>10, <1>11, <1>14, <1>16, <1>17 DEF VectorInv

\* The size of a sequence that counts from 0.
LEMMA SizeOf ==
  ASSUME NEW n \in Nat, NEW S, NEW f \in [0..(n - 1) -> S]
  PROVE  Cardinality(DOMAIN f) = n
<1>1. DOMAIN f = 0..(n - 1)
  BY Zenon
<1>2. Cardinality(0..(n - 1)) = IF 0 > n - 1 THEN 0 ELSE n - 1 - 0 + 1
  BY FS_Interval
<1> QED BY <1>1, <1>2

\* A block has as many words as an element has bits, and an element for each bit of a word.
LEMMA BlockWords == BLOCK_WORDS = Bits /\ BLOCK_ELEMENTS = WORD_BITS
<1>1. WORD_BITS \in Nat \ {0} /\ Bits \in Nat
  BY BitsAssumption
<1> QED BY <1>1, DivisionUnique DEF BLOCK_WORDS, BLOCK_ELEMENTS

\* The elements of m blocks lie in m * Bits words, and the upper word of the last
\* may be the one after them.
LEMMA BlocksHold ==
  ASSUME NEW m \in Nat, NEW i \in Nat, i < m * WORD_BITS
  PROVE  upper_word(i) <= m * Bits
<1>0. WORD_BITS \in Nat \ {0} /\ Bits \in Nat \ {0}
  BY BitsAssumption
<1>1. PICK w \in Nat : w = lower_word(i)
  BY Layout, Zenon
<1>2. PICK o \in Nat : i * Bits = WORD_BITS * w + o
  BY <1>1, Layout
<1>3. i * Bits < (m * WORD_BITS) * Bits
  BY <1>0
<1>4. (m * WORD_BITS) * Bits = WORD_BITS * (m * Bits)
  BY <1>0
<1>5. WORD_BITS * w < WORD_BITS * (m * Bits)
  BY <1>0, <1>2, <1>3, <1>4
<1>6. w < m * Bits
  <2>1. PICK z \in Nat : z = m * Bits
    BY <1>0
  <2>2. WORD_BITS * w < WORD_BITS * z
    BY <1>5, <2>1, Zenon
  <2>3. w < z
    BY <1>0, <2>2
  <2> QED BY <2>1, <2>3, Zenon
<1> QED BY <1>0, <1>1, <1>6 DEF upper_word

\* Words are allocated in blocks, and one more for the last upper word.
LEMMA BlocksFor ==
  ASSUME NEW k \in Nat
  PROVE  \E m \in Nat : SizeFor(k) = m * Bits + 1 /\ k <= m * WORD_BITS
<1>0. WORD_BITS \in Nat \ {0} /\ Bits \in Nat \ {0}
  BY BitsAssumption
<1>1. PICK m \in Nat : m = (k + WORD_BITS - 1) \div WORD_BITS
  BY <1>0, DivisionNat
<1>2. PICK r \in 0..(WORD_BITS - 1) : k + WORD_BITS - 1 = WORD_BITS * m + r
  <2>1. PICK a \in Int : a = k + WORD_BITS - 1
    BY <1>0
  <2>2. a = WORD_BITS * (a \div WORD_BITS) + (a % WORD_BITS) /\ a % WORD_BITS \in 0..(WORD_BITS - 1)
    BY <1>0, Division, Zenon
  <2> QED BY <1>1, <2>1, <2>2, Zenon
<1>3. WORD_BITS * m = m * WORD_BITS
  BY <1>0
<1>4. k <= m * WORD_BITS
  <2>1. PICK z \in Int : z = m * WORD_BITS
    BY <1>0
  <2> QED BY <1>0, <1>2, <1>3, <2>1
<1>5. SizeFor(k) = m * Bits + 1
  BY <1>1, BlockWords, Zenon DEF SizeFor
<1> QED BY <1>4, <1>5, Zenon

\* What an operation has to do while nobody else is in the vector.
LEMMA VectorQuietInv ==
  ASSUME VectorInv, Quiet, UNCHANGED threadVars, NEW m \in Nat,
         vec' \in [0..(m - 1) -> Word], num_elements' \in Nat, ~outside',
         content' \in [0..(num_elements' - 1) -> Value],
         \A i \in 0..(num_elements' - 1) : upper_word(i) < m /\ Has(vec', i, content'[i])
  PROVE  VectorInv'
<1>1. VectorSize' = m
  <2>1. PICK f \in [0..(m - 1) -> Word] : f = vec'
    BY Zenon
  <2>2. Cardinality(DOMAIN f) = m
    BY SizeOf, Zenon
  <2> QED BY <2>1, <2>2, Zenon DEF VectorSize
<1>2. Indices' = 0..(num_elements' - 1)
  BY Zenon DEF Indices
<1>3. stage' = stage /\ job' = job /\ seen' = seen /\ \A t \in Workers : stage[t] = "idle"
  BY Zenon DEF threadVars, Quiet
<1>4. VectorTypeOK' /\ Fits'
  BY <1>1, <1>2, <1>3, Zenon DEF VectorInv, VectorTypeOK, Fits
<1>5. OwnElements' /\ LowerStored' /\ LowerSeen'
  BY <1>3, Zenon DEF VectorInv, OwnElements, LowerStored, LowerSeen
<1>6. Stored'
  BY <1>2, Zenon DEF Stored, Has, Bit
<1> QED BY <1>4, <1>5, <1>6, Zenon DEF VectorInv

\* While no thread is in the vector every element has its content.
LEMMA QuietStored ==
  ASSUME VectorInv, Quiet
  PROVE  /\ \A i \in Indices : Has(vec, i, content[i]) /\ upper_word(i) < VectorSize /\ i \in Nat
         /\ VectorSize \in Nat /\ vec \in [0..(VectorSize - 1) -> Word]
         /\ num_elements \in Nat /\ content \in [Indices -> Value] /\ ~outside
<1>1. \A i \in Indices : i \in Nat /\ i # -1
  BY DEF Indices
<1>2. \A t \in Workers : job[t].index = -1
  BY Zenon DEF Quiet, VectorInv, OwnElements
<1>3. \A i \in Indices : Has(vec, i, content[i])
  BY <1>1, <1>2, Zenon DEF VectorInv, Stored
<1> QED BY <1>1, <1>3, Zenon DEF VectorInv, VectorTypeOK, Fits

\* resize keeps the elements it does not cut off.
LEMMA ResizeInv ==
  ASSUME VectorInv, NEW k \in Nat, resize(k)
  PROVE  VectorInv'
<1>0. /\ \A i \in Indices : Has(vec, i, content[i]) /\ upper_word(i) < VectorSize /\ i \in Nat
      /\ VectorSize \in Nat /\ vec \in [0..(VectorSize - 1) -> Word]
      /\ num_elements \in Nat /\ content \in [Indices -> Value] /\ ~outside
  BY QuietStored, Zenon DEF resize
<1>1. PICK m \in Nat : SizeFor(k) = m * Bits + 1 /\ k <= m * WORD_BITS
  BY BlocksFor, Zenon
<1>2. PICK s \in Nat : s = m * Bits + 1 /\ s = SizeFor(k)
  BY <1>1, BitsAssumption
<1>3. \A i \in 0..(k - 1) : upper_word(i) < s
  <2> TAKE i \in 0..(k - 1)
  <2>1. i \in Nat /\ i < m * WORD_BITS
    <3>1. PICK z \in Int : z = m * WORD_BITS
      BY BitsAssumption
    <3> QED BY <1>1, <3>1
  <2>2. upper_word(i) <= m * Bits
    BY <2>1, BlocksHold, Zenon
  <2>3. upper_word(i) \in Nat
    BY <2>1, Layout DEF upper_word
  <2>4. PICK z \in Int : z = m * Bits
    BY BitsAssumption
  <2> QED BY <1>2, <2>2, <2>3, <2>4
<1>4. vec' = Resized(vec, s) /\ num_elements' = k /\ outside' = outside
  BY <1>2, Zenon DEF resize
<1>5. /\ vec' \in [0..(s - 1) -> Word]
      /\ \A i \in Nat : \A y : upper_word(i) < VectorSize /\ upper_word(i) < s /\ Has(vec, i, y) => Has(vec', i, y)
  BY <1>0, <1>4, ResizedBits, Zenon
<1>6. content' = [i \in 0..(k - 1) |-> IF i \in Indices THEN content[i] ELSE get_value(vec', i)]
  BY Zenon DEF resize
<1>7. ASSUME NEW i \in 0..(k - 1)
      PROVE  content'[i] \in Value /\ Has(vec', i, content'[i])
  <2>1. CASE i \in Indices
    BY <1>0, <1>3, <1>5, <1>6, <2>1, Zenon
  <2>2. CASE i \notin Indices
    <3>1. content'[i] = get_value(vec', i) /\ i \in Nat
      BY <1>6, <2>2
    <3>2. PICK f \in [0..(s - 1) -> Word] : f = vec'
      BY <1>5, Zenon
    <3>3. get_value(f, i) \in Value
      BY <1>3, <3>1, GetBits, Zenon
    <3>4. PICK y \in Value : y = get_value(f, i)
      BY <3>3, Zenon
    <3>5. Has(f, i, y)
      BY <1>3, <3>1, <3>4, GetIs, Zenon
    <3>6. content'[i] = y
      BY <3>1, <3>2, <3>4, Zenon
    <3> QED BY <3>2, <3>5, <3>6, Zenon
  <2> QED BY <2>1, <2>2, Zenon
<1>8. content' \in [0..(k - 1) -> Value]
  <2>1. content' = [i \in 0..(k - 1) |-> content'[i]]
    BY <1>6, Zenon
  <2> QED BY <1>7, <2>1, Zenon
<1> QED BY <1>0, <1>3, <1>4, <1>5, <1>7, <1>8, VectorQuietInv, SMTT(30) DEF resize

\* Allocating block by block ends, with room for both words of the new element.
LEMMA AllocatedFits ==
  ASSUME VectorSize \in Nat, NEW i \in Nat
  PROVE  Allocated(i) \in Nat /\ upper_word(i) < Allocated(i) /\ VectorSize <= Allocated(i)
<1>0. WORD_BITS \in Nat \ {0, 1} /\ Bits \in Nat \ {0} /\ BLOCK_WORDS = Bits
  BY BitsAssumption, BlockWords
<1>1. \A j \in 0..(i + 2) : VectorSize + j * BLOCK_WORDS \in Nat /\ VectorSize <= VectorSize + j * BLOCK_WORDS
  <2> TAKE j \in 0..(i + 2)
  <2>1. PICK z \in Nat : z = j * Bits
    BY <1>0
  <2> QED BY <1>0, <2>1
<1>2. \A z \in Sizes(i) : z \in Nat /\ VectorSize <= z /\ upper_word(i) < z
  BY <1>1, Zenon DEF Sizes
<1>3. Sizes(i) # {}
  <2>1. PICK w \in Nat : w = lower_word(i)
    BY Layout, Zenon
  <2>2. PICK o \in Nat : i * Bits = WORD_BITS * w + o
    BY <2>1, Layout
  <2>3. PICK p \in Nat : p = i * Bits
    BY <1>0
  <2>4. w <= p
    BY <1>0, <2>2, <2>3
  <2>5. (i + 2) * Bits = p + 2 * Bits
    BY <1>0, <2>3
  <2>6. upper_word(i) < VectorSize + (i + 2) * BLOCK_WORDS
    BY <1>0, <2>1, <2>4, <2>5, SMTT(30) DEF upper_word
  <2>7. VectorSize + (i + 2) * BLOCK_WORDS \in Sizes(i)
    BY <2>6 DEF Sizes
  <2> QED BY <2>7, Zenon
<1>4. \E z \in Sizes(i) : \A y \in Sizes(i) : z <= y
  BY <1>2, <1>3, Least, Zenon
<1>5. Allocated(i) \in Sizes(i)
  BY <1>4, Zenon DEF Allocated
<1> QED BY <1>2, <1>5, Zenon

\* push_back adds one element and keeps the others.
LEMMA PushBackInv ==
  ASSUME VectorInv, NEW x \in Value, push_back(x)
  PROVE  VectorInv'
<1>0. /\ \A i \in Indices : Has(vec, i, content[i]) /\ upper_word(i) < VectorSize /\ i \in Nat
      /\ VectorSize \in Nat /\ vec \in [0..(VectorSize - 1) -> Word]
      /\ num_elements \in Nat /\ content \in [Indices -> Value] /\ ~outside
  BY QuietStored, Zenon DEF push_back
<1>1. PICK s \in Nat : s = Allocated(num_elements) /\ upper_word(num_elements) < s /\ VectorSize <= s
  BY <1>0, AllocatedFits, Zenon
<1>2. PICK f \in [0..(s - 1) -> Word] : f = Resized(vec, s)
  BY <1>0, ResizedBits, Zenon
<1>3. \A i \in Indices : upper_word(i) < s /\ Has(f, i, content[i])
  <2> TAKE i \in Indices
  <2>1. upper_word(i) \in Int
    BY <1>0, Layout DEF upper_word
  <2>2. upper_word(i) < s
    BY <1>0, <1>1, <2>1
  <2> QED BY <1>0, <1>2, <2>2, ResizedBits, Zenon
<1>4. vec' = Set(f, num_elements, x) /\ num_elements' = num_elements + 1
  BY <1>1, <1>2, Zenon DEF push_back
<1>5. /\ vec' \in [0..(s - 1) -> Word] /\ Has(vec', num_elements, x)
      /\ \A j \in Nat : \A y : j # num_elements /\ upper_word(j) < s /\ Has(f, j, y) => Has(vec', j, y)
  BY <1>0, <1>1, <1>4, SetBits, Zenon
<1>6. ~outside'
  <2>1. upper_word(num_elements) \in Int
    BY <1>0, Layout, SMTT(30) DEF upper_word
  <2>2. ~LeavesVector(num_elements, s)
    BY <1>1, <2>1 DEF LeavesVector
  <2>3. outside' = (outside \/ LeavesVector(num_elements, Allocated(num_elements)))
    BY Zenon DEF push_back
  <2> QED BY <1>0, <1>1, <2>2, <2>3, Zenon
<1>7. content' = [i \in 0..num_elements |-> IF i = num_elements THEN x ELSE content[i]]
  BY Zenon DEF push_back
<1>8. \A i \in 0..num_elements : i = num_elements \/ i \in Indices
  BY <1>0 DEF Indices
<1>9. \A i \in 0..num_elements : content'[i] \in Value /\ upper_word(i) < s /\ Has(vec', i, content'[i])
  <2> TAKE i \in 0..num_elements
  <2>1. CASE i = num_elements
    BY <1>1, <1>5, <1>7, <2>1, Zenon
  <2>2. CASE i \in Indices /\ i # num_elements
    BY <1>0, <1>3, <1>5, <1>7, <2>2, Zenon
  <2> QED BY <1>8, <2>1, <2>2, Zenon
<1>10. num_elements' \in Nat /\ 0..(num_elements' - 1) = 0..num_elements
  BY <1>0, <1>4
<1>11. content' \in [0..(num_elements' - 1) -> Value]
  <2>1. content' = [i \in 0..num_elements |-> content'[i]]
    BY <1>7, Zenon
  <2> QED BY <1>9, <1>10, <2>1, Zenon
<1>12. \A i \in 0..(num_elements' - 1) : upper_word(i) < s /\ Has(vec', i, content'[i])
  BY <1>9, <1>10, Zenon
<1>13. Quiet /\ UNCHANGED threadVars
  BY Zenon DEF push_back
<1> QED BY <1>5, <1>6, <1>10, <1>11, <1>12, <1>13, VectorQuietInv, Zenon

-----------------------------------------------------------------------------
\* The vector after each step of fill.
Fills(g, n, v, x) == g = [k \in 0..n |-> IF k = 0 THEN v ELSE Set(g[k - 1], k - 1, x)]

\* The steps of fill exist for every number of elements.
LEMMA FillExists ==
  ASSUME NEW v, NEW x, NEW n \in Nat
  PROVE  \E g : Fills(g, n, v, x)
<1> DEFINE T == {k \in Nat : ~ \E g : Fills(g, k, v, x)}
<1>1. SUFFICES ASSUME T # {} PROVE FALSE
  BY Zenon
<1>2. PICK k \in T : \A j \in T : k <= j
  BY <1>1, Least, Zenon
<1>3. CASE k = 0
  <2>1. Fills([j \in 0..0 |-> v], 0, v, x)
    BY DEF Fills
  <2> QED BY <1>3, <2>1, Zenon
<1>4. CASE k # 0
  <2>1. k - 1 \in Nat /\ k - 1 \notin T
    BY <1>2, <1>4
  <2>2. PICK g : Fills(g, k - 1, v, x)
    BY <2>1, Zenon
  <2> DEFINE h == [j \in 0..k |-> IF j = k THEN Set(g[k - 1], k - 1, x) ELSE g[j]]
  <2>3. \A j \in 0..(k - 1) : g[j] = IF j = 0 THEN v ELSE Set(g[j - 1], j - 1, x)
    BY <2>2, Zenon DEF Fills
  <2>4. \A j \in 0..(k - 1) : h[j] = g[j]
    OBVIOUS
  <2>5. \A j \in 0..k : h[j] = IF j = 0 THEN v ELSE Set(h[j - 1], j - 1, x)
    <3> TAKE j \in 0..k
    <3>1. CASE j = k
      <4>1. h[j] = Set(g[k - 1], k - 1, x)
        BY <3>1, Zenon
      <4>2. h[k - 1] = g[k - 1]
        BY <2>1, <2>4
      <4> HIDE DEF h
      <4> QED BY <1>4, <3>1, <4>1, <4>2, Zenon
    <3>2. CASE j # k
      <4>1. j \in 0..(k - 1) /\ (j # 0 => j - 1 \in 0..(k - 1))
        BY <3>2
      <4>2. h[j] = g[j] /\ (j # 0 => h[j - 1] = g[j - 1])
        BY <2>4, <4>1, Zenon
      <4> HIDE DEF h
      <4> QED BY <2>3, <4>1, <4>2, Zenon
    <3> QED BY <3>1, <3>2, Zenon
  <2>6. h = [j \in 0..k |-> h[j]]
    BY Zenon
  <2>7. Fills(h, k, v, x)
    <3> HIDE DEF h
    <3> QED BY <2>5, <2>6, Zenon DEF Fills
  <2> HIDE DEF h
  <2> QED BY <2>7, Zenon
<1> QED BY <1>3, <1>4, Zenon

\* Filled is what is left after the last step.
LEMMA FilledIs ==
  ASSUME NEW v, NEW x, NEW s \in Nat, FilledElements(s) \in Nat
  PROVE  \E g : Fills(g, FilledElements(s), v, x) /\ Filled(v, s, x) = g[FilledElements(s)]
<1>1. \E g : Fills(g, FilledElements(s), v, x)
  BY FillExists, Zenon
<1> DEFINE f == CHOOSE g : g = [k \in 0..FilledElements(s) |->
                                  IF k = 0 THEN v ELSE Set(g[k - 1], k - 1, x)]
<1>2. f = [k \in 0..FilledElements(s) |-> IF k = 0 THEN v ELSE Set(f[k - 1], k - 1, x)]
  BY <1>1, Zenon DEF Fills
<1>3. Filled(v, s, x) = f[FilledElements(s)]
  BY Zenon DEF Filled
<1> HIDE DEF f
<1> QED BY <1>2, <1>3, Zenon DEF Fills

\* After k steps of fill the first k elements have the value.
LEMMA FillBits ==
  ASSUME NEW n \in Nat, NEW v \in [0..(n - 1) -> Word], NEW x \in Value, NEW N \in Nat,
         \A k \in 0..(N - 1) : upper_word(k) < n,
         NEW g, Fills(g, N, v, x)
  PROVE  g[N] \in [0..(n - 1) -> Word] /\ \A j \in 0..(N - 1) : Has(g[N], j, x)
<1> DEFINE P(k) == g[k] \in [0..(n - 1) -> Word] /\ \A j \in 0..(k - 1) : Has(g[k], j, x)
           T == {k \in 0..N : ~P(k)}
<1>0. \A k \in 0..N : g[k] = IF k = 0 THEN v ELSE Set(g[k - 1], k - 1, x)
  BY Zenon DEF Fills
<1>1. SUFFICES ASSUME T # {} PROVE FALSE
  OBVIOUS
<1>2. PICK k \in T : \A j \in T : k <= j
  <2>1. T \subseteq Nat
    BY SMTT(30)
  <2> HIDE DEF T
  <2> QED BY <1>1, <2>1, Least, Zenon
<1>3. CASE k = 0
  BY <1>0, <1>3
<1>4. CASE k # 0
  <2>1. k - 1 \in 0..(N - 1) /\ k - 1 \in 0..N /\ k - 1 \notin T
    BY <1>2, <1>4, SMTT(30)
  <2>2. PICK i \in Nat : i = k - 1
    BY <2>1
  <2>3. P(i)
    BY <2>1, <2>2, Zenon
  <2>4. PICK f \in [0..(n - 1) -> Word] : f = g[i]
    BY <2>3, Zenon
  <2>5. g[k] = Set(f, i, x)
    BY <1>0, <1>4, <2>2, <2>4, Zenon
  <2>6. upper_word(i) < n
    BY <2>1, <2>2, ZenonT(30)
  <2>7. /\ g[k] \in [0..(n - 1) -> Word] /\ Has(g[k], i, x)
        /\ \A j \in Nat : \A y : j # i /\ upper_word(j) < n /\ Has(f, j, y) => Has(g[k], j, y)
    BY <2>5, <2>6, SetBits, SMTT(30)
  <2>8. \A j \in 0..(k - 1) : Has(g[k], j, x)
    <3> TAKE j \in 0..(k - 1)
    <3>1. CASE j = i
      BY <2>7, <3>1, Zenon
    <3>2. CASE j # i
      <4>1. j \in 0..(i - 1) /\ j \in 0..(N - 1) /\ j \in Nat
        BY <2>1, <2>2, <3>2
      <4> QED BY <2>3, <2>4, <2>7, <3>2, <4>1, ZenonT(30)
    <3> QED BY <3>1, <3>2, Zenon
  <2> QED BY <1>2, <2>7, <2>8, ZenonT(30)
<1> QED BY <1>3, <1>4, Zenon

\* With elements of one bit a block is one word, so that fill would take the
\* sentinel for a block; hence the assumption.
LEMMA ConstructInv ==
  ASSUME Bits # 1, VectorInv, NEW c \in Nat, NEW x \in Value, Construct(c, x)
  PROVE  VectorInv'
<1>0. /\ VectorSize \in Nat /\ vec \in [0..(VectorSize - 1) -> Word]
      /\ WORD_BITS \in Nat \ {0} /\ Bits \in Nat \ {0, 1}
  BY BitsAssumption, QuietStored DEF Construct
<1>1. PICK m \in Nat : SizeFor(c) = m * Bits + 1 /\ c <= m * WORD_BITS
  BY BlocksFor, Zenon
<1>2. PICK s \in Nat : s = m * Bits + 1 /\ s = SizeFor(c)
  BY <1>0, <1>1
<1>3. PICK N \in Nat : N = m * WORD_BITS
  BY <1>0
<1>4. FilledElements(s) = N
  <2>1. s = Bits * m + 1 /\ 1 \in 0..(Bits - 1)
    BY <1>0, <1>2, SMTT(30)
  <2>2. s \div Bits = m
    BY <1>0, <2>1, DivisionUnique, SMTT(30)
  <2> QED BY <1>3, <2>2, BlockWords, Zenon DEF FilledElements
<1>5. \A k \in 0..(N - 1) : upper_word(k) < s
  <2> TAKE k \in 0..(N - 1)
  <2>1. k \in Nat /\ k < m * WORD_BITS
    BY <1>3, SMTT(30)
  <2>2. upper_word(k) <= m * Bits /\ upper_word(k) \in Nat
    BY <2>1, BlocksHold, Layout, SMTT(30) DEF upper_word
  <2>3. PICK z \in Int : z = m * Bits
    BY <1>0
  <2> QED BY <1>2, <2>2, <2>3
<1>6. PICK f \in [0..(s - 1) -> Word] : f = Resized(vec, s)
  BY <1>0, ResizedBits, Zenon
<1>7. vec' = Filled(f, s, x) /\ num_elements' = c /\ content' = [i \in 0..(c - 1) |-> x]
  BY <1>2, <1>6, Zenon DEF Construct
<1>8. PICK g : Fills(g, N, f, x) /\ Filled(f, s, x) = g[N]
  BY <1>4, FilledIs
<1>9. vec' \in [0..(s - 1) -> Word] /\ \A j \in 0..(N - 1) : Has(vec', j, x)
  <2>1. g[N] \in [0..(s - 1) -> Word] /\ \A j \in 0..(N - 1) : Has(g[N], j, x)
    BY <1>5, <1>8, FillBits, Zenon
  <2>2. vec' = g[N]
    BY <1>7, <1>8, Zenon
  <2> QED BY <2>1, <2>2, Zenon
<1>10. ~outside'
  <2>1. \A k \in 0..(N - 1) : upper_word(k) \in Nat
    <3> TAKE k \in 0..(N - 1)
    <3>1. k \in Nat
      OBVIOUS
    <3>2. PICK w \in Nat : w = lower_word(k)
      BY <3>1, Layout, Zenon
    <3> QED BY <3>2 DEF upper_word
  <2> QED BY <1>2, <1>4, <1>5, <2>1, SMTT(30) DEF Construct, LeavesVector
<1>11. \A i \in 0..(c - 1) : i \in 0..(N - 1) /\ content'[i] = x
  BY <1>1, <1>3, <1>7
<1>12. \A i \in 0..(num_elements' - 1) : upper_word(i) < s /\ Has(vec', i, content'[i])
  BY <1>5, <1>7, <1>9, <1>11, Zenon
<1>13. content' \in [0..(num_elements' - 1) -> Value] /\ num_elements' \in Nat
  BY <1>7, Zenon
<1>14. Quiet /\ UNCHANGED threadVars
  BY Zenon DEF Construct
<1> QED BY <1>9, <1>10, <1>12, <1>13, <1>14, VectorQuietInv, ZenonT(30)

\* VectorInv is inductive.
LEMMA VectorInvariance ==
  ASSUME Bits # 1
  PROVE  VectorInv /\ [VectorNext]_vectorVars => VectorInv'
<1> SUFFICES ASSUME VectorInv, [VectorNext]_vectorVars PROVE VectorInv'
  BY Zenon
<1>0. Values \subseteq Value
  BY ValuesAssumption, Zenon DEF Value
<1>1. CASE Alone
  <2>1. ASSUME NEW x \in Values, push_back(x) PROVE VectorInv'
    BY <1>0, <2>1, PushBackInv, Zenon
  <2>2. ASSUME NEW k \in 0..MaxElements, resize(k) PROVE VectorInv'
    BY <2>2, ResizeInv
  <2>3. ASSUME NEW k \in 0..MaxElements, NEW x \in Values, Construct(k, x) PROVE VectorInv'
    BY <1>0, <2>3, ConstructInv
  <2> QED BY <1>1, <2>1, <2>2, <2>3, Zenon DEF Alone
<1>2. CASE Parallel
  <2>1. PICK t \in Workers : \/ \E i \in Indices : ReadLower(t, i)
                             \/ \E i \in Indices, x \in Values : Assign(t, i, x)
                             \/ ThreadStep(t)
    BY <1>2, Zenon DEF Parallel
  <2>2. CASE \E i \in Indices : ReadLower(t, i)
    BY <2>2, ReadLowerInv, Zenon
  <2>3. CASE \E i \in Indices, x \in Values : Assign(t, i, x)
    BY <2>3, AssignInv, Zenon
  <2>4. CASE ThreadStep(t)
    BY <2>4, LoadInv, CasLowerInv, CasUpperInv, ReadUpperInv, Zenon DEF ThreadStep
  <2> QED BY <2>1, <2>2, <2>3, <2>4, Zenon
<1>3. CASE UNCHANGED vectorVars
  <2>1. /\ vec' = vec /\ num_elements' = num_elements /\ stage' = stage /\ job' = job
        /\ seen' = seen /\ content' = content /\ outside' = outside
    BY <1>3, Zenon DEF vectorVars
  <2>2. VectorSize' = VectorSize /\ Indices' = Indices
    BY <2>1, Zenon DEF VectorSize, Indices
  <2>3. VectorTypeOK' /\ Fits'
    BY <2>1, <2>2, Zenon DEF VectorInv, VectorTypeOK, Fits
  <2>4. OwnElements' /\ Stored'
    BY <2>1, <2>2, Zenon DEF VectorInv, OwnElements, Stored, Has, Bit
  <2>5. LowerStored' /\ LowerSeen'
    BY <2>1, Zenon DEF VectorInv, LowerStored, LowerSeen, InLower, Bit
  <2> QED BY <2>3, <2>4, <2>5, Zenon DEF VectorInv
<1> QED BY <1>1, <1>2, <1>3, Zenon DEF VectorNext

\* What is assigned to an element is there when the assignment is done, whatever other
\* threads assign to its neighbours in the same words at the same time, for every width of
\* the words and of the elements but one bit (StoredAsWritten).
THEOREM StoresApart == ASSUME Bits # 1 PROVE VectorSpec => []StoredAsWritten
<1>1. VectorInv => StoredAsWritten
  <2> SUFFICES ASSUME VectorInv PROVE StoredAsWritten
    BY Zenon
  <2>1. ~outside /\ \A i \in Indices : upper_word(i) < VectorSize
    BY Zenon DEF VectorInv, VectorTypeOK, Fits
  <2>2. ASSUME NEW i \in Indices, ~InFlight(i) PROVE get_value(vec, i) = content[i]
    <3>1. PICK n \in Nat : n = VectorSize /\ vec \in [0..(n - 1) -> Word]
      BY Zenon DEF VectorInv, VectorTypeOK
    <3>2. i \in Nat /\ content[i] \in Value /\ upper_word(i) < n
      BY <2>1, <3>1 DEF VectorInv, VectorTypeOK, Indices
    <3>3. Has(vec, i, content[i])
      BY <2>2, Zenon DEF InFlight, IsAt, VectorInv, Stored
    <3> QED BY <3>1, <3>2, <3>3, GetIs, Zenon
  <2> QED BY <2>1, <2>2, Zenon DEF StoredAsWritten
<1> QED BY <1>1, VectorInitially, VectorInvariance, PTL DEF VectorSpec

\* A read of an element that nobody assigns to returns its value, although the two words of
\* the element are loaded one after the other while its neighbours change (ReadsOwnValue).
THEOREM ReadsApart == ASSUME Bits # 1 PROVE VectorSpec => []ReadsOwnValue
<1>1. VectorInv => ReadsOwnValue
  <2> SUFFICES ASSUME VectorInv, NEW t \in Workers, stage[t] = "readUpper"
               PROVE  Combine(element(job[t].index), seen[t], vec[upper_word(job[t].index)])
                        = content[job[t].index]
    BY Zenon DEF ReadsOwnValue, IsAt
  <2>1. PICK i \in Nat : i = job[t].index /\ i \in Indices
    <3>1. stage[t] # "idle"
      BY Zenon
    <3> QED BY <3>1, JobTyped, Zenon
  <2>2. PICK n \in Nat : n = VectorSize /\ vec \in [0..(n - 1) -> Word]
    BY Zenon DEF VectorInv, VectorTypeOK
  <2>3. upper_word(i) \in 0..(n - 1) /\ content[i] \in Value
    BY <2>1, <2>2, JobTyped, Zenon DEF VectorInv, VectorTypeOK
  <2>4. PICK up \in Word : up = vec[upper_word(i)]
    BY <2>2, <2>3, Zenon
  <2>5. PICK lo \in Word : lo = seen[t]
    BY Zenon DEF VectorInv, VectorTypeOK
  <2>6. PICK x \in Value : x = content[i]
    BY <2>3, Zenon
  <2>7. Has(vec, i, x)
    BY <2>1, <2>6, Zenon DEF VectorInv, OwnElements, Stored
  <2>8. PICK y \in Value : y = Combine(element(i), lo, up)
    BY CombineBits, Zenon
  <2>9. ASSUME NEW b \in 0..(Bits - 1) PROVE y[b] = x[b]
    <3>1. CASE lower_offset(element(i)) + b < WORD_BITS
      <4>1. y[b] = lo[lower_offset(element(i)) + b]
        BY <2>8, <3>1, CombineBits, Zenon
      <4>2. (i * Bits + b) % WORD_BITS = lower_offset(element(i)) + b /\ InLower(i, b)
        BY <3>1, Place, Zenon DEF InLower
      <4>3. lo[(i * Bits + b) % WORD_BITS] = x[b]
        BY <2>1, <2>5, <2>6, <4>2, Zenon DEF VectorInv, LowerSeen
      <4> QED BY <4>1, <4>2, <4>3, Zenon
    <3>2. CASE ~(lower_offset(element(i)) + b < WORD_BITS)
      <4>1. y[b] = up[lower_offset(element(i)) + b - WORD_BITS]
        BY <2>8, <3>2, CombineBits, Zenon
      <4>2. /\ (i * Bits + b) % WORD_BITS = lower_offset(element(i)) + b - WORD_BITS
            /\ (i * Bits + b) \div WORD_BITS = upper_word(i)
        <5>1. lower_offset(element(i)) \in Nat /\ WORD_BITS \in Nat
          BY Layout, BitsAssumption, SMTT(30)
        <5>2. lower_offset(element(i)) + b >= WORD_BITS
          BY <3>2, <5>1
        <5> QED BY <5>2, Place, Zenon
      <4>3. Bit(vec, i * Bits + b) = x[b]
        BY <2>7, Zenon DEF Has
      <4> QED BY <2>4, <4>1, <4>2, <4>3, Zenon DEF Bit
    <3> QED BY <3>1, <3>2, Zenon
  <2>10. y = x
    <3>1. y = [b \in 0..(Bits - 1) |-> y[b]] /\ x = [b \in 0..(Bits - 1) |-> x[b]]
      BY Zenon DEF Value
    <3> QED BY <2>9, <3>1, Zenon
  <2> QED BY <2>1, <2>4, <2>5, <2>6, <2>8, <2>10, Zenon
<1> QED BY <1>1, VectorInitially, VectorInvariance, PTL DEF VectorSpec
=============================================================================
