------------------------------ MODULE Monitor ------------------------------
(* What storage::SharedMonitor promises the processes that share it: a mutex *)
(* and a condition variable with wait and notify_all.  The promise holds     *)
(* although a participant may be killed at any moment; the one thing the     *)
(* mutex cannot survive is the death of its owner, since an interprocess     *)
(* mutex is not robust.                                                      *)

CONSTANTS Threads,   \* the threads that use the monitor
          NoThread,  \* the owner of a free mutex
          Abandoned  \* the owner of a mutex whose owner has died

VARIABLES owner,     \* the thread that holds the mutex, NoThread or Abandoned
          waiting,   \* threads inside wait() that no notify_all has reached
          woken      \* threads inside wait() that have yet to take the mutex

vars == <<owner, waiting, woken>>

Outside == Threads \ (waiting \cup woken)

Init == /\ owner = NoThread
        /\ waiting = {}
        /\ woken = {}

(* scoped_lock on get_mutex() *)
Lock(t) == /\ t \in Outside
           /\ owner = NoThread
           /\ owner' = t
           /\ UNCHANGED <<waiting, woken>>

Unlock(t) == /\ owner = t
             /\ owner' = NoThread
             /\ UNCHANGED <<waiting, woken>>

(* wait(lock) gives the mutex up and starts waiting in one step. *)
Wait(t) == /\ owner = t
           /\ owner' = NoThread
           /\ waiting' = waiting \cup {t}
           /\ UNCHANGED woken

(* notify_all() takes the mutex and reaches every waiting thread. *)
NotifyAll(t) == /\ t \in Outside
                /\ owner = NoThread
                /\ owner' = t
                /\ waiting' = {}
                /\ woken' = woken \cup waiting

(* A notified thread returns from wait() once it has the mutex again. *)
Relock(t) == /\ t \in woken
             /\ owner = NoThread
             /\ owner' = t
             /\ woken' = woken \ {t}
             /\ UNCHANGED waiting

(* The threads ts die.  If one of them owned the mutex nobody will ever own  *)
(* it again.                                                                 *)
Die(ts) == /\ waiting' = waiting \ ts
           /\ woken' = woken \ ts
           /\ owner' = IF owner \in ts THEN Abandoned ELSE owner

Next == \/ \E t \in Threads : \/ Lock(t) \/ Unlock(t) \/ Wait(t)
                              \/ NotifyAll(t) \/ Relock(t)
        \/ \E ts \in SUBSET Threads : Die(ts)

Spec == Init /\ [][Next]_vars
=============================================================================
