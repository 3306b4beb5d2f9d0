---------------------------- MODULE DataWatchdog ----------------------------
(* The engine side of a data swap, in an osrm-routed process or a user of    *)
(* libosrm: DataWatchdogImpl's constructor, its watcher thread Run, its      *)
(* destructor, and the queries that hold the facade Get() gave them.         *)
EXTENDS SharedRegionRegister

CONSTANTS Engines,     \* the engines, each with its watchdog
          Unwinding,   \* whether an exception in the constructor unwinds the
                       \* stack: TRUE if the program catches it, FALSE in
                       \* osrm-routed, whose main() only catches RuntimeError
          NoFacade     \* an engine that has not loaded any data

Facades == [Kinds -> Segments]

ASSUME UnwindingAssumption == Unwinding \subseteq BOOLEAN
ASSUME NoFacadeAssumption == NoFacade \notin Facades

VARIABLES wpc,      \* where the constructor, and then the watcher thread, is
          egen,     \* the generation of the control block it has mapped
          eds,      \* its dataset
          copy,     \* static_region and updatable_region
          facade,   \* facade_factory: the segments that new queries use
          queries,  \* the facades that running queries hold
          active,   \* DataWatchdogImpl::active
          mpc       \* where the destructor is

engineVars == <<wpc, egen, eds, copy, facade, queries, active, mpc>>
data == <<copy, facade, queries>>

Watch(e) == <<"watch", e>>
Main(e) == <<"main", e>>

AnyDataset == CHOOSE d \in Datasets : TRUE
NoRegions == [k \in Kinds |-> EmptyRegion]

EngineInit == /\ wpc = [e \in Engines |-> "off"]
              /\ egen = [e \in Engines |-> 1]
              /\ eds = [e \in Engines |-> AnyDataset]
              /\ copy = [e \in Engines |-> NoRegions]
              /\ facade = [e \in Engines |-> NoFacade]
              /\ queries = [e \in Engines |-> {}]
              /\ active = [e \in Engines |-> FALSE]
              /\ mpc = [e \in Engines |-> "idle"]

WatchGoto(e, location) == wpc' = [wpc EXCEPT ![e] = location]
MainGoto(e, location) == mpc' = [mpc EXCEPT ![e] = location]

(* The segments a process has mapped: SharedMemoryAllocator keeps them as    *)
(* long as the factory or a query holds the facade.                          *)
Mapped(e) == LET held == queries[e] \cup ({facade[e]} \ {NoFacade})
             IN  {f[k] : f \in held, k \in Kinds}
Attached == UNION {Mapped(e) : e \in Engines}

(***************************************************************************)
(* The constructor                                                         *)
(***************************************************************************)
OpenBlock(e) == /\ wpc[e] = "off"
                /\ current # 0
                /\ egen' = [egen EXCEPT ![e] = current]
                /\ \E d \in Datasets : eds' = [eds EXCEPT ![e] = d]
                /\ active' = [active EXCEPT ![e] = TRUE]
                /\ WatchGoto(e, "start")
                /\ UNCHANGED <<shared, data, mpc>>

InitLock(e) == /\ wpc[e] = "start"
               /\ Lock(egen[e], Watch(e))
               /\ WatchGoto(e, "init")
               /\ UNCHANGED <<block, waiting, register, shm, egen, eds, data, active, mpc>>

Registered(e) == \A k \in Kinds : Find(egen[e], eds[e], k)

(* SharedMemoryAllocator opens the segments of the copied regions. *)
CanMap(c) == \A k \in Kinds : shm[c[k].key] # NoSegment
Map(c) == [k \in Kinds |-> shm[c[k].key]]

(* The first facade is built, and the watcher thread started. *)
InitFacade(e) == /\ wpc[e] = "init"
                 /\ Registered(e)
                 /\ CanMap(region[egen[e]][eds[e]])
                 /\ copy' = [copy EXCEPT ![e] = region[egen[e]][eds[e]]]
                 /\ facade' = [facade EXCEPT ![e] = Map(region[egen[e]][eds[e]])]
                 /\ Unlock(egen[e])
                 /\ WatchGoto(e, "lock")
                 /\ UNCHANGED <<block, waiting, register, shm, egen, eds, queries,
                                active, mpc>>

(* The process is gone, with the segments it had mapped. *)
Gone(e) == /\ WatchGoto(e, "off")
           /\ MainGoto(e, "idle")
           /\ egen' = [egen EXCEPT ![e] = 1]
           /\ eds' = [eds EXCEPT ![e] = AnyDataset]
           /\ copy' = [copy EXCEPT ![e] = NoRegions]
           /\ facade' = [facade EXCEPT ![e] = NoFacade]
           /\ queries' = [queries EXCEPT ![e] = {}]
           /\ active' = [active EXCEPT ![e] = FALSE]

(* "Could not find shared memory region": thrown under the mutex, which is   *)
(* only released if the exception is caught somewhere.                       *)
InitThrows(e) == /\ wpc[e] = "init"
                 /\ ~Registered(e) \/ ~CanMap(region[egen[e]][eds[e]])
                 /\ \E unwound \in Unwinding :
                        IF unwound THEN Unlock(egen[e]) /\ UNCHANGED waiting
                                   ELSE Abandon({Watch(e)})
                 /\ Gone(e)
                 /\ UNCHANGED <<block, register, shm>>

(***************************************************************************)
(* Run, the watcher thread                                                 *)
(***************************************************************************)
WatchLock(e) == /\ wpc[e] = "lock"
                /\ active[e]
                /\ Lock(egen[e], Watch(e))
                /\ WatchGoto(e, "check")
                /\ UNCHANGED <<block, waiting, register, shm, egen, eds, data, active, mpc>>

Changed(e, k) == copy[e][k].timestamp # region[egen[e]][eds[e]][k].timestamp
Stale(e) == \E k \in Kinds : Changed(e, k)

SleepAnyway(e) == /\ wpc[e] = "check"
                  /\ ~Stale(e)
                  /\ Wait(egen[e], Watch(e))
                  /\ WatchGoto(e, "waiting")
                  /\ UNCHANGED <<block, register, shm, egen, eds, data, active, mpc>>

Sleep(e) == /\ wpc[e] = "check"
            /\ active[e]
            /\ ~Stale(e)
            /\ Wait(egen[e], Watch(e))
            /\ WatchGoto(e, "waiting")
            /\ UNCHANGED <<block, register, shm, egen, eds, data, active, mpc>>

WakeUpSpurious(e) == /\ wpc[e] = "waiting"
                     /\ Lock(egen[e], Watch(e))
                     /\ waiting' = [waiting EXCEPT ![egen[e]] = @ \ {Watch(e)}]
                     /\ WatchGoto(e, "check")
                     /\ UNCHANGED <<block, register, shm, egen, eds, data, active, mpc>>

WakeUp(e) == /\ wpc[e] = "waiting"
             /\ Watch(e) \notin waiting[egen[e]]
             /\ Lock(egen[e], Watch(e))
             /\ WatchGoto(e, "check")
             /\ UNCHANGED <<block, waiting, register, shm, egen, eds, data, active, mpc>>

CopyOneRegion(e) ==
    /\ wpc[e] = "check"
    /\ active[e]
    /\ Stale(e)
    /\ LET k == IF Changed(e, "static") THEN "static" ELSE "updatable"
       IN  copy' = [copy EXCEPT ![e][k] = region[egen[e]][eds[e]][k]]
    /\ WatchGoto(e, "swap")
    /\ UNCHANGED <<shared, egen, eds, facade, queries, active, mpc>>

CopyRegions(e) ==
    /\ wpc[e] = "check"
    /\ active[e]
    /\ Stale(e)
    /\ copy' = [copy EXCEPT ![e] = [k \in Kinds |->
                   IF Changed(e, k) THEN region[egen[e]][eds[e]][k] ELSE copy[e][k]]]
    /\ WatchGoto(e, "swap")
    /\ UNCHANGED <<shared, egen, eds, facade, queries, active, mpc>>

(* The new segments are mapped and the factory replaced; the old facade      *)
(* lives on in the queries that hold it.  The mutex is released after that.  *)
SwapFacade(e) == /\ wpc[e] = "swap"
                 /\ CanMap(copy[e])
                 /\ facade' = [facade EXCEPT ![e] = Map(copy[e])]
                 /\ Unlock(egen[e])
                 /\ WatchGoto(e, "lock")
                 /\ UNCHANGED <<block, waiting, register, shm, egen, eds, copy, queries,
                                active, mpc>>

(* An exception leaves the thread function: the process ends. *)
SwapThrows(e) == /\ wpc[e] = "swap"
                 /\ ~CanMap(copy[e])
                 /\ Abandon({Watch(e), Main(e)})
                 /\ Gone(e)
                 /\ UNCHANGED <<block, register, shm>>

StopUnlocked(e) == /\ wpc[e] = "lock"
                   /\ ~active[e]
                   /\ WatchGoto(e, "done")
                   /\ UNCHANGED <<shared, egen, eds, data, active, mpc>>

StopLocked(e) == /\ wpc[e] = "check"
                 /\ ~active[e]
                 /\ Unlock(egen[e])
                 /\ WatchGoto(e, "done")
                 /\ UNCHANGED <<block, waiting, register, shm, egen, eds, data, active, mpc>>

(***************************************************************************)
(* The destructor                                                          *)
(***************************************************************************)
(* active is a plain bool, written without the mutex.  The server's threads, *)
(* and with them the queries, have ended before.                             *)
Shutdown(e) == /\ wpc[e] \notin {"off", "start", "init"}
               /\ active[e]
               /\ queries[e] = {}
               /\ active' = [active EXCEPT ![e] = FALSE]
               /\ MainGoto(e, "notify")
               /\ UNCHANGED <<shared, wpc, egen, eds, data>>

DestructorNotify(e) == /\ mpc[e] = "notify"
                       /\ NotifyAll(egen[e], Main(e))
                       /\ MainGoto(e, "notified")
                       /\ UNCHANGED <<block, register, shm, wpc, egen, eds, data, active>>

DestructorNotified(e) == /\ mpc[e] = "notified"
                         /\ Unlock(egen[e])
                         /\ MainGoto(e, "join")
                         /\ UNCHANGED <<block, waiting, register, shm, wpc, egen, eds,
                                        data, active>>

Join(e) == /\ mpc[e] = "join"
           /\ wpc[e] = "done"
           /\ Gone(e)
           /\ UNCHANGED shared

(***************************************************************************)
(* Queries                                                                 *)
(***************************************************************************)
(* Get() *)
QueryBegins(e) == /\ facade[e] # NoFacade
                  /\ active[e]
                  /\ queries' = [queries EXCEPT ![e] = @ \cup {facade[e]}]
                  /\ UNCHANGED <<shared, wpc, egen, eds, copy, facade, active, mpc>>

QueryEnds(e, f) == /\ f \in queries[e]
                   /\ queries' = [queries EXCEPT ![e] = @ \ {f}]
                   /\ UNCHANGED <<shared, wpc, egen, eds, copy, facade, active, mpc>>

(* A query that began before the last swap *)
OldQueryEnds(e) == \E f \in queries[e] \ {facade[e]} : QueryEnds(e, f)

EngineKilled(e) == /\ wpc[e] # "off"
                   /\ Abandon({Watch(e), Main(e)})
                   /\ Gone(e)
                   /\ UNCHANGED <<block, register, shm>>

(* The steps that do not wait for a lock *)
EngineProgress(e) == \/ InitFacade(e) \/ InitThrows(e)
                     \/ Sleep(e) \/ CopyRegions(e) \/ SwapFacade(e) \/ SwapThrows(e)
                     \/ StopUnlocked(e) \/ StopLocked(e)
                     \/ DestructorNotified(e) \/ Join(e)

EngineStep(e) == \/ OpenBlock(e) \/ InitLock(e) \/ WatchLock(e) \/ WakeUp(e)
                 \/ Shutdown(e) \/ DestructorNotify(e)
                 \/ QueryBegins(e) \/ \E f \in queries[e] : QueryEnds(e, f)
                 \/ EngineProgress(e)
=============================================================================
