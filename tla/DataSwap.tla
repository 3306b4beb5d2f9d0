------------------------------ MODULE DataSwap ------------------------------
(* Live replacement of routing data: osrm-datastore processes (Storage), the *)
(* engines of osrm-routed processes (DataWatchdog), osrm-datastore --list    *)
(* and what may go wrong with any of them, over one control block.           *)
EXTENDS Storage, DataWatchdog

CONSTANTS WithListing,  \* whether osrm-datastore --list is run
          MaxFaults,    \* bound: kills, signals and --remove-locks
          NoKey         \* no listing is under way

ASSUME FaultsAssumption == MaxFaults \in Nat /\ WithListing \in BOOLEAN
ASSUME NoKeyAssumption == NoKey \notin Keys

VARIABLES listing,  \* the key that osrm-datastore --list is about to open
          faults,   \* faults so far
          missed    \* generations where a datastore died between publishing
                    \* and notifying

vars == <<current, lastGen, owner, waiting, region, used, shm,
          fileLock, spc, skind, sgen, job, run, newSeg, oldSeg, roSeg, runs, turns,
          wpc, egen, eds, copy, facade, queries, active, mpc,
          listing, faults, missed>>
others == <<listing, faults, missed>>

Owners == {Store(s) : s \in Stores} \cup {Watch(e) : e \in Engines}
          \cup {Main(e) : e \in Engines} \cup {Free, Abandoned}

Init == /\ SharedInit
        /\ StoreInit
        /\ EngineInit
        /\ listing = NoKey
        /\ faults = 0
        /\ missed = {}

(***************************************************************************)
(* osrm-datastore --list                                                   *)
(***************************************************************************)
(* listRegions reads the register without taking the mutex, ... *)
ListReads == /\ WithListing
             /\ listing = NoKey
             /\ current # 0
             /\ \E n \in RegisteredNames(current) :
                    listing' = region[current][n[1]][n[2]].key
             /\ UNCHANGED <<shared, storeVars, engineVars, faults, missed>>

(* ... and maps each segment for a moment, to tell its size. *)
ListOpens == /\ listing # NoKey
             /\ shm[listing] # NoSegment
             /\ listing' = NoKey
             /\ UNCHANGED <<shared, storeVars, engineVars, faults, missed>>

(* If the segment is gone by then, the exception ends the process like any   *)
(* other osrm-datastore: with CleanupSharedBarriers.                         *)
ListThrows == /\ listing # NoKey
              /\ shm[listing] = NoSegment
              /\ listing' = NoKey
              /\ RemoveBlock
              /\ UNCHANGED <<monitor, register, shm, storeVars, engineVars, faults, missed>>

(***************************************************************************)
(* Faults                                                                  *)
(***************************************************************************)
StoreDies(s) == /\ Killed(s) \/ Signalled(s)
                /\ missed' = IF spc[s] = "notify" THEN missed \cup {sgen[s]} ELSE missed
                /\ UNCHANGED engineVars

EngineDies(e) == /\ EngineKilled(e)
                 /\ UNCHANGED <<storeVars, missed>>

(* osrm-datastore --remove-locks *)
RemoveLocks == /\ current # 0
               /\ RemoveBlock
               /\ UNCHANGED <<monitor, register, shm, storeVars, engineVars, missed>>

Fault == /\ faults < MaxFaults
         /\ faults' = faults + 1
         /\ \/ \E s \in Stores : StoreDies(s)
            \/ \E e \in Engines : EngineDies(e)
            \/ RemoveLocks
         /\ UNCHANGED listing

OnlyStore(A) == A /\ UNCHANGED <<engineVars, others>>
OnlyEngine(A) == A /\ UNCHANGED <<storeVars, others>>

StoreNext(s) == OnlyStore(StoreStep(s, Attached))
EngineNext(e) == OnlyEngine(EngineStep(e))

Next == \/ \E s \in Stores : StoreNext(s)
        \/ \E e \in Engines : EngineNext(e)
        \/ ListReads \/ ListOpens \/ ListThrows
        \/ Fault

Spec == Init /\ [][Next]_vars

(* The operating system schedules every thread; whoever keeps trying to take *)
(* a lock that is free again and again gets it at last; queries end.  Nobody *)
(* has to start or stop a process or a query.                                *)
Fairness ==
    /\ \A s \in Stores : /\ WF_vars(OnlyStore(StoreProgress(s, Attached)))
                        /\ SF_vars(OnlyStore(AcquireFileLock(s)))
                        /\ SF_vars(OnlyStore(SwapLock(s)))
                        /\ SF_vars(OnlyStore(NotifyEngines(s)))
    /\ \A e \in Engines : /\ WF_vars(OnlyEngine(EngineProgress(e)))
                         /\ WF_vars(OnlyEngine(OldQueryEnds(e)))
                         /\ SF_vars(OnlyEngine(InitLock(e) \/ WatchLock(e) \/ WakeUp(e)))
                         /\ SF_vars(OnlyEngine(DestructorNotify(e)))

FairSpec == Spec /\ Fairness

(***************************************************************************)
(* Properties                                                              *)
(***************************************************************************)
(* All of them are about the latest generation of the control block: after   *)
(* the block was removed and created anew, the engines of the old one are    *)
(* not protected from the new one's use of the same keys.                    *)
Holds(e) == queries[e] \cup ({facade[e]} \ {NoFacade})
Protected(e) == egen[e] = lastGen

(* A facade: the two halves of the engine's dataset, from one extraction. *)
Consistent(f, d) == /\ \A k \in Kinds : f[k].kind = k /\ f[k].ds = d
                    /\ f["static"].extract = f["updatable"].extract

(* No query ever sees static data of one extraction with a metric of         *)
(* another, or data of another dataset, whatever datastores (--only-metric   *)
(* too), watchdogs and queries do in between, and whoever dies.              *)
FacadesConsistent ==
    \A e \in Engines : Protected(e) => \A f \in Holds(e) : Consistent(f, eds[e])

(* A registered key leads to a segment with the data of that region at every *)
(* moment, so an engine that reads the register under the mutex never fails  *)
(* to map it although a datastore removes segments without the mutex.        *)
RegisteredIsMapped ==
    lastGen # 0 => \A d \in Datasets, k \in Kinds : Find(lastGen, d, k) =>
        LET seg == shm[region[lastGen][d][k].key]
        IN  seg # NoSegment /\ seg.ds = d /\ seg.kind = k

(* The key of a segment that an engine has mapped stays reserved until it    *)
(* lets go: ReserveKey never hands out the key of memory that is in use,     *)
(* because swapData waits for all clients before ReleaseKey.  In the first   *)
(* generation of the block a free key has no segment either, even if         *)
(* datastores were killed: setupRegion's removal of one "is only needed for  *)
(* failure recovery".                                                        *)
MappedKeysReserved ==
    /\ \A e \in Engines : Protected(e) =>
           \A seg \in Mapped(e) : seg.key \in used[lastGen]
    /\ lastGen = 1 => \A key \in Keys \ used[1] : shm[key] = NoSegment

(* A sleeping watchdog whose data is out of date, or that has been told to   *)
(* stop, has a notify_all() coming.  The exceptions are the ones the code    *)
(* cannot help: a datastore died before it notified, or the mutex is lost.   *)
NoLostWakeup ==
    \A e \in Engines :
        LET g == egen[e] IN
        Watch(e) \in waiting[g] =>
            /\ Stale(e) => \/ \E s \in Stores : /\ sgen[s] = g
                                                /\ spc[s] \in {"publish", "notify"}
                           \/ owner[g] = Abandoned
                           \/ g \in missed
            /\ ~active[e] => mpc[e] = "notify"

(* Without failures no key is lost: every key in use is registered, or       *)
(* belongs to a running datastore, which will publish or reclaim it.         *)
KeysAccounted ==
    (/\ \A j \in Jobs : j.readable /\ ~j.timed
     /\ faults = 0
     /\ current # 0)
    => used[current] \subseteq
           {region[current][n[1]][n[2]].key : n \in RegisteredNames(current)}
           \cup UNION {KeysOf(newSeg[s]) \cup KeysOf(oldSeg[s]) : s \in Stores}

(* An engine never goes back to older data: a facade is only replaced by     *)
(* segments of the same or of later runs.                                    *)
NeverBackwards ==
    [][\A e \in Engines :
          (Protected(e) /\ facade[e] # NoFacade /\ facade'[e] # NoFacade) =>
              \A k \in Kinds : facade'[e][k].run >= facade[e][k].run]_vars

(* Every thread uses each generation's monitor as Monitor specifies it, the  *)
(* specification that the ring of semaphores in SharedMonitor implements.    *)
MonitorOf(g) ==
    INSTANCE Monitor WITH
        Threads <- Owners \ {Free, Abandoned},
        NoThread <- Free,
        owner <- owner[g],
        waiting <- waiting[g],
        woken <- {Watch(e) : e \in {e \in Engines : /\ wpc[e] = "waiting"
                                                    /\ egen[e] = g
                                                    /\ Watch(e) \notin waiting[g]}}

UsesMonitor ==
    /\ \A g \in Gens : MonitorOf(g)!Init
    /\ [][\A g \in Gens : MonitorOf(g)!Next \/ UNCHANGED MonitorOf(g)!vars]_vars

(* The published version of a dataset: what the register leads to or, while  *)
(* a datastore has swapped only the static region, what it led to before.    *)
HalfPublished(s, d) == /\ spc[s] = "publish"
                       /\ skind[s] = "updatable"
                       /\ ~job[s].onlyMetric
                       /\ job[s].ds = d
Published(d) ==
    IF lastGen = 0 \/ ~Find(lastGen, d, "updatable")
    THEN NoFacade
    ELSE LET now == Map(region[lastGen][d])
         IN  IF \E s \in Stores : HalfPublished(s, d)
             THEN [now EXCEPT !["static"] =
                      oldSeg[CHOOSE s \in Stores : HalfPublished(s, d)]["static"]]
             ELSE now

(* Datastores and watchdogs together implement LiveData, an atomic versioned *)
(* register per dataset, although data is swapped one region at a time and   *)
(* reclaimed while queries still hold it.                                    *)
Live == INSTANCE LiveData WITH
            NoVersion <- NoFacade,
            latest <- [d \in Datasets |-> Published(d)],
            view <- [e \in Engines |-> IF Protected(e) THEN facade[e] ELSE NoFacade],
            serves <- eds

ImplementsLiveData == Live!Spec

(* Every osrm-datastore ends: it gets its locks, and all clients detach from *)
(* what it replaced.                                                         *)
StoresFinish == \A s \in Stores : spc[s] # "idle" ~> spc[s] = "idle"

(* An engine that serves replaced data changes to the published data, or it  *)
(* is shut down; nobody has to poll.                                         *)
EnginesFollow ==
    \A e \in Engines :
        (facade[e] # NoFacade /\ Protected(e) /\ facade[e] # Published(eds[e]))
            ~> (facade[e] = Published(eds[e]) \/ ~active[e] \/ ~Protected(e))

(* ~DataWatchdogImpl returns: the watcher thread sees active = false although *)
(* it is written without the mutex, and join() ends.                         *)
ShutdownsEnd == \A e \in Engines : mpc[e] # "idle" ~> wpc[e] = "off"
=============================================================================
