------------------------------ MODULE Storage ------------------------------
(* osrm-datastore: Storage::Run, with setupRegion and swapData.  It creates  *)
(* fresh segments, fills them from the files, swaps the registered keys      *)
(* under the monitor's mutex, notifies the engines, and reclaims the old     *)
(* segments once nobody is attached to them.                                 *)
EXTENDS SharedRegionRegister

CONSTANTS Stores,   \* osrm-datastore processes
          Jobs,     \* the command lines they are started with
          MaxRuns   \* bound: how many runs are started

(* extract: where the files on disk come from; timed: --max-wait is given;   *)
(* readable: the files can be read.                                          *)
AllJobs == [ds : Datasets, onlyMetric : BOOLEAN, extract : Extracts,
            timed : BOOLEAN, readable : BOOLEAN]

ASSUME JobsAssumption == Jobs \subseteq AllJobs /\ Jobs # {}
ASSUME RunsAssumption == MaxRuns \in Nat

VARIABLES fileLock,  \* holder of osrm-datastore.lock, or Free
          spc,       \* where each datastore is
          skind,     \* the region its loop over the handles has reached
          sgen,      \* the generation of the block it has mapped
          job,       \* its command line
          run,       \* its turn: the place of its run among all runs
          newSeg,    \* handles: the segments it has created
          oldSeg,    \* old_handles: the segments it replaces
          roSeg,     \* readonly_handles: the static segment --only-metric reads
          runs,      \* runs started so far
          turns      \* runs that have got the file lock so far

handles == <<newSeg, oldSeg, roSeg>>
command == <<job, run, runs, turns>>
storeVars == <<fileLock, spc, skind, sgen, job, run, newSeg, oldSeg, roSeg, runs, turns>>

Store(s) == <<"store", s>>

AnyJob == CHOOSE j \in Jobs : TRUE
NoHandles == [k \in Kinds |-> NoSegment]

StoreInit == /\ fileLock = Free
             /\ spc = [s \in Stores |-> "idle"]
             /\ skind = [s \in Stores |-> "static"]
             /\ sgen = [s \in Stores |-> 1]
             /\ job = [s \in Stores |-> AnyJob]
             /\ run = [s \in Stores |-> 0]
             /\ newSeg = [s \in Stores |-> NoHandles]
             /\ oldSeg = [s \in Stores |-> NoHandles]
             /\ roSeg = [s \in Stores |-> NoSegment]
             /\ runs = 0
             /\ turns = 0

Goto(s, location) == spc' = [spc EXCEPT ![s] = location]

(* The handles are kept in a std::map, so "static" comes before "updatable"; *)
(* --only-metric has no handle for the static region.                        *)
FirstKind(s) == IF job[s].onlyMetric THEN "updatable" ELSE "static"

NextHandle(s, after) ==
    IF skind[s] = "static"
    THEN skind' = [skind EXCEPT ![s] = "updatable"] /\ Goto(s, spc[s])
    ELSE skind' = [skind EXCEPT ![s] = FirstKind(s)] /\ Goto(s, after)

Start(s) == /\ spc[s] = "idle"
            /\ runs < MaxRuns
            /\ \E j \in Jobs : job' = [job EXCEPT ![s] = j]
            /\ runs' = runs + 1
            /\ Goto(s, "flock")
            /\ UNCHANGED <<shared, fileLock, skind, sgen, run, turns, handles>>

AcquireNoFileLock(s) == /\ spc[s] = "flock"
                        /\ fileLock' = Store(s)
                        /\ run' = [run EXCEPT ![s] = turns + 1]
                        /\ turns' = turns + 1
                        /\ Goto(s, "open")
                        /\ UNCHANGED <<shared, skind, sgen, job, runs, handles>>

AcquireFileLock(s) == /\ spc[s] = "flock"
                      /\ fileLock = Free
                      /\ fileLock' = Store(s)
                      /\ run' = [run EXCEPT ![s] = turns + 1]
                      /\ turns' = turns + 1
                      /\ Goto(s, "open")
                      /\ UNCHANGED <<shared, skind, sgen, job, runs, handles>>

OpenMonitor(s) == /\ spc[s] = "open"
                  /\ OpenOrCreate
                  /\ sgen' = [sgen EXCEPT ![s] = current']
                  /\ skind' = [skind EXCEPT ![s] = FirstKind(s)]
                  /\ Goto(s, IF job[s].onlyMetric THEN "attach" ELSE "setup")
                  /\ UNCHANGED <<monitor, register, shm, fileLock, command, handles>>

(* --only-metric maps the static segment, without taking the mutex *)
AttachStatic(s) ==
    LET g == sgen[s]
        d == job[s].ds
    IN  /\ spc[s] = "attach"
        /\ Find(g, d, "static")
        /\ roSeg' = [roSeg EXCEPT ![s] = shm[region[g][d]["static"].key]]
        /\ Goto(s, "setup")
        /\ UNCHANGED <<shared, fileLock, skind, sgen, command, newSeg, oldSeg>>

(* setupRegion: reserve the first free key; a segment that already has the   *)
(* key is removed, and a new one is created.                                 *)
SetupRegion(s) ==
    /\ spc[s] = "setup"
    /\ \E key \in Keys :
           LET seg == [key |-> key, run |-> run[s], ds |-> job[s].ds,
                       kind |-> skind[s], extract |-> job[s].extract]
           IN  /\ ReserveKey(sgen[s], key)
               /\ shm' = [shm EXCEPT ![key] = seg]
               /\ newSeg' = [newSeg EXCEPT ![s][skind[s]] = seg]
    /\ NextHandle(s, "populate")
    /\ UNCHANGED <<block, monitor, region, fileLock, sgen, command, oldSeg, roSeg>>

(* A metric is only good for the static data it was made for. *)
ChecksumsMatch(s) == job[s].onlyMetric => roSeg[s].extract = job[s].extract

(* PopulateStaticData, PopulateUpdatableData *)
Populate(s) == /\ spc[s] = "populate"
               /\ job[s].readable
               /\ ChecksumsMatch(s)
               /\ Goto(s, "swap")
               /\ UNCHANGED <<shared, fileLock, skind, sgen, command, handles>>

(* The process ends and its memory is gone. *)
Leave(s) == /\ Goto(s, "idle")
            /\ fileLock' = IF fileLock = Store(s) THEN Free ELSE fileLock
            /\ skind' = [skind EXCEPT ![s] = "static"]
            /\ sgen' = [sgen EXCEPT ![s] = 1]
            /\ job' = [job EXCEPT ![s] = AnyJob]
            /\ run' = [run EXCEPT ![s] = 0]
            /\ newSeg' = [newSeg EXCEPT ![s] = NoHandles]
            /\ oldSeg' = [oldSeg EXCEPT ![s] = NoHandles]
            /\ roSeg' = [roSeg EXCEPT ![s] = NoSegment]
            /\ UNCHANGED <<runs, turns>>

(* A file is missing or incompatible: a RuntimeError, which main() catches.  *)
(* Keys and segments stay as they are.                                       *)
FileError(s) == /\ spc[s] \in {"setup", "populate"}
                /\ ~job[s].readable
                /\ Leave(s)
                /\ UNCHANGED shared

(***************************************************************************)
(* swapData                                                                *)
(***************************************************************************)
SwapLock(s) == /\ spc[s] = "swap"
               /\ Lock(sgen[s], Store(s))
               /\ Goto(s, "publish")
               /\ UNCHANGED <<block, waiting, register, shm, fileLock, skind, sgen,
                              command, handles>>

KeysOf(segs) == {segs[k].key : k \in {k \in Kinds : segs[k] # NoSegment}}

(* timed_lock() gives up: the new segments are removed, their keys are not   *)
(* released, and Run ignores the result and ends with EXIT_SUCCESS.          *)
SwapTimeout(s) ==
    /\ spc[s] = "swap"
    /\ job[s].timed
    /\ owner[sgen[s]] # Free
    /\ shm' = [key \in Keys |-> IF key \in KeysOf(newSeg[s]) THEN NoSegment ELSE shm[key]]
    /\ Leave(s)
    /\ UNCHANGED <<block, monitor, register>>

PublishUnnotified(s) ==
    LET g == sgen[s]
        d == job[s].ds
        k == skind[s]
    IN  /\ spc[s] = "publish"
        /\ Find(g, d, k) \/ CanRegister(g)
        /\ oldSeg' = [oldSeg EXCEPT ![s][k] =
                         IF Find(g, d, k) THEN shm[region[g][d][k].key] ELSE NoSegment]
        /\ SetRegion(g, d, k, newSeg[s][k].key)
        /\ NextHandle(s, "remove")
        /\ IF k = "updatable" THEN Unlock(g) ELSE UNCHANGED owner
        /\ UNCHANGED <<block, waiting, used, shm, fileLock, sgen, command, newSeg, roSeg>>

(* One round of the loop over the handles: open the old segment if there is  *)
(* one, and set the region.  The last round also releases the mutex, under   *)
(* which all of this happens.                                                *)
PublishRegion(s) ==
    LET g == sgen[s]
        d == job[s].ds
        k == skind[s]
    IN  /\ spc[s] = "publish"
        /\ Find(g, d, k) \/ CanRegister(g)
        /\ oldSeg' = [oldSeg EXCEPT ![s][k] =
                         IF Find(g, d, k) THEN shm[region[g][d][k].key] ELSE NoSegment]
        /\ SetRegion(g, d, k, newSeg[s][k].key)
        /\ NextHandle(s, "notify")
        /\ IF k = "updatable" THEN Unlock(g) ELSE UNCHANGED owner
        /\ UNCHANGED <<block, waiting, used, shm, fileLock, sgen, command, newSeg, roSeg>>

NotifyEngines(s) == /\ spc[s] = "notify"
                    /\ NotifyAll(sgen[s], Store(s))
                    /\ Goto(s, "notified")
                    /\ UNCHANGED <<block, register, shm, fileLock, skind, sgen,
                                   command, handles>>

NotifyKeepsLock(s) == /\ spc[s] = "notified"
                      /\ Goto(s, "remove")
                      /\ UNCHANGED <<shared, fileLock, skind, sgen, command, handles>>

NotifyReturns(s) == /\ spc[s] = "notified"
                    /\ Unlock(sgen[s])
                    /\ Goto(s, "remove")
                    /\ UNCHANGED <<block, waiting, register, shm, fileLock, skind,
                                   sgen, command, handles>>

(* A region that was registered for the first time has no old handle. *)
SkipOld(s) == /\ spc[s] = "remove"
              /\ oldSeg[s][skind[s]] = NoSegment
              /\ NextHandle(s, "exit")
              /\ UNCHANGED <<shared, fileLock, sgen, command, handles>>

RemoveNew(s) == /\ spc[s] = "remove"
                /\ oldSeg[s][skind[s]] # NoSegment
                /\ shm' = [shm EXCEPT ![newSeg[s][skind[s]].key] = NoSegment]
                /\ Goto(s, "detach")
                /\ UNCHANGED <<block, monitor, register, fileLock, skind, sgen,
                               command, handles>>

(* SharedMemory::Remove: the key no longer leads to the segment, which lives *)
(* on until the last process detaches.                                       *)
RemoveOld(s) == /\ spc[s] = "remove"
                /\ oldSeg[s][skind[s]] # NoSegment
                /\ shm' = [shm EXCEPT ![oldSeg[s][skind[s]].key] = NoSegment]
                /\ Goto(s, "detach")
                /\ UNCHANGED <<block, monitor, register, fileLock, skind, sgen,
                               command, handles>>

ReleaseAtOnce(s, attached) ==
    /\ spc[s] = "detach"
    /\ ReleaseKey(sgen[s], oldSeg[s][skind[s]].key)
    /\ IF skind[s] = "static"
       THEN skind' = [skind EXCEPT ![s] = "updatable"] /\ Goto(s, "remove")
       ELSE skind' = [skind EXCEPT ![s] = FirstKind(s)] /\ Goto(s, "exit")
    /\ UNCHANGED <<block, monitor, region, shm, fileLock, sgen, command, handles>>

NeverRelease(s, attached) ==
    /\ spc[s] = "detach"
    /\ oldSeg[s][skind[s]] \notin attached
    /\ IF skind[s] = "static"
       THEN skind' = [skind EXCEPT ![s] = "updatable"] /\ Goto(s, "remove")
       ELSE skind' = [skind EXCEPT ![s] = FirstKind(s)] /\ Goto(s, "exit")
    /\ UNCHANGED <<shared, fileLock, sgen, command, handles>>

(* WaitForDetach polls shm_nattch until only this process is attached;       *)
(* ReleaseKey follows.  attached: the segments other processes have mapped.  *)
WaitForDetach(s, attached) ==
    /\ spc[s] = "detach"
    /\ oldSeg[s][skind[s]] \notin attached
    /\ ReleaseKey(sgen[s], oldSeg[s][skind[s]].key)
    /\ IF skind[s] = "static"
       THEN skind' = [skind EXCEPT ![s] = "updatable"] /\ Goto(s, "remove")
       ELSE skind' = [skind EXCEPT ![s] = FirstKind(s)] /\ Goto(s, "exit")
    /\ UNCHANGED <<block, monitor, region, shm, fileLock, sgen, command, handles>>

Exit(s) == /\ spc[s] = "exit"
           /\ Leave(s)
           /\ UNCHANGED shared

(***************************************************************************)
(* Ends that the code does not plan for                                    *)
(***************************************************************************)
(* util::exception is not a RuntimeError, so nobody catches these. *)
Throws(s) ==
    LET g == sgen[s]
        d == job[s].ds
    IN  \/ spc[s] = "attach" /\ ~Find(g, d, "static")
        \/ spc[s] = "setup" /\ NoKeyLeft(g)
        \/ spc[s] = "populate" /\ job[s].readable /\ ~ChecksumsMatch(s)
        \/ spc[s] = "publish" /\ ~Find(g, d, skind[s]) /\ ~CanRegister(g)

(* The process dies: the kernel releases the file lock, nobody the mutex. *)
Die(s) == /\ Leave(s)
          /\ Abandon({Store(s)})
          /\ UNCHANGED <<register, shm>>

(* terminate() raises SIGABRT, whose handler CleanupSharedBarriers removes   *)
(* the control block's name.                                                 *)
Uncaught(s) == /\ Throws(s)
               /\ Die(s)
               /\ RemoveBlock

(* SIGTERM, SIGINT, ... : the same handler *)
Signalled(s) == /\ spc[s] # "idle"
                /\ Die(s)
                /\ RemoveBlock

(* SIGKILL: no handler *)
Killed(s) == /\ spc[s] # "idle"
             /\ Die(s)
             /\ UNCHANGED block

(* The steps that do not wait for a lock *)
StoreProgress(s, attached) ==
    \/ OpenMonitor(s) \/ AttachStatic(s) \/ SetupRegion(s) \/ Populate(s) \/ FileError(s)
    \/ SwapTimeout(s) \/ PublishRegion(s) \/ NotifyReturns(s)
    \/ SkipOld(s) \/ RemoveOld(s) \/ WaitForDetach(s, attached) \/ Exit(s)
    \/ Uncaught(s)

StoreStep(s, attached) == \/ Start(s) \/ AcquireFileLock(s)
                          \/ SwapLock(s) \/ NotifyEngines(s)
                          \/ StoreProgress(s, attached)
=============================================================================
