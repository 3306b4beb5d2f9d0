--------------------------- MODULE DataSwapLemmas ---------------------------
(***************************************************************************)
(* The inductive invariant of DataSwap, for any number of datastores,       *)
(* engines, datasets, keys, runs, generations of the control block and     *)
(* faults, and what the steps of each process do to it.                    *)
(***************************************************************************)
EXTENDS DataSwap, TLAPS

(***************************************************************************)
(* The inductive invariant                                                 *)
(***************************************************************************)
Regions == [timestamp : Nat, key : Keys]

MaybeSegments == Segments \cup {NoSegment}

Watchers == {Watch(e) : e \in Engines}

StoreLocations == {"idle", "flock", "open", "attach", "setup", "populate", "swap", "publish",
                   "notify", "notified", "remove", "detach", "exit"}

WatchLocations == {"off", "start", "init", "lock", "check", "waiting", "swap", "done"}

MainLocations == {"idle", "notify", "notified", "join"}

SharedTypeOK ==
    /\ current \in 0 .. MaxGens
    /\ lastGen \in 0 .. MaxGens
    /\ owner \in [Gens -> Owners]
    /\ waiting \in [Gens -> SUBSET Watchers]
    /\ region \in [Gens -> [Datasets -> [Kinds -> Regions]]]
    /\ used \in [Gens -> SUBSET Keys]
    /\ shm \in [Keys -> MaybeSegments]

StoreTypeOK ==
    /\ fileLock \in {Store(s) : s \in Stores} \cup {Free}
    /\ spc \in [Stores -> StoreLocations]
    /\ skind \in [Stores -> Kinds]
    /\ sgen \in [Stores -> Gens]
    /\ job \in [Stores -> Jobs]
    /\ run \in [Stores -> Nat]
    /\ newSeg \in [Stores -> [Kinds -> MaybeSegments]]
    /\ oldSeg \in [Stores -> [Kinds -> MaybeSegments]]
    /\ roSeg \in [Stores -> MaybeSegments]
    /\ runs \in Nat
    /\ turns \in Nat

EngineTypeOK ==
    /\ wpc \in [Engines -> WatchLocations]
    /\ egen \in [Engines -> Gens]
    /\ eds \in [Engines -> Datasets]
    /\ copy \in [Engines -> [Kinds -> Regions]]
    /\ facade \in [Engines -> Facades \cup {NoFacade}]
    /\ queries \in [Engines -> SUBSET Facades]
    /\ active \in [Engines -> BOOLEAN]
    /\ mpc \in [Engines -> MainLocations]

TypeOK == /\ SharedTypeOK
          /\ StoreTypeOK
          /\ EngineTypeOK
          /\ listing \in Keys \cup {NoKey}
          /\ faults \in Nat
          /\ missed \subseteq Gens

(* Who is in a critical section owns the mutex of its generation, and who is *)
(* in a wait set is inside wait().                                           *)
Mutex ==
    /\ \A s \in Stores : spc[s] \in {"publish", "notified"} => owner[sgen[s]] = Store(s)
    /\ \A e \in Engines : wpc[e] \in {"init", "check", "swap"} => owner[egen[e]] = Watch(e)
    /\ \A e \in Engines : mpc[e] = "notified" => owner[egen[e]] = Main(e)
    /\ \A e \in Engines : wpc[e] \in {"off", "start", "init"} => mpc[e] = "idle"
    /\ \A e \in Engines, g \in Gens :
           Watch(e) \in waiting[g] => wpc[e] = "waiting" /\ egen[e] = g

(* The file lock lets one datastore run at a time, on the latest block.      *)
(* Later generations are untouched, and engines have mapped earlier ones.    *)
Holding(s) == spc[s] \notin {"idle", "flock"}

Running(s) == spc[s] \notin {"idle", "flock", "open"}

Serial ==
    /\ current \in {0, lastGen}
    /\ \A s \in Stores : Holding(s) => fileLock = Store(s) /\ run[s] = turns
    /\ \A s \in Stores : Running(s) => lastGen # 0 /\ sgen[s] = lastGen
    /\ \A g \in Gens : g > lastGen => /\ used[g] = {}
                                      /\ \A d \in Datasets, k \in Kinds : ~Find(g, d, k)

Opened ==
    \A e \in Engines :
        /\ wpc[e] # "off" => egen[e] <= lastGen
        /\ facade[e] = NoFacade <=> wpc[e] \in {"off", "start", "init"}
        /\ facade[e] = NoFacade => queries[e] = {}

(* A segment knows its key; it is not younger than the last run.             *)
SegmentsNamed ==
    \A key \in Keys : shm[key] # NoSegment => shm[key].key = key /\ shm[key].run <= turns

KeysInUse ==
    /\ lastGen # 0 => \A d \in Datasets, k \in Kinds :
           Find(lastGen, d, k) => region[lastGen][d][k].key \in used[lastGen]
    /\ lastGen = 0 => \A key \in Keys : shm[key] = NoSegment
    /\ lastGen = 1 => \A key \in Keys \ used[1] : shm[key] = NoSegment

(* How far the loops of a datastore over its handles have come *)
Wanted(s, k) == k = "updatable" \/ ~job[s].onlyMetric

Created(s, k) ==
    /\ Wanted(s, k)
    /\ \/ spc[s] \in {"populate", "swap", "publish", "notify", "notified",
                      "remove", "detach", "exit"}
       \/ spc[s] = "setup" /\ skind[s] = "updatable" /\ k = "static"

Swapped(s, k) ==
    /\ Wanted(s, k)
    /\ \/ spc[s] \in {"notify", "notified", "remove", "detach", "exit"}
       \/ spc[s] = "publish" /\ skind[s] = "updatable" /\ k = "static"

Unlinked(s, k) ==
    \/ spc[s] = "exit"
    \/ spc[s] \in {"remove", "detach"} /\ skind[s] = "updatable" /\ k = "static"

LoopOK(s) ==
    Running(s) => /\ job[s].onlyMetric => skind[s] = "updatable"
                  /\ spc[s] \in {"attach", "populate", "swap", "notify", "notified"} =>
                         skind[s] = FirstKind(s)

(* The segments a datastore has created are there, under reserved keys.      *)
NewOK(s) ==
    \A k \in Kinds :
        /\ ~Created(s, k) => newSeg[s][k] = NoSegment
        /\ Created(s, k) =>
               /\ newSeg[s][k] # NoSegment
               /\ newSeg[s][k].run = run[s]
               /\ newSeg[s][k].ds = job[s].ds
               /\ newSeg[s][k].kind = k
               /\ newSeg[s][k].extract = job[s].extract
               /\ newSeg[s][k].key \in used[lastGen]
               /\ shm[newSeg[s][k].key] = newSeg[s][k]

(* What is registered is either what the running datastore has published ... *)
SwappedOK(s) ==
    \A k \in Kinds : Swapped(s, k) => /\ Find(lastGen, job[s].ds, k)
                                      /\ region[lastGen][job[s].ds][k].key = newSeg[s][k].key

(* ... or the work of earlier runs.                                          *)
EarlierOK(s) ==
    (lastGen # 0 /\ Holding(s)) => \A d \in Datasets, k \in Kinds :
        (Find(lastGen, d, k) /\ ~(Swapped(s, k) /\ d = job[s].ds)) =>
            shm[region[lastGen][d][k].key].run < run[s]

(* The segments a datastore has replaced keep their keys until it releases   *)
(* them.                                                                     *)
OldOK(s) ==
    \A k \in Kinds :
        /\ ~Swapped(s, k) => oldSeg[s][k] = NoSegment
        /\ oldSeg[s][k] # NoSegment =>
               /\ oldSeg[s][k].ds = job[s].ds
               /\ oldSeg[s][k].kind = k
               /\ oldSeg[s][k].run < run[s]
               /\ Unlinked(s, k) => oldSeg[s][k].key \notin used[lastGen]
               /\ ~Unlinked(s, k) => oldSeg[s][k].key \in used[lastGen]
               /\ (spc[s] = "detach" /\ skind[s] = k) => shm[oldSeg[s][k].key] = NoSegment
               /\ (~Unlinked(s, k) /\ ~(spc[s] = "detach" /\ skind[s] = k)) =>
                      shm[oldSeg[s][k].key] = oldSeg[s][k]

(* WaitForDetach waits for a segment that there is.                          *)
DetachOK(s) == spc[s] = "detach" => oldSeg[s][skind[s]] # NoSegment

(* The static segment that --only-metric has mapped is the registered one.   *)
ReadOnlyOK(s) ==
    (job[s].onlyMetric /\ spc[s] \in {"setup", "populate", "swap", "publish"}) =>
        /\ Find(lastGen, job[s].ds, "static")
        /\ roSeg[s] = shm[region[lastGen][job[s].ds]["static"].key]
        /\ spc[s] \in {"swap", "publish"} => roSeg[s].extract = job[s].extract

Work(s) == /\ LoopOK(s) /\ NewOK(s) /\ SwappedOK(s) /\ EarlierOK(s) /\ OldOK(s) /\ DetachOK(s)
           /\ ReadOnlyOK(s)

Handles == \A s \in Stores : Work(s)

(* The two halves of a dataset fit, except under the mutex.                  *)
Matched(d) ==
    /\ Find(lastGen, d, "static") <=> Find(lastGen, d, "updatable")
    /\ Find(lastGen, d, "static") =>
           shm[region[lastGen][d]["static"].key].extract
               = shm[region[lastGen][d]["updatable"].key].extract

Halves ==
    lastGen # 0 => \A d \in Datasets : \/ Matched(d)
                                       \/ owner[lastGen] = Abandoned
                                       \/ \E s \in Stores : HalfPublished(s, d)

(* What an engine has copied of the register is older, or is what is there;  *)
(* what it has mapped is not younger than what is registered.                *)
Copies ==
    \A e \in Engines : (Protected(e) /\ facade[e] # NoFacade) =>
        \A k \in Kinds :
            /\ Find(lastGen, eds[e], k)
            /\ copy[e][k].timestamp <= region[lastGen][eds[e]][k].timestamp
            /\ copy[e][k].timestamp = region[lastGen][eds[e]][k].timestamp =>
                   copy[e][k] = region[lastGen][eds[e]][k]
            /\ wpc[e] = "swap" => copy[e][k] = region[lastGen][eds[e]][k]
            /\ facade[e][k].run <= shm[region[lastGen][eds[e]][k].key].run

(* A mapped segment is the one its key leads to, or its key leads nowhere;   *)
(* if a datastore waits to release the key, then it waits for this segment.  *)
MappedSegments ==
    \A e \in Engines : Protected(e) =>
        \A f \in Holds(e), k \in Kinds :
            /\ f[k].key \in used[lastGen]
            /\ shm[f[k].key] \in {f[k], NoSegment}
            /\ \A s \in Stores :
                   (spc[s] = "detach" /\ oldSeg[s][skind[s]].key = f[k].key) =>
                       f[k] = oldSeg[s][skind[s]]

IInv == /\ TypeOK
        /\ Mutex
        /\ Serial
        /\ Opened
        /\ SegmentsNamed
        /\ KeysInUse
        /\ Handles
        /\ Halves
        /\ RegisteredIsMapped
        /\ Copies
        /\ MappedSegments
        /\ FacadesConsistent

(***************************************************************************)
(* Facts about the constants                                               *)
(***************************************************************************)
(* Threads of different processes are different owners of a mutex. *)
LEMMA OwnersDiffer ==
    /\ \A s, t \in Stores : Store(s) = Store(t) => s = t
    /\ \A e, f \in Engines : Watch(e) = Watch(f) => e = f
    /\ \A e, f \in Engines : Main(e) = Main(f) => e = f
    /\ \A s \in Stores, e \in Engines : Store(s) # Watch(e) /\ Store(s) # Main(e)
    /\ \A e, f \in Engines : Watch(e) # Main(f)
    /\ \A s \in Stores : Store(s) # Free /\ Store(s) # Abandoned
    /\ \A e \in Engines : Watch(e) # Free /\ Watch(e) # Abandoned
    /\ \A e \in Engines : Main(e) # Free /\ Main(e) # Abandoned
    /\ Free # Abandoned
BY Zenon DEF Store, Watch, Main, Free, Abandoned

(* Every thread may own a mutex. *)
LEMMA OwnersTyped ==
    /\ \A s \in Stores : Store(s) \in Owners
    /\ \A e \in Engines : Watch(e) \in Owners /\ Main(e) \in Owners /\ Watch(e) \in Watchers
    /\ Free \in Owners /\ Abandoned \in Owners
BY Zenon DEF Owners, Watchers

(* A command line names a dataset and an extraction. *)
LEMMA JobsTyped ==
    /\ AnyJob \in Jobs /\ AnyDataset \in Datasets
    /\ \A j \in Jobs : /\ j.ds \in Datasets /\ j.extract \in Extracts
                       /\ j.onlyMetric \in BOOLEAN /\ j.timed \in BOOLEAN
                       /\ j.readable \in BOOLEAN
<1>1. \A j \in Jobs : /\ j.ds \in Datasets /\ j.extract \in Extracts
                      /\ j.onlyMetric \in BOOLEAN /\ j.timed \in BOOLEAN
                      /\ j.readable \in BOOLEAN
    BY JobsAssumption, Zenon DEF AllJobs
<1>2. AnyJob \in Jobs
    BY JobsAssumption, Zenon DEF AnyJob
<1>3. AnyDataset \in Datasets
    BY <1>1, <1>2, Zenon DEF AnyDataset
<1> QED
    BY <1>1, <1>2, <1>3, Zenon

(* What the assumptions say of keys, generations, regions and segments. *)
LEMMA ConstantsTyped ==
    /\ NumKeys \in Nat \ {0} /\ 0 \in Keys /\ Keys \subseteq Nat
    /\ MaxGens \in Nat \ {0} /\ 1 \in Gens /\ Gens \subseteq Nat
    /\ EmptyRegion \in Regions
    /\ NoRegions \in [Kinds -> Regions]
    /\ NoHandles \in [Kinds -> MaybeSegments]
    /\ NoSegment \in MaybeSegments
    /\ \A x \in MaybeSegments : x # NoSegment => x \in Segments
    /\ \A x \in Segments : x # NoSegment /\ x \in MaybeSegments
    /\ \A x \in Segments : /\ x.key \in Keys /\ x.run \in Nat /\ x.ds \in Datasets
                           /\ x.kind \in Kinds /\ x.extract \in Extracts
<1>1. /\ NumKeys \in Nat \ {0} /\ 0 \in Keys /\ Keys \subseteq Nat
      /\ MaxGens \in Nat \ {0} /\ 1 \in Gens /\ Gens \subseteq Nat
    BY KeysAssumption, GensAssumption DEF Keys, Gens
<1>2. EmptyRegion \in Regions
    BY <1>1, Zenon DEF EmptyRegion, Regions
<1>3. NoRegions \in [Kinds -> Regions] /\ NoHandles \in [Kinds -> MaybeSegments]
    BY <1>2, Zenon DEF NoRegions, NoHandles, MaybeSegments
<1>4. \A x \in Segments : /\ x.key \in Keys /\ x.run \in Nat /\ x.ds \in Datasets
                          /\ x.kind \in Kinds /\ x.extract \in Extracts
    BY Zenon DEF Segments
<1> QED
    BY <1>1, <1>2, <1>3, <1>4, NoSegmentAssumption, Zenon DEF MaybeSegments

(***************************************************************************)
(* Typing                                                                  *)
(***************************************************************************)
LEMMA RegionsTyped ==
    ASSUME TypeOK, NEW g \in Gens, NEW d \in Datasets, NEW k \in Kinds
    PROVE  LET r == region[g][d][k] IN
           r \in Regions /\ r.timestamp \in Nat /\ r.key \in Keys /\ shm[r.key] \in MaybeSegments
<1>1. region[g][d][k] \in Regions
    BY DEF TypeOK, SharedTypeOK
<1>2. region[g][d][k].timestamp \in Nat /\ region[g][d][k].key \in Keys
    BY <1>1, Zenon DEF Regions
<1> QED
    BY <1>1, <1>2, Zenon DEF TypeOK, SharedTypeOK

(* The segment that a datastore publishes is there. *)
LEMMA PublishesSegment ==
    ASSUME IInv, NEW s \in Stores, spc[s] = "publish"
    PROVE  newSeg[s][skind[s]] \in Segments /\ Created(s, skind[s]) /\ Wanted(s, skind[s])
<1>1. skind[s] \in Kinds /\ Wanted(s, skind[s])
    BY JobsTyped, Zenon DEF IInv, TypeOK, StoreTypeOK, Handles, Work, LoopOK, Running, Wanted, Kinds
<1>2. Created(s, skind[s])
    BY <1>1, Zenon DEF Created
<1> QED
    BY <1>1, <1>2, ConstantsTyped DEF IInv, TypeOK, StoreTypeOK, Handles, Work, NewOK

(* What an engine maps is a facade. *)
LEMMA MapTyped ==
    ASSUME TypeOK, NEW c \in [Kinds -> Regions], CanMap(c)
    PROVE  Map(c) \in Facades
<1>1. \A k \in Kinds : shm[c[k].key] \in Segments
    <2> SUFFICES ASSUME NEW k \in Kinds PROVE shm[c[k].key] \in Segments
        BY Zenon
    <2>1. c[k].key \in Keys
        BY Zenon DEF Regions
    <2> QED
        BY <2>1, ConstantsTyped, Zenon DEF CanMap, TypeOK, SharedTypeOK
<1> QED
    BY <1>1, Zenon DEF Map, Facades

(* Every step keeps the variables well typed. *)
LEMMA TypeInvariance == IInv /\ [Next]_vars => TypeOK'
(* The loops over the handles keep the types. *)
<1>NextHandleTyped.
    ASSUME TypeOK, NEW s \in Stores, NEW after \in StoreLocations, NextHandle(s, after)
    PROVE  spc' \in [Stores -> StoreLocations] /\ skind' \in [Stores -> Kinds]
  <2> USE <1>NextHandleTyped
  <2>1. spc \in [Stores -> StoreLocations] /\ skind \in [Stores -> Kinds]
        /\ spc[s] \in StoreLocations
      BY Zenon DEF TypeOK, StoreTypeOK
  <2>2. "static" \in Kinds /\ "updatable" \in Kinds /\ FirstKind(s) \in Kinds
      BY Zenon DEF Kinds, FirstKind
  <2> QED
      BY <2>1, <2>2, Zenon DEF NextHandle, Goto
(* The end of a datastore leaves its variables well typed. *)
<1>LeaveTyped. ASSUME TypeOK, NEW s \in Stores, Leave(s) PROVE StoreTypeOK'
  <2> USE <1>LeaveTyped
  <2> USE DEF TypeOK, StoreTypeOK, Leave, Goto
  <2>1. /\ fileLock' \in {Store(t) : t \in Stores} \cup {Free}
        /\ spc' \in [Stores -> StoreLocations] /\ skind' \in [Stores -> Kinds]
        /\ sgen' \in [Stores -> Gens] /\ job' \in [Stores -> Jobs] /\ run' \in [Stores -> Nat]
      BY JobsTyped, ConstantsTyped, Zenon DEF StoreLocations, Kinds
  <2>2. /\ newSeg' \in [Stores -> [Kinds -> MaybeSegments]]
        /\ oldSeg' \in [Stores -> [Kinds -> MaybeSegments]]
        /\ roSeg' \in [Stores -> MaybeSegments] /\ runs' \in Nat /\ turns' \in Nat
      BY JobsTyped, ConstantsTyped, Zenon
  <2> QED
      BY <2>1, <2>2, Zenon
(* The death of threads leaves the monitors well typed. *)
<1>AbandonTyped.
    ASSUME TypeOK, NEW ps, Abandon(ps)
    PROVE  owner' \in [Gens -> Owners] /\ waiting' \in [Gens -> SUBSET Watchers]
  BY <1>AbandonTyped, OwnersTyped, Zenon DEF TypeOK, SharedTypeOK, Abandon
(* Every step of a datastore keeps the types. *)
<1>StoreStepTyped.
    ASSUME IInv, NEW s \in Stores, StoreNext(s)
    PROVE  SharedTypeOK' /\ StoreTypeOK'
  <2> USE <1>StoreStepTyped
  <2> USE DEF IInv, TypeOK
  <2>0. StoreStep(s, Attached)
      BY Zenon DEF StoreNext, OnlyStore
  <2>1. CASE Start(s)
      BY <2>1 DEF Start, Goto, StoreLocations, SharedTypeOK, StoreTypeOK, shared, handles
  <2>2. CASE AcquireFileLock(s)
      BY <2>2 DEF AcquireFileLock, Goto, StoreLocations, SharedTypeOK, StoreTypeOK, shared, handles
  <2>3. CASE OpenMonitor(s)
      <3>1. current' \in 0 .. MaxGens /\ lastGen' \in 0 .. MaxGens /\ current' \in Gens
          BY ConstantsTyped, OwnersTyped, <2>3 DEF OpenMonitor, OpenOrCreate, block, SharedTypeOK, Gens
      <3> QED
          BY <2>3, <3>1, Zenon DEF OpenMonitor, Goto, StoreLocations, FirstKind, Kinds, SharedTypeOK,
                            StoreTypeOK, monitor, register, command, handles
  <2>4. CASE AttachStatic(s)
      <3>1. shm[region[sgen[s]][job[s].ds]["static"].key] \in MaybeSegments
          <4>1. sgen[s] \in Gens /\ job[s].ds \in Datasets /\ "static" \in Kinds
              BY JobsTyped, Zenon DEF StoreTypeOK, Kinds
          <4> QED
              BY <4>1, RegionsTyped, Zenon
      <3> QED
          BY <2>4, <3>1, Zenon DEF AttachStatic, Goto, StoreLocations, SharedTypeOK, StoreTypeOK, shared,
                            command
  <2>5. CASE SetupRegion(s)
      <3>1. PICK key \in Keys :
                LET seg == [key |-> key, run |-> run[s], ds |-> job[s].ds,
                            kind |-> skind[s], extract |-> job[s].extract]
                IN  /\ ReserveKey(sgen[s], key)
                    /\ shm' = [shm EXCEPT ![key] = seg]
                    /\ newSeg' = [newSeg EXCEPT ![s][skind[s]] = seg]
          BY <2>5, Zenon DEF SetupRegion
      <3> DEFINE seg == [key |-> key, run |-> run[s], ds |-> job[s].ds,
                         kind |-> skind[s], extract |-> job[s].extract]
      <3>2. seg \in Segments
          BY JobsTyped, Zenon DEF StoreTypeOK, Segments
      <3>3. seg \in MaybeSegments
          BY ConstantsTyped, OwnersTyped, <3>2, Zenon
      <3> HIDE DEF seg
      <3>4. /\ shm' \in [Keys -> MaybeSegments]
            /\ newSeg' \in [Stores -> [Kinds -> MaybeSegments]]
          BY <3>1, <3>3, Zenon DEF SharedTypeOK, StoreTypeOK, seg
      <3>5. used' \in [Gens -> SUBSET Keys]
          BY <3>1, Zenon DEF SharedTypeOK, ReserveKey
      <3>6. skind' \in [Stores -> Kinds] /\ spc' \in [Stores -> StoreLocations]
          <4>1. NextHandle(s, "populate") /\ "populate" \in StoreLocations
              BY <2>5, Zenon DEF SetupRegion, StoreLocations
          <4> QED
              BY <4>1, <1>NextHandleTyped, Zenon
      <3>7. UNCHANGED <<current, lastGen, owner, waiting, region, fileLock, sgen, job, run, runs,
                        turns, oldSeg, roSeg>>
          BY <2>5, Zenon DEF SetupRegion, block, monitor, command
      <3> QED
          BY <3>4, <3>5, <3>6, <3>7, Zenon DEF SharedTypeOK, StoreTypeOK
  <2>6. CASE Populate(s)
      BY <2>6, Zenon DEF Populate, Goto, StoreLocations, SharedTypeOK, StoreTypeOK, shared, command, handles
  <2>7. CASE FileError(s) \/ Exit(s)
      BY <2>7, <1>LeaveTyped, Zenon DEF FileError, Exit, SharedTypeOK, shared
  <2>8. CASE SwapLock(s)
      BY ConstantsTyped, OwnersTyped, <2>8, Zenon DEF SwapLock, Lock, Goto, StoreLocations, SharedTypeOK, StoreTypeOK, block, register,
                  command, handles
  <2>9. CASE SwapTimeout(s)
      <3>1. shm' \in [Keys -> MaybeSegments]
          BY ConstantsTyped, OwnersTyped, <2>9, Zenon DEF SwapTimeout, SharedTypeOK
      <3> QED
          BY <2>9, <3>1, <1>LeaveTyped, Zenon DEF SwapTimeout, SharedTypeOK, block, monitor, register
  <2>10. CASE PublishRegion(s)
      <3>1. newSeg[s][skind[s]].key \in Keys /\ skind[s] \in Kinds /\ job[s].ds \in Datasets
            /\ sgen[s] \in Gens
          BY ConstantsTyped, OwnersTyped, <2>10, PublishesSegment, JobsTyped, Zenon DEF PublishRegion, StoreTypeOK
      <3>2. region' \in [Gens -> [Datasets -> [Kinds -> Regions]]]
          <4>1. region[sgen[s]][job[s].ds][skind[s]].timestamp \in Nat
              BY <3>1, RegionsTyped, Zenon
          <4>2. [timestamp |-> region[sgen[s]][job[s].ds][skind[s]].timestamp + 1,
                 key |-> newSeg[s][skind[s]].key] \in Regions
              <5>1. \A n \in Nat, key \in Keys : [timestamp |-> n + 1, key |-> key] \in Regions
                  BY DEF Regions
              <5> QED
                  BY <3>1, <4>1, <5>1, Zenon
          <4> QED
              BY <2>10, <3>1, <4>2, Zenon DEF PublishRegion, SetRegion, SharedTypeOK
      <3>3. oldSeg' \in [Stores -> [Kinds -> MaybeSegments]]
          <4>1. shm[region[sgen[s]][job[s].ds][skind[s]].key] \in MaybeSegments
              BY <3>1, RegionsTyped, Zenon
          <4> QED
              BY ConstantsTyped, OwnersTyped, <2>10, <3>1, <4>1, Zenon DEF PublishRegion, StoreTypeOK
      <3>4. skind' \in [Stores -> Kinds] /\ spc' \in [Stores -> StoreLocations]
          <4>1. NextHandle(s, "notify") /\ "notify" \in StoreLocations
              BY <2>10, Zenon DEF PublishRegion, StoreLocations
          <4> QED
              BY <4>1, <1>NextHandleTyped, Zenon
      <3>5. owner' \in [Gens -> Owners]
          BY ConstantsTyped, OwnersTyped, <2>10, <3>1, Zenon DEF PublishRegion, Unlock, SharedTypeOK
      <3>6. UNCHANGED <<current, lastGen, waiting, used, shm, fileLock, sgen, job, run, runs,
                        turns, newSeg, roSeg>>
          BY <2>10, Zenon DEF PublishRegion, block, command
      <3> QED
          BY <3>2, <3>3, <3>4, <3>5, <3>6, Zenon DEF SharedTypeOK, StoreTypeOK
  <2>11. CASE NotifyEngines(s)
      BY ConstantsTyped, OwnersTyped, <2>11, Zenon DEF NotifyEngines, NotifyAll, Lock, Goto, StoreLocations, SharedTypeOK, StoreTypeOK,
                   block, register, command, handles
  <2>12. CASE NotifyReturns(s)
      BY ConstantsTyped, OwnersTyped, <2>12, Zenon DEF NotifyReturns, Unlock, Goto, StoreLocations, SharedTypeOK, StoreTypeOK,
                   block, register, command, handles
  <2>13. CASE SkipOld(s)
      BY <2>13, ZenonT(30) DEF SkipOld, NextHandle, Goto, FirstKind, Kinds, StoreLocations, SharedTypeOK,
                   StoreTypeOK, shared, command, handles
  <2>14. CASE RemoveOld(s)
      BY ConstantsTyped, OwnersTyped, <2>14, Zenon DEF RemoveOld, Goto, StoreLocations, SharedTypeOK, StoreTypeOK,
                   block, monitor, register, command, handles
  <2>15. CASE WaitForDetach(s, Attached)
      <3>1. skind' \in [Stores -> Kinds] /\ spc' \in [Stores -> StoreLocations]
          BY <2>15, ZenonT(30) DEF WaitForDetach, Goto, FirstKind, Kinds, StoreLocations, StoreTypeOK
      <3>2. used' \in [Gens -> SUBSET Keys]
          BY <2>15, Zenon DEF WaitForDetach, ReleaseKey, SharedTypeOK, StoreTypeOK
      <3> QED
          BY <2>15, <3>1, <3>2, Zenon DEF WaitForDetach, SharedTypeOK, StoreTypeOK, block, monitor, command,
                                   handles
  <2>16. CASE Uncaught(s)
      BY ConstantsTyped, OwnersTyped, <2>16, <1>LeaveTyped, <1>AbandonTyped DEF Uncaught, Die, RemoveBlock, SharedTypeOK, register
  <2> QED
      BY <2>0, <2>1, <2>2, <2>3, <2>4, <2>5, <2>6, <2>7, <2>8, <2>9, <2>10, <2>11, <2>12, <2>13,
         <2>14, <2>15, <2>16, ZenonT(30) DEF StoreStep, StoreProgress
(* The end of an engine leaves its variables well typed. *)
<1>GoneTyped. ASSUME TypeOK, NEW e \in Engines, Gone(e) PROVE EngineTypeOK'
  <2> USE <1>GoneTyped
  <2> USE DEF TypeOK, EngineTypeOK, Gone, WatchGoto, MainGoto
  <2>1. /\ wpc' \in [Engines -> WatchLocations] /\ mpc' \in [Engines -> MainLocations]
        /\ egen' \in [Engines -> Gens] /\ eds' \in [Engines -> Datasets]
      BY JobsTyped, ConstantsTyped, Zenon DEF WatchLocations, MainLocations
  <2>2. /\ copy' \in [Engines -> [Kinds -> Regions]]
        /\ facade' \in [Engines -> Facades \cup {NoFacade}]
        /\ queries' \in [Engines -> SUBSET Facades]
        /\ active' \in [Engines -> BOOLEAN]
      BY JobsTyped, ConstantsTyped, Zenon
  <2> QED
      BY <2>1, <2>2, Zenon
(* Every step of an engine keeps the types. *)
<1>EngineStepTyped.
    ASSUME IInv, NEW e \in Engines, EngineNext(e)
    PROVE  SharedTypeOK' /\ EngineTypeOK'
  <2> USE <1>EngineStepTyped
  <2> USE DEF IInv, TypeOK
  <2>0. EngineStep(e)
      BY Zenon DEF EngineNext, OnlyEngine
  <2>r. region[egen[e]][eds[e]] \in [Kinds -> Regions] /\ copy[e] \in [Kinds -> Regions]
      <3>1. egen[e] \in Gens /\ eds[e] \in Datasets /\ copy[e] \in [Kinds -> Regions]
          BY Zenon DEF EngineTypeOK
      <3>2. region[egen[e]] \in [Datasets -> [Kinds -> Regions]]
          BY <3>1, Zenon DEF SharedTypeOK
      <3> QED
          BY <3>1, <3>2, Zenon
  <2>1. CASE OpenBlock(e)
      <3>1. current \in Gens
          BY <2>1 DEF OpenBlock, SharedTypeOK, Gens
      <3> QED
          BY <2>1, <3>1, Zenon DEF OpenBlock, WatchGoto, WatchLocations, SharedTypeOK, EngineTypeOK, shared, data
  <2>2. CASE InitLock(e) \/ WatchLock(e) \/ WakeUp(e)
      <3>1. /\ UNCHANGED <<current, lastGen, waiting, region, used, shm>>
            /\ UNCHANGED <<egen, eds, copy, facade, queries, active, mpc>>
          BY <2>2, Zenon DEF InitLock, WatchLock, WakeUp, block, register, data
      <3>2. owner' \in [Gens -> Owners]
          BY ConstantsTyped, OwnersTyped, <2>2, Zenon DEF InitLock, WatchLock, WakeUp, Lock, SharedTypeOK
      <3>3. wpc' \in [Engines -> WatchLocations]
          BY <2>2, Zenon DEF InitLock, WatchLock, WakeUp, WatchGoto, WatchLocations, EngineTypeOK
      <3> QED
          BY <3>1, <3>2, <3>3, Zenon DEF SharedTypeOK, EngineTypeOK
  <2>3. CASE Shutdown(e)
      BY <2>3, Zenon DEF Shutdown, MainGoto, MainLocations, SharedTypeOK, EngineTypeOK, shared, data
  <2>4. CASE DestructorNotify(e)
      BY ConstantsTyped, OwnersTyped, <2>4, Zenon DEF DestructorNotify, NotifyAll, Lock, MainGoto, MainLocations, SharedTypeOK,
                  EngineTypeOK, block, register, data
  <2>5. CASE QueryBegins(e)
      <3>1. facade[e] \in Facades
          BY <2>5, Zenon DEF QueryBegins, EngineTypeOK
      <3> QED
          BY <2>5, <3>1, Zenon DEF QueryBegins, SharedTypeOK, EngineTypeOK, shared
  <2>6. CASE \E f \in queries[e] : QueryEnds(e, f)
      BY <2>6 DEF QueryEnds, SharedTypeOK, EngineTypeOK, shared
  <2>7. CASE InitFacade(e)
      <3>1. Map(region[egen[e]][eds[e]]) \in Facades
          BY <2>7, <2>r, MapTyped, Zenon DEF InitFacade
      <3>2. UNCHANGED <<current, lastGen, waiting, region, used, shm, egen, eds, queries, active, mpc>>
          BY <2>7, Zenon DEF InitFacade, block, register
      <3>3. owner' \in [Gens -> Owners] /\ wpc' \in [Engines -> WatchLocations]
          BY ConstantsTyped, OwnersTyped, <2>7, Zenon DEF InitFacade, Unlock, WatchGoto, WatchLocations, SharedTypeOK, EngineTypeOK
      <3>4. /\ copy' \in [Engines -> [Kinds -> Regions]]
            /\ facade' \in [Engines -> Facades \cup {NoFacade}]
          BY <2>7, <2>r, <3>1, Zenon DEF InitFacade, EngineTypeOK
      <3> QED
          BY <3>2, <3>3, <3>4, Zenon DEF SharedTypeOK, EngineTypeOK
  <2>8. CASE InitThrows(e)
      <3>1. owner' \in [Gens -> Owners] /\ waiting' \in [Gens -> SUBSET Watchers]
          BY ConstantsTyped, OwnersTyped, <2>8, <1>AbandonTyped, SMTT(30) DEF InitThrows, Unlock, SharedTypeOK
      <3> QED
          BY <2>8, <3>1, <1>GoneTyped, Zenon DEF InitThrows, SharedTypeOK, block, register
  <2>9. CASE Sleep(e)
      <3>1. UNCHANGED <<current, lastGen, region, used, shm, egen, eds, copy, facade, queries, active, mpc>>
          BY <2>9, Zenon DEF Sleep, block, register, data
      <3>2. owner' \in [Gens -> Owners]
          BY ConstantsTyped, OwnersTyped, <2>9, Zenon DEF Sleep, Wait, Unlock, SharedTypeOK
      <3>3. waiting' \in [Gens -> SUBSET Watchers]
          BY OwnersTyped, <2>9, Zenon DEF Sleep, Wait, SharedTypeOK
      <3>4. wpc' \in [Engines -> WatchLocations]
          BY <2>9, Zenon DEF Sleep, WatchGoto, WatchLocations, EngineTypeOK
      <3> QED
          BY <3>1, <3>2, <3>3, <3>4, Zenon DEF SharedTypeOK, EngineTypeOK
  <2>10. CASE CopyRegions(e)
      <3>1. copy' \in [Engines -> [Kinds -> Regions]]
          BY <2>10, <2>r, Zenon DEF CopyRegions, EngineTypeOK
      <3> QED
          BY <2>10, <3>1, Zenon DEF CopyRegions, WatchGoto, WatchLocations, SharedTypeOK, EngineTypeOK, shared
  <2>11. CASE SwapFacade(e)
      <3>1. Map(copy[e]) \in Facades
          BY <2>11, <2>r, MapTyped, Zenon DEF SwapFacade
      <3>2. UNCHANGED <<current, lastGen, waiting, region, used, shm, egen, eds, copy, queries, active,
                        mpc>>
          BY <2>11, Zenon DEF SwapFacade, block, register
      <3>3. owner' \in [Gens -> Owners] /\ wpc' \in [Engines -> WatchLocations]
          BY ConstantsTyped, OwnersTyped, <2>11, Zenon DEF SwapFacade, Unlock, WatchGoto, WatchLocations, SharedTypeOK, EngineTypeOK
      <3>4. facade' \in [Engines -> Facades \cup {NoFacade}]
          BY <2>11, <3>1, Zenon DEF SwapFacade, EngineTypeOK
      <3> QED
          BY <3>2, <3>3, <3>4, Zenon DEF SharedTypeOK, EngineTypeOK
  <2>12. CASE SwapThrows(e)
      BY <2>12, <1>GoneTyped, <1>AbandonTyped, Zenon DEF SwapThrows, SharedTypeOK, block, register
  <2>13. CASE StopUnlocked(e) \/ StopLocked(e)
      <3>1. /\ UNCHANGED <<current, lastGen, waiting, region, used, shm>>
            /\ UNCHANGED <<egen, eds, copy, facade, queries, active, mpc>>
          BY <2>13, Zenon DEF StopUnlocked, StopLocked, shared, block, register, data
      <3>2. owner' \in [Gens -> Owners]
          BY ConstantsTyped, OwnersTyped, <2>13, Zenon DEF StopUnlocked, StopLocked, Unlock, SharedTypeOK, shared
      <3>3. wpc' \in [Engines -> WatchLocations]
          BY <2>13, Zenon DEF StopUnlocked, StopLocked, WatchGoto, WatchLocations, EngineTypeOK
      <3> QED
          BY <3>1, <3>2, <3>3 DEF SharedTypeOK, EngineTypeOK
  <2>14. CASE DestructorNotified(e)
      BY ConstantsTyped, OwnersTyped, <2>14, Zenon DEF DestructorNotified, Unlock, MainGoto, MainLocations, SharedTypeOK, EngineTypeOK,
                   block, register, data
  <2>15. CASE Join(e)
      BY <2>15, <1>GoneTyped, Zenon DEF Join, SharedTypeOK, shared
  <2> QED
      BY <2>0, <2>1, <2>2, <2>3, <2>4, <2>5, <2>6, <2>7, <2>8, <2>9, <2>10, <2>11, <2>12, <2>13,
         <2>14, <2>15, Zenon DEF EngineStep, EngineProgress
(* Every fault keeps the types. *)
<1>FaultTyped.
    ASSUME IInv, Fault
    PROVE  SharedTypeOK' /\ StoreTypeOK' /\ EngineTypeOK' /\ missed' \subseteq Gens
  <2> USE <1>FaultTyped
  <2> USE DEF IInv, TypeOK
  <2>1. CASE \E s \in Stores : StoreDies(s)
      <3>1. PICK s \in Stores : StoreDies(s)
          BY <2>1, Zenon
      <3>2. Die(s) /\ (RemoveBlock \/ UNCHANGED block)
          BY <3>1, Zenon DEF StoreDies, Killed, Signalled
      <3>3. SharedTypeOK' /\ StoreTypeOK'
          BY ConstantsTyped, OwnersTyped, <3>2, <1>LeaveTyped, <1>AbandonTyped DEF Die, RemoveBlock, SharedTypeOK, register, block
      <3> QED
          BY <3>1, <3>3, Zenon DEF StoreDies, StoreTypeOK, EngineTypeOK, engineVars
  <2>2. CASE \E e \in Engines : EngineDies(e)
      BY <2>2, <1>GoneTyped, <1>AbandonTyped, Zenon DEF EngineDies, EngineKilled, SharedTypeOK, StoreTypeOK, block,
                                           register, storeVars
  <2>3. CASE RemoveLocks
      <3>1. SharedTypeOK'
          BY ConstantsTyped, OwnersTyped, <2>3 DEF RemoveLocks, RemoveBlock, SharedTypeOK, monitor, register
      <3>2. StoreTypeOK' /\ EngineTypeOK' /\ missed' \subseteq Gens
          BY <2>3, Zenon DEF RemoveLocks, StoreTypeOK, EngineTypeOK, storeVars, engineVars
      <3> QED
          BY <3>1, <3>2, Zenon
  <2> QED
      BY <2>1, <2>2, <2>3, Zenon DEF Fault
<1>q. ASSUME IInv, [Next]_vars PROVE TypeOK'
  <2> USE <1>q
  <2> USE DEF IInv
  <2>1. ASSUME NEW s \in Stores, StoreNext(s) PROVE TypeOK'
      BY <2>1, <1>StoreStepTyped, Zenon DEF StoreNext, OnlyStore, TypeOK, EngineTypeOK, engineVars, others
  <2>2. ASSUME NEW e \in Engines, EngineNext(e) PROVE TypeOK'
      BY <2>2, <1>EngineStepTyped, Zenon DEF EngineNext, OnlyEngine, TypeOK, StoreTypeOK, storeVars, others
  <2>3. CASE ListReads
      <3>1. PICK n \in RegisteredNames(current) : listing' = region[current][n[1]][n[2]].key
          BY <2>3, Zenon DEF ListReads
      <3>2. current \in Gens /\ n[1] \in Datasets /\ n[2] \in Kinds
          BY <2>3 DEF ListReads, RegisteredNames, TypeOK, SharedTypeOK, Gens
      <3>3. listing' \in Keys
          BY <3>1, <3>2, RegionsTyped, Zenon
      <3> QED
          BY <2>3, <3>3, Zenon DEF ListReads, TypeOK, SharedTypeOK, StoreTypeOK, EngineTypeOK, shared,
                            storeVars, engineVars
  <2>4. CASE ListOpens \/ ListThrows
      <3>1. SharedTypeOK'
          BY ConstantsTyped, <2>4 DEF ListOpens, ListThrows, RemoveBlock, TypeOK, SharedTypeOK, shared, monitor,
                      register
      <3>2. StoreTypeOK' /\ EngineTypeOK'
          BY <2>4, Zenon DEF ListOpens, ListThrows, TypeOK, StoreTypeOK, EngineTypeOK, storeVars, engineVars
      <3> QED
          BY <2>4, <3>1, <3>2, Zenon DEF ListOpens, ListThrows, TypeOK
  <2>5. CASE Fault
      BY <2>5, <1>FaultTyped DEF Fault, TypeOK
  <2>6. CASE UNCHANGED vars
      BY <2>6, Zenon DEF vars, TypeOK, SharedTypeOK, StoreTypeOK, EngineTypeOK
  <2> QED
      BY <2>1, <2>2, <2>3, <2>4, <2>5, <2>6, Zenon DEF Next
<1> QED
    BY <1>q

(***************************************************************************)
(* What a process leaves alone                                             *)
(***************************************************************************)
(* A datastore only changes its own handles and its own place. *)
Untouched(t) ==
    /\ spc'[t] = spc[t] /\ skind'[t] = skind[t] /\ sgen'[t] = sgen[t] /\ job'[t] = job[t]
    /\ run'[t] = run[t] /\ newSeg'[t] = newSeg[t] /\ oldSeg'[t] = oldSeg[t] /\ roSeg'[t] = roSeg[t]

(* A process that ends leaves the other datastores alone, ... *)
LEMMA LeaveElsewhere ==
    ASSUME TypeOK, NEW s \in Stores, Leave(s), NEW t \in Stores, t # s
    PROVE  Untouched(t)
BY Zenon DEF TypeOK, StoreTypeOK, Leave, Goto, Untouched

(* ... as every step of a datastore does. *)
LEMMA StoreElsewhere ==
    ASSUME IInv, NEW s \in Stores, StoreStep(s, Attached), NEW t \in Stores, t # s
    PROVE  Untouched(t)
<1> USE DEF Untouched, Goto, NextHandle, shared, handles, command, block
<1>t. /\ spc \in [Stores -> StoreLocations] /\ skind \in [Stores -> Kinds]
      /\ sgen \in [Stores -> Gens] /\ job \in [Stores -> Jobs] /\ run \in [Stores -> Nat]
      /\ newSeg \in [Stores -> [Kinds -> MaybeSegments]]
      /\ oldSeg \in [Stores -> [Kinds -> MaybeSegments]] /\ roSeg \in [Stores -> MaybeSegments]
    BY Zenon DEF IInv, TypeOK, StoreTypeOK
<1>1. CASE Start(s)
    BY <1>1, <1>t, Zenon DEF Start
<1>2. CASE AcquireFileLock(s)
    BY <1>2, <1>t, Zenon DEF AcquireFileLock
<1>3. CASE OpenMonitor(s)
    BY <1>3, <1>t, Zenon DEF OpenMonitor
<1>4. CASE AttachStatic(s)
    BY <1>4, <1>t, Zenon DEF AttachStatic
<1>5. CASE SetupRegion(s)
    <2>1. newSeg'[t] = newSeg[t]
        BY <1>5, <1>t, Zenon DEF SetupRegion
    <2> QED
        BY <1>5, <1>t, <2>1 DEF SetupRegion
<1>6. CASE Populate(s)
    BY <1>6, <1>t, Zenon DEF Populate
<1>7. CASE FileError(s) \/ Exit(s) \/ SwapTimeout(s) \/ Uncaught(s)
    BY <1>7, LeaveElsewhere, Zenon DEF FileError, Exit, SwapTimeout, Uncaught, Die, IInv
<1>8. CASE SwapLock(s)
    BY <1>8, <1>t, Zenon DEF SwapLock
<1>9. CASE PublishRegion(s)
    BY <1>9, <1>t, Zenon DEF PublishRegion
<1>10. CASE NotifyEngines(s) \/ NotifyReturns(s)
    BY <1>10, <1>t, Zenon DEF NotifyEngines, NotifyReturns
<1>11. CASE SkipOld(s)
    BY <1>11, <1>t, Zenon DEF SkipOld
<1>12. CASE RemoveOld(s)
    BY <1>12, <1>t, Zenon DEF RemoveOld
<1>13. CASE WaitForDetach(s, Attached)
    BY <1>13, <1>t, Zenon DEF WaitForDetach
<1> HIDE DEF Untouched, Goto, NextHandle, shared, handles, command, block
<1> QED
    BY <1>1, <1>2, <1>3, <1>4, <1>5, <1>6, <1>7, <1>8, <1>9, <1>10, <1>11, <1>12, <1>13, ZenonT(30)
    DEF StoreStep, StoreProgress

(* So does an engine, which never changes the register or a segment. *)
Aside(f) ==
    /\ wpc'[f] = wpc[f] /\ egen'[f] = egen[f] /\ eds'[f] = eds[f] /\ copy'[f] = copy[f]
    /\ facade'[f] = facade[f] /\ queries'[f] = queries[f] /\ active'[f] = active[f]
    /\ mpc'[f] = mpc[f]

(* An engine that is gone leaves the other engines alone, ... *)
LEMMA GoneElsewhere ==
    ASSUME TypeOK, NEW e \in Engines, Gone(e), NEW f \in Engines, f # e
    PROVE  Aside(f)
BY Zenon DEF TypeOK, EngineTypeOK, Gone, WatchGoto, MainGoto, Aside

(* ... as every step of an engine does; the register it only reads. *)
LEMMA EngineElsewhere ==
    ASSUME IInv, NEW e \in Engines, EngineStep(e)
    PROVE  /\ \A f \in Engines \ {e} : Aside(f)
           /\ UNCHANGED <<block, register, shm>>
<1> USE DEF Aside, WatchGoto, MainGoto, shared, data, block, register
<1>t. /\ wpc \in [Engines -> WatchLocations] /\ mpc \in [Engines -> MainLocations]
      /\ egen \in [Engines -> Gens] /\ eds \in [Engines -> Datasets]
      /\ copy \in [Engines -> [Kinds -> Regions]]
      /\ facade \in [Engines -> Facades \cup {NoFacade}]
      /\ queries \in [Engines -> SUBSET Facades] /\ active \in [Engines -> BOOLEAN]
    BY Zenon DEF IInv, TypeOK, EngineTypeOK
<1>1. CASE OpenBlock(e)
    BY <1>1, <1>t, Zenon DEF OpenBlock
<1>2. CASE InitLock(e)
    BY <1>2, <1>t, Zenon DEF InitLock
<1>3. CASE WatchLock(e)
    BY <1>3, <1>t, Zenon DEF WatchLock
<1>4. CASE WakeUp(e)
    BY <1>4, <1>t, Zenon DEF WakeUp
<1>5. CASE Shutdown(e)
    BY <1>5, <1>t, Zenon DEF Shutdown
<1>6. CASE DestructorNotify(e)
    BY <1>6, <1>t, Zenon DEF DestructorNotify
<1>7. CASE QueryBegins(e)
    BY <1>7, <1>t, Zenon DEF QueryBegins
<1>8. CASE \E f \in queries[e] : QueryEnds(e, f)
    BY <1>8, <1>t, Zenon DEF QueryEnds
<1>9. CASE InitFacade(e)
    BY <1>9, <1>t, Zenon DEF InitFacade
<1>10. CASE InitThrows(e) \/ SwapThrows(e) \/ Join(e)
    BY <1>10, GoneElsewhere, Zenon DEF InitThrows, SwapThrows, Join, IInv
<1>11. CASE Sleep(e)
    BY <1>11, <1>t, Zenon DEF Sleep
<1>12. CASE CopyRegions(e)
    BY <1>12, <1>t, Zenon DEF CopyRegions
<1>13. CASE SwapFacade(e)
    BY <1>13, <1>t, Zenon DEF SwapFacade
<1>14. CASE StopUnlocked(e)
    BY <1>14, <1>t, Zenon DEF StopUnlocked
<1>15. CASE StopLocked(e)
    BY <1>15, <1>t, Zenon DEF StopLocked
<1>16. CASE DestructorNotified(e)
    BY <1>16, <1>t, Zenon DEF DestructorNotified
<1> QED
    BY <1>1, <1>2, <1>3, <1>4, <1>5, <1>6, <1>7, <1>8, <1>9, <1>10, <1>11, <1>12, <1>13, <1>14,
       <1>15, <1>16, ZenonT(30) DEF EngineStep, EngineProgress

(***************************************************************************)
(* The mutex                                                               *)
(***************************************************************************)
LEMMA PlacesTyped ==
    ASSUME TypeOK
    PROVE  /\ owner \in [Gens -> Owners] /\ waiting \in [Gens -> SUBSET Watchers]
           /\ spc \in [Stores -> StoreLocations] /\ skind \in [Stores -> Kinds]
           /\ sgen \in [Stores -> Gens]
           /\ wpc \in [Engines -> WatchLocations] /\ mpc \in [Engines -> MainLocations]
           /\ egen \in [Engines -> Gens] /\ active \in [Engines -> BOOLEAN]
BY Zenon DEF TypeOK, SharedTypeOK, StoreTypeOK, EngineTypeOK

(* Nobody else gets into a critical section, whoever dies. *)
LEMMA MutexInvariance == IInv /\ [Next]_vars => Mutex'
(* A datastore takes a free mutex, or gives its own up. *)
<1>StoreMutexFrame.
    ASSUME IInv, NEW s \in Stores, UNCHANGED engineVars, \A t \in Stores \ {s} : Untouched(t),
           \A g \in Gens : owner'[g] = owner[g] \/ owner[g] \in {Free, Store(s)},
           spc'[s] \in {"publish", "notified"} => owner'[sgen'[s]] = Store(s),
           \A g \in Gens : waiting'[g] \subseteq waiting[g]
    PROVE  Mutex'
  <2> USE <1>StoreMutexFrame
  <2> USE DEF IInv
  <2>1. \A t \in Stores : spc'[t] \in {"publish", "notified"} => owner'[sgen'[t]] = Store(t)
      <3> SUFFICES ASSUME NEW t \in Stores \ {s}, spc'[t] \in {"publish", "notified"}
                   PROVE  owner'[sgen'[t]] = Store(t)
          BY Zenon
      <3>1. spc[t] \in {"publish", "notified"} /\ sgen'[t] = sgen[t] /\ sgen[t] \in Gens
          BY PlacesTyped, Zenon DEF Untouched
      <3>2. owner[sgen[t]] = Store(t)
          BY <3>1, Zenon DEF Mutex
      <3> QED
          BY <3>1, <3>2, OwnersDiffer, Zenon
  <2>2. \A e \in Engines : /\ wpc[e] \in {"init", "check", "swap"} => owner'[egen[e]] = Watch(e)
                           /\ mpc[e] = "notified" => owner'[egen[e]] = Main(e)
      <3> SUFFICES ASSUME NEW e \in Engines
                   PROVE  /\ wpc[e] \in {"init", "check", "swap"} => owner'[egen[e]] = Watch(e)
                          /\ mpc[e] = "notified" => owner'[egen[e]] = Main(e)
          BY Zenon
      <3>1. owner'[egen[e]] = owner[egen[e]] \/ owner[egen[e]] \in {Free, Store(s)}
          BY PlacesTyped, OwnersDiffer, Zenon
      <3> QED
          BY PlacesTyped, OwnersDiffer, <3>1 DEF Mutex
  <2>3. \A e \in Engines, g \in Gens :
            Watch(e) \in waiting'[g] => wpc[e] = "waiting" /\ egen[e] = g
      BY ZenonT(30) DEF Mutex
  <2> QED
      BY <2>1, <2>2, <2>3, Zenon DEF Mutex, engineVars
(* The death of a datastore *)
<1>DieMutex.
    ASSUME IInv, NEW s \in Stores, Die(s), UNCHANGED engineVars
    PROVE  Mutex'
  <2> USE <1>DieMutex
  <2>1. \A t \in Stores \ {s} : Untouched(t)
      BY LeaveElsewhere, Zenon DEF Die, IInv
  <2>2. spc'[s] = "idle"
      BY PlacesTyped, Zenon DEF Die, Leave, Goto, IInv
  <2>3. \A g \in Gens : owner[g] # Store(s) => owner'[g] = owner[g]
      BY Zenon DEF Die, Abandon
  <2>4. \A g \in Gens : waiting'[g] \subseteq waiting[g]
      BY Zenon DEF Die, Abandon
  <2> QED
      BY <2>1, <2>2, <2>3, <2>4, <1>StoreMutexFrame, Zenon DEF engineVars
(* The critical sections of a datastore: PublishRegion and notify_all. *)
<1>StoreMutex. ASSUME IInv, NEW s \in Stores, StoreNext(s) PROVE Mutex'
  <2> USE <1>StoreMutex
  <2> USE DEF IInv, Goto
  <2>0. StoreStep(s, Attached) /\ UNCHANGED engineVars
      BY Zenon DEF StoreNext, OnlyStore
  <2>1. \A t \in Stores \ {s} : Untouched(t)
      BY <2>0, StoreElsewhere, Zenon
  <2>2. CASE /\ UNCHANGED monitor
             /\ spc'[s] \notin {"publish", "notified"}
      BY <2>0, <2>1, <2>2, <1>StoreMutexFrame, Zenon DEF monitor
  <2>3. CASE Start(s) \/ AcquireFileLock(s) \/ Populate(s) \/ SkipOld(s)
      BY PlacesTyped, <2>2, <2>3, Zenon DEF Start, AcquireFileLock, Populate, SkipOld, NextHandle, shared, monitor
  <2>4. CASE OpenMonitor(s) \/ AttachStatic(s) \/ SetupRegion(s)
      BY PlacesTyped, <2>2, <2>4, Zenon DEF OpenMonitor, AttachStatic, SetupRegion, NextHandle, shared, monitor
  <2>5. CASE FileError(s) \/ Exit(s) \/ SwapTimeout(s)
      BY PlacesTyped, <2>2, <2>5, Zenon DEF FileError, Exit, SwapTimeout, Leave, shared, monitor
  <2>6. CASE RemoveOld(s) \/ WaitForDetach(s, Attached)
      BY PlacesTyped, <2>2, <2>6, Zenon DEF RemoveOld, WaitForDetach, monitor
  <2>7. CASE SwapLock(s)
      BY PlacesTyped, <2>0, <2>1, <2>7, <1>StoreMutexFrame, Zenon DEF SwapLock, Lock
  <2>8. CASE PublishRegion(s)
      <3>1. owner[sgen[s]] = Store(s) /\ sgen' = sgen /\ waiting' = waiting
          BY <2>8, Zenon DEF PublishRegion, Mutex
      <3>2. CASE skind[s] = "static"
          <4>1. owner' = owner
              BY <2>8, <3>2, Zenon DEF PublishRegion
          <4> QED
              BY <2>0, <2>1, <3>1, <4>1, <1>StoreMutexFrame, Zenon
      <3>3. CASE skind[s] = "updatable"
          <4>1. owner' = [owner EXCEPT ![sgen[s]] = Free] /\ spc'[s] = "notify"
              BY PlacesTyped, <2>8, <3>3, Zenon DEF PublishRegion, NextHandle, Unlock
          <4> QED
              BY PlacesTyped, <2>0, <2>1, <3>1, <4>1, <1>StoreMutexFrame, Zenon
      <3> QED
          BY PlacesTyped, <3>2, <3>3, Zenon DEF Kinds
  <2>9. CASE NotifyEngines(s)
      BY PlacesTyped, <2>0, <2>1, <2>9, <1>StoreMutexFrame, ZenonT(30) DEF NotifyEngines, NotifyAll, Lock
  <2>10. CASE NotifyReturns(s)
      BY PlacesTyped, <2>0, <2>1, <2>10, <1>StoreMutexFrame, SMTT(30) DEF NotifyReturns, Unlock, Mutex
  <2>11. CASE Uncaught(s)
      BY <2>0, <2>11, <1>DieMutex, Zenon DEF Uncaught
  <2> QED
      BY <2>0, <2>3, <2>4, <2>5, <2>6, <2>7, <2>8, <2>9, <2>10, <2>11, Zenon DEF StoreStep, StoreProgress
(* So does an engine. *)
<1>EngineMutexFrame.
    ASSUME IInv, NEW e \in Engines, UNCHANGED storeVars, \A f \in Engines \ {e} : Aside(f),
           \A g \in Gens : owner'[g] = owner[g] \/ owner[g] \in {Free, Watch(e), Main(e)},
           wpc'[e] \in {"init", "check", "swap"} => owner'[egen'[e]] = Watch(e),
           mpc'[e] = "notified" => owner'[egen'[e]] = Main(e),
           wpc'[e] \in {"off", "start", "init"} => mpc'[e] = "idle",
           \A g \in Gens : waiting'[g] \subseteq waiting[g] \cup {Watch(e)},
           \A g \in Gens : Watch(e) \in waiting'[g] => wpc'[e] = "waiting" /\ egen'[e] = g
    PROVE  Mutex'
  <2> USE <1>EngineMutexFrame
  <2> USE DEF IInv
  <2>1. \A t \in Stores : spc[t] \in {"publish", "notified"} => owner'[sgen[t]] = Store(t)
      <3> SUFFICES ASSUME NEW t \in Stores, spc[t] \in {"publish", "notified"}
                   PROVE  owner'[sgen[t]] = Store(t)
          BY Zenon
      <3>1. owner[sgen[t]] = Store(t) /\ sgen[t] \in Gens
          BY PlacesTyped, Zenon DEF Mutex
      <3> QED
          BY <3>1, OwnersDiffer, Zenon
  <2>2. \A f \in Engines : wpc'[f] \in {"init", "check", "swap"} => owner'[egen'[f]] = Watch(f)
      <3> SUFFICES ASSUME NEW f \in Engines \ {e} PROVE wpc'[f] \in {"init", "check", "swap"} => owner'[egen'[f]] = Watch(f)
          BY Zenon
      <3>1. owner'[egen[f]] = owner[egen[f]] \/ owner[egen[f]] \in {Free, Watch(e), Main(e)}
          BY PlacesTyped, OwnersDiffer, ZenonT(30)
      <3>2. Aside(f)
          BY Zenon
      <3> QED
          BY PlacesTyped, OwnersDiffer, <3>1, <3>2 DEF Mutex, Aside
  <2>3. \A f \in Engines : mpc'[f] = "notified" => owner'[egen'[f]] = Main(f)
      <3> SUFFICES ASSUME NEW f \in Engines \ {e} PROVE mpc'[f] = "notified" => owner'[egen'[f]] = Main(f)
          BY ZenonT(30)
      <3>1. owner'[egen[f]] = owner[egen[f]] \/ owner[egen[f]] \in {Free, Watch(e), Main(e)}
          BY PlacesTyped, Zenon
      <3>2. Aside(f)
          BY Zenon
      <3> QED
          BY PlacesTyped, OwnersDiffer, <3>1, <3>2 DEF Mutex, Aside
  <2>4. \A f \in Engines : wpc'[f] \in {"off", "start", "init"} => mpc'[f] = "idle"
      BY Zenon DEF Mutex, Aside
  <2>5. \A f \in Engines, g \in Gens :
            Watch(f) \in waiting'[g] => wpc'[f] = "waiting" /\ egen'[f] = g
      <3> SUFFICES ASSUME NEW f \in Engines \ {e}, NEW g \in Gens, Watch(f) \in waiting'[g]
                   PROVE  wpc'[f] = "waiting" /\ egen'[f] = g
          BY ZenonT(30)
      <3>1. Watch(f) \in waiting[g]
          BY PlacesTyped, OwnersDiffer
      <3> QED
          BY <3>1 DEF Mutex, Aside
  <2> QED
      BY <2>1, <2>2, <2>3, <2>4, <2>5, ZenonT(30) DEF Mutex, storeVars
(* The death of an engine *)
<1>GoneMutex.
    ASSUME IInv, NEW e \in Engines, Gone(e), UNCHANGED storeVars,
           \A g \in Gens : owner[g] \notin {Watch(e), Main(e)} => owner'[g] = owner[g],
           \A g \in Gens : waiting'[g] \subseteq waiting[g],
           \A g \in Gens : Watch(e) \notin waiting'[g]
    PROVE  Mutex'
  <2> USE <1>GoneMutex
  <2>1. \A f \in Engines \ {e} : Aside(f)
      BY GoneElsewhere, Zenon DEF IInv
  <2>2. wpc'[e] = "off" /\ mpc'[e] = "idle"
      BY PlacesTyped, Zenon DEF Gone, WatchGoto, MainGoto, IInv
  <2> QED
      BY <2>1, <2>2, <1>EngineMutexFrame, Zenon
(* The critical sections of an engine: its constructor, Run, notify_all. *)
<1>EngineMutex. ASSUME IInv, NEW e \in Engines, EngineNext(e) PROVE Mutex'
  <2> USE <1>EngineMutex
  <2> USE DEF IInv, WatchGoto, MainGoto
  <2>0. EngineStep(e) /\ UNCHANGED storeVars
      BY Zenon DEF EngineNext, OnlyEngine
  <2>1. \A f \in Engines \ {e} : Aside(f)
      BY <2>0, EngineElsewhere, Zenon
  <2>m. /\ wpc[e] \in {"init", "check", "swap"} => owner[egen[e]] = Watch(e)
        /\ mpc[e] = "notified" => owner[egen[e]] = Main(e)
        /\ wpc[e] \in {"off", "start", "init"} => mpc[e] = "idle"
        /\ \A g \in Gens : Watch(e) \in waiting[g] => wpc[e] = "waiting" /\ egen[e] = g
        /\ Watch(e) # Main(e)
      BY OwnersDiffer, ZenonT(30) DEF Mutex
  <2> USE DEF shared
  <2>2. CASE OpenBlock(e)
      BY <2>0, <2>1, <2>m, <1>EngineMutexFrame, <2>2, SMTT(30) DEF OpenBlock
  <2>3. CASE InitLock(e)
      BY <2>0, <2>1, <2>m, <1>EngineMutexFrame, PlacesTyped, <2>3, OwnersDiffer, Zenon DEF InitLock, Lock
  <2>4. CASE WatchLock(e)
      BY <2>0, <2>1, <2>m, <1>EngineMutexFrame, PlacesTyped, <2>4, OwnersDiffer, Zenon DEF WatchLock, Lock
  <2>5. CASE WakeUp(e)
      BY <2>0, <2>1, <2>m, <1>EngineMutexFrame, PlacesTyped, <2>5, OwnersDiffer, ZenonT(30) DEF WakeUp, Lock
  <2>6. CASE Shutdown(e)
      BY <2>0, <2>1, <2>m, <1>EngineMutexFrame, <2>6, SMTT(30) DEF Shutdown
  <2>7. CASE DestructorNotify(e)
      BY <2>0, <2>1, <2>m, <1>EngineMutexFrame, PlacesTyped, <2>7, OwnersDiffer, Zenon DEF DestructorNotify, NotifyAll, Lock
  <2>8. CASE QueryBegins(e) \/ \E f \in queries[e] : QueryEnds(e, f)
      BY <2>0, <2>1, <2>m, <1>EngineMutexFrame, <2>8, Zenon DEF QueryBegins, QueryEnds
  <2>9. CASE InitFacade(e)
      BY <2>0, <2>1, <2>m, <1>EngineMutexFrame, PlacesTyped, <2>9, Zenon DEF InitFacade, Unlock
  <2>10. CASE InitThrows(e)
      <3>2. CASE Unlock(egen[e]) /\ UNCHANGED waiting
          BY <2>0, <2>1, <2>m, <1>EngineMutexFrame, PlacesTyped, <2>10, <3>2, <1>GoneMutex, Zenon DEF InitThrows, Unlock
      <3>3. CASE Abandon({Watch(e)})
          BY <2>0, <2>1, <2>m, <1>EngineMutexFrame, <2>10, <3>3, <1>GoneMutex, Zenon DEF InitThrows, Abandon
      <3> QED
          BY <2>10, <3>2, <3>3, Zenon DEF InitThrows
  <2>11. CASE Sleep(e)
      BY <2>0, <2>1, <2>m, <1>EngineMutexFrame, PlacesTyped, <2>11, Zenon DEF Sleep, Wait, Unlock
  <2>12. CASE CopyRegions(e)
      BY <2>0, <2>1, <2>m, <1>EngineMutexFrame, PlacesTyped, <2>12, Zenon DEF CopyRegions
  <2>13. CASE SwapFacade(e)
      BY <2>0, <2>1, <2>m, <1>EngineMutexFrame, PlacesTyped, <2>13, Zenon DEF SwapFacade, Unlock
  <2>14. CASE SwapThrows(e)
      BY <2>0, <2>1, <2>m, <1>EngineMutexFrame, <2>14, <1>GoneMutex, Zenon DEF SwapThrows, Abandon
  <2>15. CASE StopUnlocked(e)
      BY <2>0, <2>1, <2>m, <1>EngineMutexFrame, PlacesTyped, <2>15, Zenon DEF StopUnlocked
  <2>16. CASE StopLocked(e)
      BY <2>0, <2>1, <2>m, <1>EngineMutexFrame, PlacesTyped, <2>16, Zenon DEF StopLocked, Unlock
  <2>17. CASE DestructorNotified(e)
      BY <2>0, <2>1, <2>m, <1>EngineMutexFrame, PlacesTyped, <2>17, Zenon DEF DestructorNotified, Unlock
  <2>18. CASE Join(e)
      BY <2>0, <2>1, <2>m, <1>EngineMutexFrame, <2>18, <1>GoneMutex, Zenon DEF Join
  <2> QED
      BY <2>0, <2>1, <2>m, <1>EngineMutexFrame, <2>2, <2>3, <2>4, <2>5, <2>6, <2>7, <2>8, <2>9, <2>10, <2>11, <2>12, <2>13, <2>14,
         <2>15, <2>16, <2>17, <2>18, ZenonT(30) DEF EngineStep, EngineProgress
<1>q. ASSUME IInv, [Next]_vars PROVE Mutex'
  <2> USE <1>q
  <2>1. ASSUME NEW s \in Stores, StoreDies(s) PROVE Mutex'
      BY <2>1, <1>DieMutex, Zenon DEF StoreDies, Killed, Signalled
  <2>2. ASSUME NEW e \in Engines, EngineDies(e) PROVE Mutex'
      BY <2>2, <1>GoneMutex, Zenon DEF EngineDies, EngineKilled, Abandon
  <2>3. CASE UNCHANGED <<monitor, storeVars, engineVars>>
      BY <2>3, Zenon DEF IInv, Mutex, monitor, storeVars, engineVars
  <2> QED
      BY <2>1, <2>2, <2>3, <1>StoreMutex, <1>EngineMutex, Zenon
      DEF Next, Fault, ListReads, ListOpens, ListThrows, RemoveLocks, vars, shared, monitor, storeVars,
          engineVars
<1> QED
    BY <1>q

(* A mutex whose owner has died is lost for good. *)
LEMMA AbandonedStays ==
    ASSUME IInv, [Next]_vars, NEW g \in Gens, owner[g] = Abandoned
    PROVE  owner'[g] = Abandoned
<1> USE DEF IInv
<1>m. /\ \A s \in Stores : spc[s] \in {"publish", "notified"} => sgen[s] # g
      /\ \A e \in Engines : wpc[e] \in {"init", "check", "swap"} => egen[e] # g
      /\ \A e \in Engines : mpc[e] = "notified" => egen[e] # g
    BY PlacesTyped, OwnersDiffer DEF Mutex
<1>1. ASSUME NEW s \in Stores, StoreStep(s, Attached) PROVE owner'[g] = Abandoned
    <2>1. CASE UNCHANGED owner \/ Abandon({Store(s)})
        BY <2>1, Zenon DEF Abandon
    <2>2. CASE SwapLock(s) \/ NotifyEngines(s)
        BY PlacesTyped, OwnersDiffer, <2>2, Zenon DEF SwapLock, NotifyEngines, NotifyAll, Lock
    <2>3. CASE PublishRegion(s)
        BY PlacesTyped, OwnersDiffer, <1>m, <2>3, Zenon DEF PublishRegion, Unlock
    <2>4. CASE NotifyReturns(s)
        BY <1>m, <2>4, SMTT(30) DEF NotifyReturns, Unlock
    <2> QED
        BY <1>1, <2>1, <2>2, <2>3, <2>4, Zenon
        DEF StoreStep, StoreProgress, Start, AcquireFileLock, OpenMonitor, AttachStatic, SetupRegion,
            Populate, FileError, SwapTimeout, SkipOld, RemoveOld, WaitForDetach, Exit, Uncaught, Die,
            shared, monitor
<1>2. ASSUME NEW e \in Engines, EngineStep(e) PROVE owner'[g] = Abandoned
    <2>1. CASE UNCHANGED owner \/ Abandon({Watch(e)}) \/ Abandon({Watch(e), Main(e)})
        BY <2>1, Zenon DEF Abandon
    <2>2. CASE InitLock(e) \/ WatchLock(e) \/ WakeUp(e) \/ DestructorNotify(e)
        BY PlacesTyped, OwnersDiffer, <2>2, Zenon DEF InitLock, WatchLock, WakeUp, DestructorNotify, NotifyAll, Lock
    <2>3. CASE InitFacade(e) \/ SwapFacade(e) \/ Sleep(e) \/ StopLocked(e)
        BY PlacesTyped, OwnersDiffer, <1>m, <2>3, ZenonT(30) DEF InitFacade, SwapFacade, Sleep, StopLocked, Wait, Unlock
    <2>4. CASE DestructorNotified(e)
        BY <1>m, <2>4 DEF DestructorNotified, Unlock
    <2>5. CASE InitThrows(e)
        BY PlacesTyped, OwnersDiffer, <1>m, <2>1, <2>5, Zenon DEF InitThrows, Unlock
    <2> QED
        BY <1>2, <2>1, <2>2, <2>3, <2>4, <2>5, ZenonT(30)
        DEF EngineStep, EngineProgress, OpenBlock, Shutdown, QueryBegins, QueryEnds, CopyRegions,
            SwapThrows, StopUnlocked, Join, shared
<1>3. CASE Fault
    BY <1>3, Zenon DEF Fault, StoreDies, Killed, Signalled, Die, EngineDies, EngineKilled, RemoveLocks,
                Abandon, monitor
<1>4. CASE UNCHANGED owner
    BY <1>4, Zenon
<1> QED
    BY <1>1, <1>2, <1>3, <1>4, ZenonT(30)
    DEF Next, StoreNext, OnlyStore, EngineNext, OnlyEngine, ListReads, ListOpens, ListThrows, shared,
        monitor, vars

(***************************************************************************)
(* Wake-ups                                                                *)
(***************************************************************************)
(* A notify_all() on a generation is coming, or is known not to come. *)
Coming(g) == \/ \E s \in Stores : sgen[s] = g /\ spc[s] \in {"publish", "notify"}
             \/ owner[g] = Abandoned
             \/ g \in missed

(* No watchdog goes to sleep, or stays asleep, on old data for nothing. *)
Awaited(e) == Watch(e) \in waiting[egen[e]] => /\ Stale(e) => Coming(egen[e])
                                               /\ ~active[e] => mpc[e] = "notify"

(* NoLostWakeup is inductive relative to IInv. *)
LEMMA WakeupInvariance == IInv /\ NoLostWakeup /\ [Next]_vars => NoLostWakeup'
(* A datastore that is about to notify does so, or it dies and is missed. *)
<1>ComingStays.
    ASSUME IInv, Next, NEW s \in Stores, StoreNext(s) \/ StoreDies(s), NEW g \in Gens,
           Coming(g), waiting'[g] # {}
    PROVE  Coming(g)'
  <2> USE <1>ComingStays
  <2> USE DEF IInv
  <2>1. CASE owner[g] = Abandoned
      BY <2>1, AbandonedStays, Zenon DEF Coming
  <2>2. CASE g \in missed
      BY <2>2, Zenon DEF Coming, StoreNext, OnlyStore, others, StoreDies
  <2>3. CASE \E t \in Stores \ {s} : sgen[t] = g /\ spc[t] \in {"publish", "notify"}
      <3>1. \A t \in Stores \ {s} : Untouched(t)
          BY StoreElsewhere, LeaveElsewhere, Zenon
          DEF StoreNext, OnlyStore, StoreDies, Killed, Signalled, Die
      <3> QED
          BY <2>3, <3>1, Zenon DEF Coming, Untouched
  <2>4. CASE sgen[s] = g /\ spc[s] = "publish"
      <3>1. owner[g] = Store(s)
          BY <2>4, Zenon DEF Mutex
      <3>2. CASE Die(s)
          BY <3>1, <3>2, Zenon DEF Die, Abandon, Coming
      <3>3. CASE PublishRegion(s)
          BY PlacesTyped, <2>4, <3>3, Zenon DEF PublishRegion, NextHandle, Goto, Coming
      <3> QED
          BY <2>4, <3>2, <3>3, Zenon
          DEF StoreNext, OnlyStore, StoreStep, StoreProgress, Start, AcquireFileLock, OpenMonitor,
              AttachStatic, SetupRegion, Populate, FileError, SwapTimeout, SwapLock, NotifyEngines,
              NotifyReturns, SkipOld, RemoveOld, WaitForDetach, Exit, Uncaught, StoreDies, Killed,
              Signalled
  <2>5. CASE sgen[s] = g /\ spc[s] = "notify"
      <3>1. CASE StoreDies(s)
          BY <2>5, <3>1, Zenon DEF StoreDies, Coming
      <3>2. CASE NotifyEngines(s)
          BY PlacesTyped, <2>5, <3>2, Zenon DEF NotifyEngines, NotifyAll
      <3> QED
          BY <2>5, <3>1, <3>2, Zenon
          DEF StoreNext, OnlyStore, StoreStep, StoreProgress, Start, AcquireFileLock, OpenMonitor,
              AttachStatic, SetupRegion, Populate, FileError, SwapTimeout, SwapLock, PublishRegion,
              NotifyReturns, SkipOld, RemoveOld, WaitForDetach, Exit, Uncaught, Throws
  <2> QED
      BY <2>1, <2>2, <2>3, <2>4, <2>5, Zenon DEF Coming
(* A datastore that changes the register is about to notify. *)
<1>RegisterChange.
    ASSUME IInv, NEW s \in Stores, StoreNext(s) \/ StoreDies(s), NEW g \in Gens
    PROVE  region'[g] = region[g] \/ Coming(g)'
  <2> USE <1>RegisterChange
  <2> USE DEF IInv
  <2>1. CASE UNCHANGED region
      BY <2>1, Zenon
  <2>2. CASE PublishRegion(s)
      <3>1. sgen' = sgen /\ spc'[s] \in {"publish", "notify"}
          BY PlacesTyped, <2>2, Zenon DEF PublishRegion, NextHandle, Goto
      <3>2. g # sgen[s] => region'[g] = region[g]
          BY <2>2, Zenon DEF PublishRegion, SetRegion, TypeOK, SharedTypeOK
      <3> QED
          BY <3>1, <3>2, Zenon DEF Coming
  <2> QED
      BY <2>1, <2>2, Zenon
      DEF StoreNext, OnlyStore, StoreStep, StoreProgress, Start, AcquireFileLock, OpenMonitor,
          AttachStatic, SetupRegion, Populate, FileError, SwapTimeout, SwapLock, NotifyEngines,
          NotifyReturns, SkipOld, RemoveOld, WaitForDetach, Exit, Uncaught, StoreDies, Killed,
          Signalled, Die, shared, register
(* NoLostWakeup, engine by engine. *)
<1>AwaitedAll. NoLostWakeup <=> \A e \in Engines : Awaited(e)
  BY Zenon DEF NoLostWakeup, Awaited, Coming
(* A step that changes nothing for the engine and keeps what is coming. *)
<1>AwaitedFrame.
    ASSUME NEW e \in Engines, NEW g \in Gens, egen[e] = g, egen'[e] = g, Awaited(e),
           Watch(e) \in waiting'[g] => /\ Watch(e) \in waiting[g]
                                       /\ ~active'[e] => mpc'[e] = "notify"
                                       /\ Stale(e)' => Stale(e) \/ Coming(g)'
                                       /\ Coming(g) => Coming(g)'
    PROVE  Awaited(e)'
  <2> USE <1>AwaitedFrame
  <2> SUFFICES ASSUME Watch(e) \in waiting'[g]
               PROVE  (Stale(e)' => Coming(g)') /\ (~active'[e] => mpc'[e] = "notify")
      BY Zenon DEF Awaited, Coming
  <2>1. Stale(e) => Coming(g)
      BY Zenon DEF Awaited, Coming
  <2> QED
      BY <2>1, Zenon
(* A datastore that makes an engine's data stale has its notify_all ahead. *)
<1>StoreAwaited.
    ASSUME IInv, Next, NEW s \in Stores, StoreNext(s) \/ StoreDies(s), NEW e \in Engines, Awaited(e)
    PROVE  Awaited(e)'
  <2> USE <1>StoreAwaited
  <2>1. UNCHANGED <<wpc, egen, eds, copy, facade, queries, active, mpc>>
      BY Zenon DEF StoreNext, OnlyStore, StoreDies, engineVars
  <2>2. PICK g \in Gens : g = egen[e]
      BY PlacesTyped, Zenon DEF IInv
  <2>3. waiting'[g] \subseteq waiting[g]
      <3>1. CASE UNCHANGED waiting \/ Abandon({Store(s)}) \/ NotifyAll(sgen[s], Store(s))
          BY <3>1, PlacesTyped DEF IInv, Abandon, NotifyAll
      <3> QED
          BY <3>1, ZenonT(30)
          DEF StoreNext, OnlyStore, StoreStep, StoreProgress, Start, AcquireFileLock, OpenMonitor,
              AttachStatic, SetupRegion, Populate, FileError, SwapTimeout, SwapLock, PublishRegion,
              NotifyEngines, NotifyReturns, SkipOld, RemoveOld, WaitForDetach, Exit, Uncaught, StoreDies,
              Killed, Signalled, Die, shared, monitor
  <2>4. waiting'[g] # {} => (Coming(g) => Coming(g)')
      BY <1>ComingStays, Zenon
  <2>5. Stale(e)' => Stale(e) \/ Coming(g)'
      <3>1. region'[g] = region[g] => (Stale(e)' => Stale(e))
          BY <2>1, <2>2, Zenon DEF Stale, Changed
      <3>2. region'[g] = region[g] \/ Coming(g)'
          BY <1>RegisterChange, Zenon
      <3> QED
          BY <3>1, <3>2, Zenon
  <2>6. Watch(e) \in waiting[g] => (~active[e] => mpc[e] = "notify")
      BY <2>2, Zenon DEF Awaited
  <2> QED
      BY <2>1, <2>2, <2>3, <2>4, <2>5, <2>6, <1>AwaitedFrame, Zenon
(* An engine sleeps only if its data is fresh; a destructor notifies. *)
<1>EngineAwaited.
    ASSUME IInv, Next, NEW e \in Engines, EngineNext(e) \/ EngineDies(e), NEW f \in Engines,
           Awaited(f)
    PROVE  Awaited(f)'
  <2> USE <1>EngineAwaited
  <2> USE DEF IInv
  <2>1. UNCHANGED <<region, spc, sgen, missed>>
      BY EngineElsewhere, Zenon DEF EngineNext, OnlyEngine, EngineDies, EngineKilled, register, storeVars, others
  <2>2. \A g \in Gens : Coming(g) => Coming(g)'
      BY <2>1, AbandonedStays, Zenon DEF Coming
  <2>g. PICK own \in Gens : own = egen[f]
      BY PlacesTyped, Zenon
  <2>a. Watch(f) \in waiting[own] => (~active[f] => mpc[f] = "notify")
      BY <2>g, Zenon DEF Awaited
  <2>3. CASE f # e
      <3>1. Aside(f)
          BY <2>3, EngineElsewhere, GoneElsewhere, Zenon DEF EngineNext, OnlyEngine, EngineDies, EngineKilled
      <3>2. \A g \in Gens : Watch(f) \in waiting'[g] => Watch(f) \in waiting[g]
          <4>1. CASE UNCHANGED waiting \/ Abandon({Watch(e)}) \/ Abandon({Watch(e), Main(e)})
                     \/ NotifyAll(egen[e], Main(e)) \/ Wait(egen[e], Watch(e))
              BY PlacesTyped, <2>3, <4>1, OwnersDiffer, SMTT(30) DEF Abandon, NotifyAll, Wait
          <4> QED
              BY <4>1, ZenonT(30) DEF EngineNext, OnlyEngine, EngineStep, EngineProgress, EngineDies, EngineKilled,
                          OpenBlock, InitLock, WatchLock, WakeUp, Shutdown, DestructorNotify,
                          QueryBegins, QueryEnds, InitFacade, InitThrows, Sleep, CopyRegions, SwapFacade,
                          SwapThrows, StopUnlocked, StopLocked, DestructorNotified, Join, shared
      <3>3. Stale(f)' <=> Stale(f)
          BY <2>1, <3>1, Zenon DEF Stale, Changed, Aside
      <3> QED
          BY <2>g, <2>a, <2>2, <3>1, <3>2, <3>3, <1>AwaitedFrame, Zenon DEF Aside
  <2>4. CASE f = e
      <3>1. CASE \A g \in Gens : Watch(e) \notin waiting'[g]
          <4>1. egen'[e] \in Gens
              BY TypeInvariance, PlacesTyped, Zenon DEF TypeOK, EngineTypeOK
          <4> QED
              BY <2>4, <3>1, <4>1, Zenon DEF Awaited
      <3>2. CASE UNCHANGED <<waiting, egen, eds, copy, active, mpc>>
          <4>1. Stale(f)' <=> Stale(f)
              BY <2>1, <3>2, Zenon DEF Stale, Changed
          <4> QED
              BY <2>g, <2>a, <2>2, <3>2, <4>1, <1>AwaitedFrame, Zenon
      <3>3. CASE wpc[e] # "waiting" /\ UNCHANGED waiting
          BY <3>1, <3>3, Zenon DEF Mutex
      <3>4. CASE Join(e) \/ InitThrows(e) \/ SwapThrows(e) \/ EngineDies(e)
          <4>1. CASE Join(e) \/ InitThrows(e)
              BY <3>1, <4>1 DEF Join, InitThrows, Mutex, Abandon, shared
          <4>2. CASE SwapThrows(e) \/ EngineDies(e)
              BY <3>1, <4>2, Zenon DEF SwapThrows, EngineDies, EngineKilled, Abandon
          <4> QED
              BY <3>4, <4>1, <4>2, ZenonT(30)
      <3>5. CASE Sleep(e)
          <4>1. Stale(e)' <=> Stale(e)
              BY <2>1, <3>5, Zenon DEF Sleep, Stale, Changed, data
          <4> QED
              BY <2>4, <3>5, <4>1, Zenon DEF Sleep, Awaited
      <3>6. CASE Shutdown(e)
          <4>1. Stale(f)' <=> Stale(f)
              BY <2>1, <3>6, Zenon DEF Shutdown, Stale, Changed, data
          <4> QED
              BY PlacesTyped, <2>4, <2>g, <2>2, <3>6, <4>1, <1>AwaitedFrame, Zenon DEF Shutdown, MainGoto, shared
      <3>7. CASE DestructorNotify(e)
          BY PlacesTyped, <3>1, <3>7, Zenon DEF DestructorNotify, NotifyAll, Mutex
      <3>8. CASE DestructorNotified(e)
          <4>1. Stale(f)' <=> Stale(f)
              BY <2>1, <3>8, Zenon DEF DestructorNotified, Stale, Changed, data
          <4> QED
              BY <2>4, <2>g, <2>a, <2>2, <3>8, <4>1, <1>AwaitedFrame, Zenon DEF DestructorNotified
      <3>9. CASE WakeUp(e)
          BY <3>1, <3>9, Zenon DEF WakeUp, Mutex
      <3>10. CASE QueryBegins(e) \/ \E q \in queries[e] : QueryEnds(e, q)
          BY <3>2, <3>10, Zenon DEF QueryBegins, QueryEnds, shared
      <3> QED
          BY <3>3, <3>4, <3>5, <3>6, <3>7, <3>8, <3>9, <3>10, ZenonT(30)
          DEF EngineNext, OnlyEngine, EngineStep, EngineProgress, OpenBlock, InitLock, WatchLock,
              InitFacade, CopyRegions, SwapFacade, StopUnlocked, StopLocked, shared
  <2> QED
      BY <2>3, <2>4, Zenon
<1>q. ASSUME IInv, NoLostWakeup, [Next]_vars PROVE NoLostWakeup'
  <2> USE <1>q
  <2> SUFFICES ASSUME NEW e \in Engines, Awaited(e) PROVE Awaited(e)'
      BY <1>AwaitedAll, Zenon DEF NoLostWakeup, Awaited, Coming
  <2>1. ASSUME NEW s \in Stores, Next, StoreNext(s) \/ StoreDies(s) PROVE Awaited(e)'
      BY <2>1, <1>StoreAwaited, Zenon
  <2>2. ASSUME NEW f \in Engines, Next, EngineNext(f) \/ EngineDies(f) PROVE Awaited(e)'
      BY <2>2, <1>EngineAwaited, Zenon
  <2>3. CASE UNCHANGED <<owner, waiting, region, storeVars, engineVars, missed>>
      BY <2>3, Zenon DEF Awaited, Stale, Changed, Coming, storeVars, engineVars
  <2> QED
      BY <2>1, <2>2, <2>3, Zenon
      DEF Next, Fault, ListReads, ListOpens, ListThrows, RemoveLocks, vars, shared, monitor, register,
          storeVars, engineVars
<1> QED
    BY <1>q

(***************************************************************************)
(* One datastore at a time                                                 *)
(***************************************************************************)
(* Storage::Run is serialised by the file lock. *)
LEMMA Alone ==
    ASSUME IInv, NEW s \in Stores, Holding(s), NEW t \in Stores, t # s
    PROVE  spc[t] \in {"idle", "flock"}
<1>1. fileLock = Store(s) /\ (Holding(t) => fileLock = Store(t))
    BY Zenon DEF IInv, Serial
<1> QED
    BY <1>1, OwnersDiffer, Zenon DEF Holding

(* The part of a run on the control block *)
Inner(s) == \/ AttachStatic(s) \/ SetupRegion(s) \/ Populate(s) \/ SwapLock(s) \/ PublishRegion(s)
            \/ NotifyEngines(s) \/ NotifyReturns(s) \/ SkipOld(s) \/ RemoveOld(s)
            \/ WaitForDetach(s, Attached)

(* The end of a run, planned or not *)
Ends(s) == \/ FileError(s) \/ Exit(s) \/ SwapTimeout(s) \/ Uncaught(s) \/ Killed(s) \/ Signalled(s)

(* What a datastore's step is: a beginning, a step within, or an end. *)
LEMMA StoreActions ==
    ASSUME NEW s \in Stores, StoreNext(s) \/ StoreDies(s)
    PROVE  /\ Start(s) \/ AcquireFileLock(s) \/ OpenMonitor(s) \/ Inner(s) \/ Ends(s)
           /\ UNCHANGED <<wpc, egen, eds, copy, facade, queries, active, mpc>>
BY Zenon DEF StoreNext, OnlyStore, StoreStep, StoreProgress, StoreDies, Inner, Ends, engineVars

(* The other datastores, for planned and unplanned steps. *)
LEMMA ElsewhereAll ==
    ASSUME IInv, NEW s \in Stores, StoreNext(s) \/ StoreDies(s), NEW t \in Stores, t # s
    PROVE  Untouched(t)
BY StoreElsewhere, LeaveElsewhere, Zenon DEF StoreNext, OnlyStore, StoreDies, Killed, Signalled, Die, IInv

(* A step within keeps the block, the file lock and the command line. *)
LEMMA InnerFrame ==
    ASSUME IInv, NEW s \in Stores, Inner(s)
    PROVE  /\ Running(s) /\ Running(s)'
           /\ UNCHANGED <<current, lastGen, fileLock, sgen, job, run, runs, turns>>
           /\ lastGen \in Gens /\ sgen[s] = lastGen
           /\ \A g \in Gens \ {lastGen} : used'[g] = used[g] /\ region'[g] = region[g]
<1> USE DEF IInv, Goto, Running
<1>1. Running(s)
    BY Zenon DEF Inner, AttachStatic, SetupRegion, Populate, SwapLock, PublishRegion, NotifyEngines,
           NotifyReturns, SkipOld, RemoveOld, WaitForDetach
<1>2. UNCHANGED <<current, lastGen, fileLock, sgen, job, run, runs, turns>>
    BY ZenonT(30) DEF Inner, AttachStatic, SetupRegion, Populate, SwapLock, PublishRegion, NotifyEngines,
           NotifyReturns, SkipOld, RemoveOld, WaitForDetach, shared, block, command
<1>3. lastGen \in Gens /\ sgen[s] = lastGen
    BY PlacesTyped, <1>1 DEF Serial
<1>4. Running(s)'
    <2>1. CASE AttachStatic(s) \/ Populate(s) \/ SwapLock(s)
        BY PlacesTyped, <2>1, Zenon DEF AttachStatic, Populate, SwapLock
    <2>2. CASE NotifyEngines(s) \/ NotifyReturns(s) \/ RemoveOld(s)
        BY PlacesTyped, <2>2, Zenon DEF NotifyEngines, NotifyReturns, RemoveOld
    <2>3. CASE SetupRegion(s) \/ PublishRegion(s) \/ SkipOld(s)
        BY PlacesTyped, <2>3, Zenon DEF SetupRegion, PublishRegion, SkipOld, NextHandle
    <2>4. CASE WaitForDetach(s, Attached)
        BY PlacesTyped, <2>4, Zenon DEF WaitForDetach
    <2> QED
        BY <2>1, <2>2, <2>3, <2>4, Zenon DEF Inner
<1>5. \A g \in Gens \ {lastGen} : used'[g] = used[g]
    <2>1. CASE UNCHANGED used
        BY <2>1, Zenon
    <2>2. CASE SetupRegion(s)
        BY <1>3, <2>2, Zenon DEF SetupRegion, ReserveKey, TypeOK, SharedTypeOK
    <2>3. CASE WaitForDetach(s, Attached)
        BY <1>3, <2>3, Zenon DEF WaitForDetach, ReleaseKey, TypeOK, SharedTypeOK
    <2> QED
        BY <2>1, <2>2, <2>3, Zenon
        DEF Inner, AttachStatic, Populate, SwapLock, PublishRegion, NotifyEngines, NotifyReturns,
            SkipOld, RemoveOld, shared, register
<1>6. \A g \in Gens \ {lastGen} : region'[g] = region[g]
    <2>1. CASE UNCHANGED region
        BY <2>1, SMTT(30)
    <2>2. CASE PublishRegion(s)
        BY <1>3, <2>2, Zenon DEF PublishRegion, SetRegion, TypeOK, SharedTypeOK
    <2> QED
        BY <2>1, <2>2, Zenon
        DEF Inner, AttachStatic, Populate, SwapLock, SetupRegion, WaitForDetach, NotifyEngines,
            NotifyReturns, SkipOld, RemoveOld, shared, register
<1> QED
    BY <1>1, <1>2, <1>3, <1>4, <1>5, <1>6, Zenon

(* However a datastore ends, the register stays as it is. *)
LEMMA EndsFrame ==
    ASSUME IInv, NEW s \in Stores, Ends(s)
    PROVE  /\ Leave(s) /\ spc'[s] = "idle" /\ spc[s] # "idle"
           /\ UNCHANGED <<lastGen, region, used, turns>>
           /\ current' \in {current, 0}
<1>1. Leave(s)
    BY Zenon DEF Ends, FileError, Exit, SwapTimeout, Uncaught, Killed, Signalled, Die
<1>2. spc'[s] = "idle" /\ turns' = turns
    BY <1>1, PlacesTyped, Zenon DEF Leave, Goto, IInv
<1>3. UNCHANGED <<lastGen, region, used>> /\ current' \in {current, 0}
    BY Zenon DEF Ends, FileError, Exit, SwapTimeout, Uncaught, Killed, Signalled, Die, RemoveBlock, shared,
           block, register
<1>4. spc[s] # "idle"
    BY Zenon DEF Ends, FileError, Exit, SwapTimeout, Uncaught, Throws, Killed, Signalled
<1> QED
    BY <1>1, <1>2, <1>3, <1>4, Zenon

(* The file lock serializes the datastores. *)
LEMMA StoreSerial ==
    ASSUME IInv, NEW s \in Stores, StoreNext(s) \/ StoreDies(s)
    PROVE  Serial'
<1> USE DEF IInv
<1>1. \A t \in Stores \ {s} : Untouched(t)
    BY ElsewhereAll, Zenon
<1>2. CASE Start(s)
    <2>1. UNCHANGED <<current, lastGen, fileLock, turns, run, sgen, used, region>>
        BY <1>2, Zenon DEF Start, shared
    <2>2. spc'[s] = "flock"
        BY PlacesTyped, <1>2, Zenon DEF Start, Goto
    <2> QED
        BY <1>1, <2>1, <2>2, Zenon DEF Serial, Holding, Running, Untouched, Find
<1>3. CASE AcquireFileLock(s)
    <2>1. UNCHANGED <<current, lastGen, sgen, used, region>> /\ fileLock = Free
          /\ fileLock' = Store(s)
        BY <1>3, Zenon DEF AcquireFileLock, shared
    <2>2. spc'[s] = "open" /\ run'[s] = turns'
        BY <1>3, Zenon DEF AcquireFileLock, Goto, TypeOK, StoreTypeOK
    <2>3. \A t \in Stores \ {s} : ~Holding(t) /\ ~Running(t)
        BY <2>1, OwnersDiffer, Zenon DEF Serial, Holding, Running
    <2> QED
        BY <1>1, <2>1, <2>2, <2>3, Zenon DEF Serial, Holding, Running, Untouched, Find
<1>4. CASE OpenMonitor(s)
    <2>1. UNCHANGED <<fileLock, turns, run, used, region>> /\ Holding(s)
        BY <1>4, ZenonT(30) DEF OpenMonitor, register, command, Holding
    <2>2. /\ current' = lastGen' /\ lastGen' # 0 /\ sgen'[s] = lastGen'
          /\ lastGen' >= lastGen /\ lastGen' \in Nat /\ lastGen \in Nat
        <3>1. lastGen \in Nat /\ current \in Nat /\ current \in {0, lastGen}
            BY ConstantsTyped DEF TypeOK, SharedTypeOK, Serial
        <3>2. \/ current # 0 /\ UNCHANGED <<current, lastGen>>
              \/ lastGen' = lastGen + 1 /\ current' = lastGen'
            BY <1>4, Zenon DEF OpenMonitor, OpenOrCreate, block
        <3>3. sgen'[s] = current'
            BY PlacesTyped, <1>4, Zenon DEF OpenMonitor, OpenOrCreate
        <3> QED
            BY <3>1, <3>2, <3>3
    <2>3. \A t \in Stores \ {s} : spc'[t] \in {"idle", "flock"}
        BY <1>1, <2>1, Alone, Zenon DEF Untouched
    <2>4. \A g \in Gens : g > lastGen' => g > lastGen
        BY <2>2, ConstantsTyped
    <2> QED
        BY <2>1, <2>2, <2>3, <2>4, Zenon DEF Serial, Holding, Running, Find
<1>5. CASE Inner(s)
    <2>1. \A t \in Stores \ {s} : spc'[t] \in {"idle", "flock"}
        BY <1>1, <1>5, InnerFrame, Alone, Zenon DEF Untouched, Running, Holding
    <2>2. \A g \in Gens : g > lastGen => g # lastGen
        BY ConstantsTyped DEF TypeOK, SharedTypeOK
    <2>3. \A t \in Stores : Holding(t)' => fileLock' = Store(t) /\ run'[t] = turns'
        BY <1>5, <2>1, InnerFrame, Zenon DEF Serial, Holding, Running
    <2>4. \A t \in Stores : Running(t)' => lastGen' # 0 /\ sgen'[t] = lastGen'
        BY <1>5, <2>1, InnerFrame, ZenonT(30) DEF Serial, Running
    <2>5. \A g \in Gens : g > lastGen => /\ used'[g] = {}
                                         /\ \A d \in Datasets, k \in Kinds : ~Find(g, d, k)'
        <3> SUFFICES ASSUME NEW g \in Gens, g > lastGen
                     PROVE  used'[g] = {} /\ \A d \in Datasets, k \in Kinds : ~Find(g, d, k)'
            BY Zenon
        <3>1. used'[g] = used[g] /\ region'[g] = region[g]
            BY <1>5, <2>2, InnerFrame, Zenon
        <3>2. used[g] = {} /\ \A d \in Datasets, k \in Kinds : ~Find(g, d, k)
            BY Zenon DEF Serial
        <3> QED
            BY <3>1, <3>2, Zenon DEF Find
    <2>6. current' \in {0, lastGen'} /\ lastGen' = lastGen
        BY <1>5, InnerFrame, Zenon DEF Serial
    <2> QED
        BY <2>3, <2>4, <2>5, <2>6, Zenon DEF Serial
<1>6. CASE Ends(s)
    <2>1. ~Holding(s)' /\ ~Running(s)'
        BY <1>6, EndsFrame, Zenon DEF Holding, Running
    <2>2. \A t \in Stores \ {s} : Holding(t)' => fileLock' = Store(t) /\ run'[t] = turns'
        <3> SUFFICES ASSUME NEW t \in Stores \ {s}, Holding(t)'
                     PROVE  fileLock' = Store(t) /\ run'[t] = turns'
            BY Zenon
        <3>1. Holding(t) /\ run'[t] = run[t]
            BY <1>1, Zenon DEF Holding, Untouched
        <3>2. fileLock = Store(t) /\ run[t] = turns /\ Store(t) # Store(s)
            BY <3>1, OwnersDiffer, ZenonT(30) DEF Serial
        <3>3. fileLock' = IF fileLock = Store(s) THEN Free ELSE fileLock
            BY <1>6, EndsFrame, Zenon DEF Leave
        <3> QED
            BY <1>6, <3>1, <3>2, <3>3, EndsFrame, Zenon
    <2>3. \A t \in Stores \ {s} : Running(t)' => lastGen' # 0 /\ sgen'[t] = lastGen'
        BY <1>1, <1>6, EndsFrame, Zenon DEF Serial, Running, Untouched
    <2> QED
        <3>1. current' \in {0, lastGen'} /\ UNCHANGED <<lastGen, region, used>>
            BY <1>6, EndsFrame, Zenon DEF Serial
        <3> QED
            BY <2>1, <2>2, <2>3, <3>1, Zenon DEF Serial, Find
<1> QED
    BY <1>2, <1>3, <1>4, <1>5, <1>6, StoreActions, Zenon

(***************************************************************************)
(* Keys and segments                                                       *)
(***************************************************************************)
(* What a registered region leads to *)
LEMMA RegisteredKeys ==
    ASSUME IInv, lastGen # 0, NEW d \in Datasets, NEW k \in Kinds, Find(lastGen, d, k)
    PROVE  LET key == region[lastGen][d][k].key IN
           /\ key \in Keys /\ key \in used[lastGen]
           /\ shm[key] \in Segments /\ shm[key] # NoSegment
           /\ shm[key].key = key /\ shm[key].ds = d /\ shm[key].kind = k
           /\ shm[key].run \in Nat /\ shm[key].run <= turns
<1>1. lastGen \in Gens
    BY ConstantsTyped DEF IInv, TypeOK, SharedTypeOK, Gens
<1>2. region[lastGen][d][k].key \in Keys
    BY <1>1, RegionsTyped, ZenonT(30) DEF IInv
<1>3. /\ shm[region[lastGen][d][k].key] # NoSegment
      /\ shm[region[lastGen][d][k].key].ds = d /\ shm[region[lastGen][d][k].key].kind = k
    <2>1. RegisteredIsMapped
        BY Zenon DEF IInv
    <2> QED
        BY <2>1, Zenon DEF RegisteredIsMapped
<1>4. shm[region[lastGen][d][k].key] \in Segments
    BY <1>2, <1>3, ConstantsTyped, Zenon DEF IInv, TypeOK, SharedTypeOK
<1>5. region[lastGen][d][k].key \in used[lastGen]
    BY Zenon DEF IInv, KeysInUse
<1>6. /\ shm[region[lastGen][d][k].key].key = region[lastGen][d][k].key
      /\ shm[region[lastGen][d][k].key].run <= turns
    BY <1>2, <1>3, Zenon DEF IInv, SegmentsNamed
<1>7. shm[region[lastGen][d][k].key].run \in Nat
    BY <1>4, ConstantsTyped, Zenon
<1> QED
    BY <1>2, <1>3, <1>4, <1>5, <1>6, <1>7, ZenonT(30)

(* What a datastore has created *)
LEMMA NewKeys ==
    ASSUME IInv, NEW s \in Stores, NEW k \in Kinds, Created(s, k)
    PROVE  /\ newSeg[s][k] \in Segments /\ newSeg[s][k] # NoSegment
           /\ newSeg[s][k].key \in Keys /\ newSeg[s][k].key \in used[lastGen]
           /\ shm[newSeg[s][k].key] = newSeg[s][k]
           /\ newSeg[s][k].run = run[s] /\ run[s] \in Nat /\ run[s] = turns
           /\ newSeg[s][k].ds = job[s].ds /\ newSeg[s][k].kind = k
           /\ newSeg[s][k].extract = job[s].extract
<1>1. /\ newSeg[s][k] # NoSegment /\ newSeg[s][k].run = run[s] /\ newSeg[s][k].ds = job[s].ds
      /\ newSeg[s][k].kind = k /\ newSeg[s][k].extract = job[s].extract
      /\ newSeg[s][k].key \in used[lastGen] /\ shm[newSeg[s][k].key] = newSeg[s][k]
    BY Zenon DEF IInv, Handles, Work, NewOK
<1>2. newSeg[s][k] \in MaybeSegments /\ run[s] \in Nat
    BY Zenon DEF IInv, TypeOK, StoreTypeOK
<1>3. newSeg[s][k] \in Segments /\ newSeg[s][k].key \in Keys
    BY <1>1, <1>2, ConstantsTyped, Zenon
<1>4. run[s] = turns
    BY Zenon DEF IInv, Serial, Created, Holding
<1> QED
    BY <1>1, <1>2, <1>3, <1>4, Zenon

(* What a datastore has replaced *)
LEMMA OldKeys ==
    ASSUME IInv, NEW s \in Stores, NEW k \in Kinds, oldSeg[s][k] # NoSegment
    PROVE  /\ oldSeg[s][k] \in Segments /\ oldSeg[s][k].key \in Keys
           /\ oldSeg[s][k].run \in Nat /\ oldSeg[s][k].run < run[s] /\ run[s] \in Nat
           /\ oldSeg[s][k].ds = job[s].ds /\ oldSeg[s][k].kind = k
           /\ Swapped(s, k) /\ Running(s)
<1>1. oldSeg[s][k] \in MaybeSegments /\ run[s] \in Nat
    BY Zenon DEF IInv, TypeOK, StoreTypeOK
<1>2. oldSeg[s][k] \in Segments
    BY <1>1, ConstantsTyped, Zenon
<1>3. oldSeg[s][k].key \in Keys /\ oldSeg[s][k].run \in Nat
    BY <1>2, ConstantsTyped, Zenon
<1>4. /\ oldSeg[s][k].run < run[s] /\ oldSeg[s][k].ds = job[s].ds /\ oldSeg[s][k].kind = k
      /\ Swapped(s, k)
    BY Zenon DEF IInv, Handles, Work, OldOK
<1>5. Running(s)
    BY <1>4, ZenonT(30) DEF Swapped, Running
<1> QED
    BY <1>1, <1>2, <1>3, <1>4, <1>5, Zenon

(* A replaced segment is not registered any more, neither as what it was nor *)
(* as anything else.                                                         *)
LEMMA OldUnregistered ==
    ASSUME IInv, NEW s \in Stores, NEW k \in Kinds, oldSeg[s][k] # NoSegment,
           shm[oldSeg[s][k].key] \in {oldSeg[s][k], NoSegment},
           NEW d \in Datasets, NEW j \in Kinds, Find(lastGen, d, j)
    PROVE  region[lastGen][d][j].key # oldSeg[s][k].key
<1> SUFFICES ASSUME region[lastGen][d][j].key = oldSeg[s][k].key PROVE FALSE
    BY Zenon
<1>1. lastGen # 0
    BY OldKeys, Zenon DEF IInv, Serial
<1>2. /\ shm[region[lastGen][d][j].key] # NoSegment /\ shm[region[lastGen][d][j].key].ds = d
      /\ shm[region[lastGen][d][j].key].kind = j
    BY <1>1, RegisteredKeys, ZenonT(30)
<1>3. shm[region[lastGen][d][j].key] = oldSeg[s][k]
    BY <1>2, Zenon
<1>4. d = job[s].ds /\ j = k /\ Swapped(s, k) /\ oldSeg[s][k].run < run[s]
      /\ oldSeg[s][k].run \in Nat
    <2>1. /\ oldSeg[s][k].ds = job[s].ds /\ oldSeg[s][k].kind = k /\ Swapped(s, k)
          /\ oldSeg[s][k].run < run[s] /\ oldSeg[s][k].run \in Nat
        BY OldKeys, Zenon
    <2> QED
        BY <1>2, <1>3, <2>1, Zenon
<1>5. region[lastGen][d][j].key = newSeg[s][k].key
    BY <1>4, Zenon DEF IInv, Handles, Work, SwappedOK
<1>6. Created(s, k)
    BY <1>4, ZenonT(30) DEF Swapped, Created
<1>7. shm[newSeg[s][k].key].run = run[s] /\ run[s] \in Nat
    <2>1. /\ shm[newSeg[s][k].key] = newSeg[s][k] /\ newSeg[s][k].run = run[s] /\ run[s] \in Nat
        BY <1>6, NewKeys, Zenon
    <2> QED
        BY <2>1, Zenon
<1> QED
    <2>1. oldSeg[s][k].run = run[s]
        BY <1>3, <1>5, <1>7, Zenon
    <2>2. \A m, n : m \in Nat /\ n \in Nat /\ m < n => m # n
        OBVIOUS
    <2> QED
        BY <1>4, <1>7, <2>1, <2>2, Zenon

(* The keys of what a datastore has created and of what it has replaced *)
LEMMA OldNotNew ==
    ASSUME IInv, NEW s \in Stores, NEW k \in Kinds, oldSeg[s][k] # NoSegment,
           shm[oldSeg[s][k].key] \in {oldSeg[s][k], NoSegment},
           NEW j \in Kinds, Created(s, j)
    PROVE  newSeg[s][j].key # oldSeg[s][k].key
<1>1. /\ shm[newSeg[s][j].key] = newSeg[s][j] /\ newSeg[s][j] # NoSegment
      /\ newSeg[s][j].run = run[s]
    BY NewKeys, Zenon
<1>2. oldSeg[s][k].run < run[s] /\ oldSeg[s][k].run \in Nat /\ run[s] \in Nat
    BY OldKeys, ZenonT(30)
<1>3. \A m, n : m \in Nat /\ n \in Nat /\ m < n => m # n
    OBVIOUS
<1> QED
    BY <1>1, <1>2, <1>3, Zenon

(* A datastore that has not got the file lock has no handles. *)
LEMMA NoHandlesYet ==
    ASSUME IInv, NEW s \in Stores, spc[s] \in {"idle", "flock", "open", "attach"}, NEW k \in Kinds
    PROVE  newSeg[s][k] = NoSegment /\ oldSeg[s][k] = NoSegment
<1>1. NewOK(s) /\ OldOK(s)
    BY Zenon DEF IInv, Handles, Work
<1>2. ~Created(s, k) /\ ~Swapped(s, k)
    BY Zenon DEF Created, Swapped
<1> QED
    BY <1>1, <1>2, Zenon DEF NewOK, OldOK

(* A datastore without handles has nothing to account for. *)
LEMMA WorkWithoutHandles ==
    ASSUME NEW s \in Stores, spc'[s] \in {"idle", "flock"},
           \A k \in Kinds : newSeg'[s][k] = NoSegment /\ oldSeg'[s][k] = NoSegment
    PROVE  Work(s)'
BY Zenon DEF Work, LoopOK, NewOK, SwappedOK, EarlierOK, OldOK, DetachOK, ReadOnlyOK, Created, Swapped,
       Running, Holding

(***************************************************************************)
(* Steps that leave the registered segments alone                          *)
(***************************************************************************)
Kept == lastGen # 0 => \A d \in Datasets, k \in Kinds :
            Find(lastGen, d, k) => shm'[region[lastGen][d][k].key] = shm[region[lastGen][d][k].key]

(* Steps that keep the registered segments keep RegisteredIsMapped, ... *)
LEMMA RegisteredFrame ==
    ASSUME IInv, UNCHANGED <<lastGen, region>>, Kept
    PROVE  RegisteredIsMapped'
<1>1. lastGen' = lastGen /\ region' = region
    BY Zenon
<1>2. lastGen # 0 => \A d \in Datasets, k \in Kinds : Find(lastGen, d, k) =>
          /\ shm[region[lastGen][d][k].key] # NoSegment
          /\ shm[region[lastGen][d][k].key].ds = d /\ shm[region[lastGen][d][k].key].kind = k
    <2>1. RegisteredIsMapped
        BY Zenon DEF IInv
    <2> QED
        BY <2>1, Zenon DEF RegisteredIsMapped
<1>3. lastGen # 0 => \A d \in Datasets, k \in Kinds : Find(lastGen, d, k) =>
          /\ shm'[region[lastGen][d][k].key] # NoSegment
          /\ shm'[region[lastGen][d][k].key].ds = d /\ shm'[region[lastGen][d][k].key].kind = k
    <2> SUFFICES ASSUME lastGen # 0, NEW d \in Datasets, NEW k \in Kinds, Find(lastGen, d, k)
                 PROVE  /\ shm'[region[lastGen][d][k].key] # NoSegment
                        /\ shm'[region[lastGen][d][k].key].ds = d
                        /\ shm'[region[lastGen][d][k].key].kind = k
        BY Zenon
    <2>1. PICK x : x = region[lastGen][d][k].key
        BY Zenon
    <2>2. shm'[x] = shm[x]
        BY <2>1, Zenon DEF Kept
    <2>3. shm[x] # NoSegment /\ shm[x].ds = d /\ shm[x].kind = k
        BY <1>2, <2>1, Zenon
    <2>4. shm'[x] # NoSegment /\ shm'[x].ds = d /\ shm'[x].kind = k
        BY <2>2, <2>3, Zenon
    <2> QED
        BY <2>1, <2>4, Zenon
<1> SUFFICES ASSUME lastGen' # 0, NEW d \in Datasets, NEW k \in Kinds, Find(lastGen, d, k)'
             PROVE  LET seg == shm'[region'[lastGen'][d][k].key]
                    IN  seg # NoSegment /\ seg.ds = d /\ seg.kind = k
    BY Zenon DEF RegisteredIsMapped
<1>4. Find(lastGen, d, k) /\ lastGen # 0
    BY <1>1, Zenon DEF Find
<1>5. PICK x : x = region[lastGen][d][k].key
    BY Zenon
<1>6. x = region'[lastGen'][d][k].key
    BY <1>1, <1>5, Zenon
<1>7. shm'[x] # NoSegment /\ shm'[x].ds = d /\ shm'[x].kind = k
    BY <1>3, <1>4, <1>5, Zenon
<1> QED
    BY <1>6, <1>7, Zenon

(***************************************************************************)
(* The handles of the datastore that takes a step                          *)
(***************************************************************************)
LEMMA WorkTyped ==
    ASSUME IInv, NEW s \in Stores
    PROVE  /\ skind[s] \in {"static", "updatable"} /\ job[s] \in Jobs /\ job[s].ds \in Datasets
           /\ job[s].onlyMetric \in BOOLEAN /\ run[s] \in Nat
           /\ LoopOK(s) /\ NewOK(s) /\ SwappedOK(s) /\ EarlierOK(s) /\ OldOK(s) /\ DetachOK(s)
           /\ ReadOnlyOK(s)
BY JobsTyped, Zenon DEF IInv, TypeOK, StoreTypeOK, Kinds, Handles, Work

(* A step that neither creates, publishes nor removes anything *)
LEMMA MoveWork ==
    ASSUME IInv, NEW s \in Stores,
           \/ AttachStatic(s) \/ Populate(s) \/ SwapLock(s) \/ NotifyEngines(s) \/ NotifyReturns(s)
           \/ SkipOld(s)
    PROVE  Work(s)' /\ UNCHANGED <<lastGen, region, used, shm>>
<1>t. spc \in [Stores -> StoreLocations] /\ skind \in [Stores -> Kinds]
    BY PlacesTyped, Zenon DEF IInv
<1> USE DEF Goto
<1>0. Inner(s)
    BY Zenon DEF Inner
<1>1. UNCHANGED <<lastGen, region, used, shm, newSeg, oldSeg, job, run>>
    BY <1>0, InnerFrame, Zenon DEF AttachStatic, Populate, SwapLock, NotifyEngines, NotifyReturns, SkipOld,
                      shared, register, handles
<1>2. Holding(s) /\ Running(s) /\ sgen[s] = lastGen
    BY <1>0, InnerFrame, ZenonT(30) DEF Running, Holding
<1>3. CASE AttachStatic(s)
    <2>1. /\ spc[s] = "attach" /\ spc'[s] = "setup" /\ skind'[s] = skind[s]
          /\ Find(lastGen, job[s].ds, "static")
          /\ roSeg'[s] = shm[region[lastGen][job[s].ds]["static"].key]
        BY <1>2, <1>3, Zenon DEF AttachStatic, IInv, TypeOK, StoreTypeOK
    <2>2. \A k \in Kinds : ~Created(s, k)' /\ ~Swapped(s, k)' /\ ~Created(s, k) /\ ~Swapped(s, k)
        BY <1>t, WorkTyped, <1>1, <1>2, <2>1, Zenon DEF Created, Swapped, Wanted, LoopOK, FirstKind
    <2> QED
        <3>1. LoopOK(s)' /\ NewOK(s)' /\ SwappedOK(s)'
            BY <1>t, WorkTyped, <1>1, <1>2, <2>1, <2>2, Zenon
            DEF LoopOK, NewOK, SwappedOK, Running, FirstKind
        <3>2. EarlierOK(s)'
            BY WorkTyped, <1>1, <1>2, <2>2, Zenon DEF EarlierOK, Find
        <3>3. OldOK(s)' /\ DetachOK(s)'
            BY WorkTyped, <1>1, <2>1, <2>2, Zenon DEF OldOK, DetachOK
        <3>4. ReadOnlyOK(s)'
            BY WorkTyped, <1>1, <2>1, Zenon DEF ReadOnlyOK, Find
        <3> QED
            BY <1>1, <3>1, <3>2, <3>3, <3>4, Zenon DEF Work
<1>4. CASE Populate(s)
    <2>1. spc[s] = "populate" /\ spc'[s] = "swap" /\ skind'[s] = skind[s] /\ roSeg' = roSeg
          /\ ChecksumsMatch(s)
        BY <1>t, WorkTyped, <1>4, Zenon DEF Populate, handles
    <2>2. \A k \in Kinds : /\ Created(s, k)' <=> Created(s, k)
                           /\ ~Swapped(s, k)' /\ ~Swapped(s, k)
        BY <1>1, <2>1, Zenon DEF Created, Swapped, Wanted
    <2> QED
        <3>1. LoopOK(s)' /\ NewOK(s)' /\ SwappedOK(s)'
            BY <1>t, WorkTyped, <1>1, <1>2, <2>1, <2>2, Zenon
            DEF LoopOK, NewOK, SwappedOK, Running, FirstKind
        <3>2. EarlierOK(s)'
            BY WorkTyped, <1>1, <1>2, <2>2, Zenon DEF EarlierOK, Find
        <3>3. OldOK(s)' /\ DetachOK(s)'
            BY WorkTyped, <1>1, <2>1, <2>2, Zenon DEF OldOK, DetachOK
        <3>4. ReadOnlyOK(s)'
            BY WorkTyped, <1>1, <2>1, Zenon DEF ReadOnlyOK, Find, ChecksumsMatch
        <3> QED
            BY <1>1, <3>1, <3>2, <3>3, <3>4, Zenon DEF Work
<1>5. CASE SwapLock(s)
    <2>1. spc[s] = "swap" /\ spc'[s] = "publish" /\ skind'[s] = skind[s] /\ roSeg' = roSeg
        BY <1>t, WorkTyped, <1>5, Zenon DEF SwapLock, handles
    <2>2. \A k \in Kinds : /\ Created(s, k)' <=> Created(s, k)
                           /\ ~Swapped(s, k)' /\ ~Swapped(s, k)
        BY <1>t, WorkTyped, <1>1, <1>2, <2>1, ZenonT(30) DEF Created, Swapped, Wanted, LoopOK, FirstKind
    <2> QED
        <3>1. LoopOK(s)' /\ NewOK(s)' /\ SwappedOK(s)'
            BY <1>t, WorkTyped, <1>1, <1>2, <2>1, <2>2, Zenon
            DEF LoopOK, NewOK, SwappedOK, Running, FirstKind
        <3>2. EarlierOK(s)'
            BY WorkTyped, <1>1, <1>2, <2>2, Zenon DEF EarlierOK, Find
        <3>3. OldOK(s)' /\ DetachOK(s)'
            BY WorkTyped, <1>1, <2>1, <2>2, Zenon DEF OldOK, DetachOK
        <3>4. ReadOnlyOK(s)'
            BY WorkTyped, <1>1, <2>1, Zenon DEF ReadOnlyOK, Find
        <3> QED
            BY <1>1, <3>1, <3>2, <3>3, <3>4, Zenon DEF Work
<1>6. CASE NotifyEngines(s) \/ NotifyReturns(s) \/ SkipOld(s)
    <2>1. /\ spc[s] \in {"notify", "notified", "remove"}
          /\ spc'[s] \in {"notified", "remove", "exit"}
        BY <1>t, WorkTyped, <1>6, Zenon DEF NotifyEngines, NotifyReturns, SkipOld, NextHandle
    <2>2. \A k \in Kinds : /\ Created(s, k)' <=> Created(s, k)
                           /\ Swapped(s, k)' <=> Swapped(s, k)
        BY <1>1, <2>1, Zenon DEF Created, Swapped, Wanted
    <2>3. \A k \in Kinds : (Unlinked(s, k)' <=> Unlinked(s, k)) \/ oldSeg[s][k] = NoSegment
        <3>1. CASE NotifyEngines(s)
            <4>1. spc'[s] = "notified" /\ spc[s] = "notify"
                BY <1>t, <3>1, Zenon DEF NotifyEngines
            <4> QED
                BY <4>1, Zenon DEF Unlinked
        <3>2. CASE NotifyReturns(s)
            <4>1. skind' = skind /\ spc'[s] = "remove" /\ spc[s] = "notified" /\ skind[s] = FirstKind(s)
                BY <1>t, WorkTyped, <1>2, <3>2, Zenon DEF NotifyReturns, LoopOK
            <4>2. skind[s] = "updatable" => ~Swapped(s, "static")
                BY <4>1, Zenon DEF FirstKind, Swapped, Wanted
            <4>3. skind[s] = "updatable" => oldSeg[s]["static"] = NoSegment
                BY <1>t, WorkTyped, <4>2, Zenon DEF OldOK, Kinds
            <4> QED
                BY <4>1, <4>3, Zenon DEF Unlinked
        <3>3. CASE SkipOld(s)
            BY <1>t, WorkTyped, <3>3, Zenon DEF SkipOld, NextHandle, Unlinked, Kinds
        <3> QED
            BY <1>6, <3>1, <3>2, <3>3, ZenonT(30)
    <2>4. LoopOK(s)'
        BY <1>t, WorkTyped, <1>1, <1>2, <1>6, <2>1, ZenonT(30)
        DEF NotifyEngines, NotifyReturns, SkipOld, NextHandle, LoopOK, FirstKind, Running
    <2>5. OldOK(s)'
        <3> SUFFICES ASSUME NEW k \in Kinds, oldSeg[s][k] # NoSegment
                     PROVE  /\ oldSeg[s][k].ds = job[s].ds
                            /\ oldSeg[s][k].kind = k
                            /\ oldSeg[s][k].run < run[s]
                            /\ Unlinked(s, k) => oldSeg[s][k].key \notin used[lastGen]
                            /\ ~Unlinked(s, k) => oldSeg[s][k].key \in used[lastGen]
                            /\ ~Unlinked(s, k) => shm[oldSeg[s][k].key] = oldSeg[s][k]
            BY WorkTyped, <1>1, <2>1, <2>2, <2>3, Zenon DEF OldOK
        <3> QED
            BY WorkTyped, <2>1, Zenon DEF OldOK
    <2> QED
        BY <1>t, WorkTyped, <1>1, <1>2, <2>1, <2>2, <2>4, <2>5, ZenonT(30)
        DEF Work, NewOK, SwappedOK, EarlierOK, DetachOK, ReadOnlyOK, Running, Holding, Find
<1> QED
    BY <1>1, <1>3, <1>4, <1>5, <1>6, Zenon

(* setupRegion takes a key that nobody uses. *)
LEMMA SetupWork ==
    ASSUME IInv, NEW s \in Stores, SetupRegion(s)
    PROVE  /\ Work(s)' /\ Kept
           /\ UNCHANGED <<lastGen, region>>
           /\ \A key \in used[lastGen] : shm'[key] = shm[key] /\ key \in used'[lastGen]
           /\ \A key \in Keys \ used'[lastGen] : shm'[key] = shm[key]
           /\ SegmentsNamed'
<1>t. spc \in [Stores -> StoreLocations] /\ skind \in [Stores -> Kinds]
    BY PlacesTyped, Zenon DEF IInv
<1> USE DEF Goto
<1>0. Inner(s) /\ spc[s] = "setup"
    BY Zenon DEF Inner, SetupRegion
<1>1. UNCHANGED <<lastGen, region, oldSeg, roSeg, job, run, turns>>
    BY <1>0, InnerFrame, Zenon DEF SetupRegion
<1>2. Holding(s) /\ Running(s) /\ sgen[s] = lastGen /\ lastGen \in Gens
    BY <1>0, InnerFrame, Zenon DEF Running, Holding
<1>3. PICK key \in Keys :
          /\ key \notin used[lastGen]
          /\ used' = [used EXCEPT ![lastGen] = @ \cup {key}]
          /\ shm' = [shm EXCEPT ![key] = [key |-> key, run |-> run[s], ds |-> job[s].ds,
                                          kind |-> skind[s], extract |-> job[s].extract]]
          /\ newSeg' = [newSeg EXCEPT ![s][skind[s]] =
                           [key |-> key, run |-> run[s], ds |-> job[s].ds,
                            kind |-> skind[s], extract |-> job[s].extract]]
    BY <1>2, Zenon DEF SetupRegion, ReserveKey, FirstFree
<1>4. PICK seg \in Segments :
          /\ seg.key = key /\ seg.run = run[s] /\ seg.ds = job[s].ds /\ seg.kind = skind[s]
          /\ seg.extract = job[s].extract
          /\ shm' = [shm EXCEPT ![key] = seg]
          /\ newSeg' = [newSeg EXCEPT ![s][skind[s]] = seg]
    <2>1. [key |-> key, run |-> run[s], ds |-> job[s].ds, kind |-> skind[s],
           extract |-> job[s].extract] \in Segments
        BY <1>t, WorkTyped, JobsTyped, ZenonT(30) DEF Segments, Kinds
    <2> QED
        BY <1>3, <2>1, Zenon
<1>5. /\ \A k \in Keys : k # key => shm'[k] = shm[k]
      /\ shm'[key] = seg /\ seg # NoSegment
      /\ used'[lastGen] = used[lastGen] \cup {key}
      /\ newSeg'[s][skind[s]] = seg
      /\ \A k \in Kinds : k # skind[s] => newSeg'[s][k] = newSeg[s][k]
    <2>1. newSeg \in [Stores -> [Kinds -> MaybeSegments]] /\ shm \in [Keys -> MaybeSegments]
          /\ used \in [Gens -> SUBSET Keys] /\ skind[s] \in Kinds
        BY <1>t, Zenon DEF IInv, TypeOK, SharedTypeOK, StoreTypeOK
    <2>2. (\A k \in Keys : k # key => shm'[k] = shm[k]) /\ shm'[key] = seg /\ seg # NoSegment
        BY <1>4, <2>1, ConstantsTyped, Zenon
    <2>3. used'[lastGen] = used[lastGen] \cup {key}
        BY <1>2, <1>3, <2>1, Zenon
    <2>4. /\ newSeg'[s][skind[s]] = seg
          /\ \A k \in Kinds : k # skind[s] => newSeg'[s][k] = newSeg[s][k]
        BY <1>4, <2>1, Zenon
    <2> QED
        BY <2>2, <2>3, <2>4, Zenon
<1>6. used[lastGen] \subseteq Keys
    BY <1>2, Zenon DEF IInv, TypeOK, SharedTypeOK
<1>7. \A k \in used[lastGen] : shm'[k] = shm[k] /\ k \in used'[lastGen]
    BY <1>3, <1>5, <1>6, Zenon
<1>8. Kept
    BY <1>7, RegisteredKeys, ZenonT(30) DEF Kept
<1>9. SegmentsNamed'
    <2>1. run[s] <= turns
        <3>1. run[s] = turns /\ run[s] \in Nat
            BY WorkTyped, <1>2, Zenon DEF IInv, Serial
        <3> QED
            BY <3>1
    <2>2. SegmentsNamed
        BY Zenon DEF IInv
    <2> SUFFICES ASSUME NEW k \in Keys, shm'[k] # NoSegment
                 PROVE  shm'[k].key = k /\ shm'[k].run <= turns
        BY <1>1, Zenon DEF SegmentsNamed
    <2>3. CASE k = key
        BY <1>4, <1>5, <2>1, <2>3, Zenon
    <2>4. CASE k # key
        <3>1. shm'[k] = shm[k]
            BY <1>5, <2>4, Zenon
        <3> QED
            BY <2>2, <3>1, Zenon DEF SegmentsNamed
    <2> QED
        BY <2>3, <2>4, Zenon
<1>10. \/ /\ skind[s] = "static" /\ spc'[s] = "setup" /\ skind'[s] = "updatable"
       \/ /\ skind[s] = "updatable" /\ spc'[s] = "populate" /\ skind'[s] = FirstKind(s)
    BY <1>t, WorkTyped, <1>0, Zenon DEF SetupRegion, NextHandle
<1>11. \A k \in Kinds : Created(s, k)' <=> (Created(s, k) \/ k = skind[s])
    BY <1>t, WorkTyped, <1>0, <1>1, <1>2, <1>10, Zenon DEF Created, Wanted, LoopOK, Kinds
<1>12. \A k \in Kinds : ~Swapped(s, k)' /\ ~Swapped(s, k)
    BY <1>0, <1>10, Zenon DEF Swapped
<1>13. NewOK(s)'
    <2> SUFFICES ASSUME NEW k \in Kinds
                 PROVE  /\ ~Created(s, k)' => newSeg'[s][k] = NoSegment
                        /\ Created(s, k)' =>
                               /\ newSeg'[s][k] # NoSegment
                               /\ newSeg'[s][k].run = run[s]
                               /\ newSeg'[s][k].ds = job[s].ds
                               /\ newSeg'[s][k].kind = k
                               /\ newSeg'[s][k].extract = job[s].extract
                               /\ newSeg'[s][k].key \in used'[lastGen]
                               /\ shm'[newSeg'[s][k].key] = newSeg'[s][k]
        BY <1>1, ZenonT(30) DEF NewOK
    <2>1. CASE k = skind[s]
        BY <1>4, <1>5, <1>11, <2>1, SMTT(30)
    <2>2. CASE k # skind[s]
        <3>1. (Created(s, k)' <=> Created(s, k)) /\ newSeg'[s][k] = newSeg[s][k]
            BY <1>5, <1>11, <2>2, Zenon
        <3>2. CASE ~Created(s, k)
            BY <1>t, WorkTyped, <3>1, <3>2, ZenonT(30) DEF NewOK
        <3>3. CASE Created(s, k)
            BY <1>7, <3>1, <3>3, NewKeys, SMTT(30)
        <3> QED
            BY <3>2, <3>3, Zenon
    <2> QED
        BY <2>1, <2>2, Zenon
<1>14. LoopOK(s)'
    BY <1>1, <1>2, <1>10, Zenon DEF LoopOK, FirstKind, Running
<1>15. EarlierOK(s)'
    <2>1. lastGen # 0 => \A d \in Datasets, k \in Kinds : Find(lastGen, d, k) =>
              shm[region[lastGen][d][k].key].run < run[s]
        BY <1>t, WorkTyped, <1>2, <1>12, Zenon DEF EarlierOK
    <2> QED
        BY <1>1, <1>8, <2>1, Zenon DEF EarlierOK, Kept, Find
<1>16. ReadOnlyOK(s)'
    <2>1. lastGen # 0 /\ "static" \in Kinds
        BY <1>2, ConstantsTyped DEF Kinds, Gens
    <2>2. job[s].onlyMetric =>
              /\ Find(lastGen, job[s].ds, "static")
              /\ roSeg[s] = shm[region[lastGen][job[s].ds]["static"].key]
        BY <1>t, WorkTyped, <1>0, Zenon DEF ReadOnlyOK
    <2> QED
        BY <1>t, WorkTyped, <1>1, <1>8, <1>10, <2>1, <2>2, ZenonT(30) DEF ReadOnlyOK, Kept, Find
<1>17. SwappedOK(s)' /\ OldOK(s)' /\ DetachOK(s)'
    BY <1>t, WorkTyped, <1>1, <1>10, <1>12, Zenon DEF SwappedOK, OldOK, DetachOK
<1> QED
    BY <1>1, <1>5, <1>7, <1>8, <1>9, <1>13, <1>14, <1>15, <1>16, <1>17, Zenon DEF Work

(* One round of the swap *)
LEMMA PublishEffect ==
    ASSUME IInv, NEW s \in Stores, PublishRegion(s)
    PROVE  /\ skind[s] \in Kinds /\ Created(s, skind[s]) /\ Wanted(s, skind[s])
           /\ ~Swapped(s, skind[s])
           /\ lastGen \in Gens /\ lastGen # 0 /\ sgen[s] = lastGen /\ Holding(s) /\ Running(s)
           /\ spc[s] = "publish"
           /\ UNCHANGED <<lastGen, used, shm, job, run, turns, newSeg, roSeg>>
           /\ \/ /\ skind[s] = "static" /\ spc'[s] = "publish" /\ skind'[s] = "updatable"
                 /\ UNCHANGED owner
              \/ /\ skind[s] = "updatable" /\ spc'[s] = "notify" /\ skind'[s] = FirstKind(s)
           /\ oldSeg'[s][skind[s]] = IF Find(lastGen, job[s].ds, skind[s])
                                     THEN shm[region[lastGen][job[s].ds][skind[s]].key]
                                     ELSE NoSegment
           /\ \A k \in Kinds : k # skind[s] => oldSeg'[s][k] = oldSeg[s][k]
           /\ region'[lastGen][job[s].ds][skind[s]].key = newSeg[s][skind[s]].key
           /\ region'[lastGen][job[s].ds][skind[s]].timestamp
                  = region[lastGen][job[s].ds][skind[s]].timestamp + 1
           /\ region'[lastGen][job[s].ds][skind[s]].timestamp # 0
           /\ \A d \in Datasets, k \in Kinds :
                  (d # job[s].ds \/ k # skind[s]) => region'[lastGen][d][k] = region[lastGen][d][k]
<1>t. spc \in [Stores -> StoreLocations] /\ skind \in [Stores -> Kinds]
    BY PlacesTyped DEF IInv
<1> USE DEF Goto
<1>0. Inner(s) /\ spc[s] = "publish"
    BY Zenon DEF Inner, PublishRegion
<1>1. UNCHANGED <<lastGen, used, shm, job, run, turns, newSeg, roSeg>>
    BY <1>0, InnerFrame, ZenonT(30) DEF PublishRegion
<1>2. Holding(s) /\ Running(s) /\ sgen[s] = lastGen /\ lastGen \in Gens /\ lastGen # 0
    BY <1>0, InnerFrame, ConstantsTyped, SMTT(30) DEF Running, Holding, Gens
<1>3. skind[s] \in Kinds /\ Created(s, skind[s]) /\ Wanted(s, skind[s])
    BY <1>t, WorkTyped, <1>0, PublishesSegment, Zenon
<1>4. ~Swapped(s, skind[s])
    BY <1>0, Zenon DEF Swapped
<1>5. \/ /\ skind[s] = "static" /\ spc'[s] = "publish" /\ skind'[s] = "updatable"
         /\ UNCHANGED owner
      \/ /\ skind[s] = "updatable" /\ spc'[s] = "notify" /\ skind'[s] = FirstKind(s)
    BY <1>t, WorkTyped, <1>0, Zenon DEF PublishRegion, NextHandle
<1>6. /\ oldSeg'[s][skind[s]] = IF Find(lastGen, job[s].ds, skind[s])
                                THEN shm[region[lastGen][job[s].ds][skind[s]].key]
                                ELSE NoSegment
      /\ \A k \in Kinds : k # skind[s] => oldSeg'[s][k] = oldSeg[s][k]
    BY <1>2, <1>3, Zenon DEF PublishRegion, IInv, TypeOK, StoreTypeOK
<1>7. PICK new \in Regions :
          /\ new.key = newSeg[s][skind[s]].key
          /\ new.timestamp = region[lastGen][job[s].ds][skind[s]].timestamp + 1
          /\ new.timestamp # 0
          /\ region' = [region EXCEPT ![lastGen][job[s].ds][skind[s]] = new]
    <2>1. region[lastGen][job[s].ds][skind[s]].timestamp \in Nat
        BY <1>t, WorkTyped, <1>2, <1>3, RegionsTyped, Zenon DEF IInv
    <2>2. newSeg[s][skind[s]].key \in Keys
        BY <1>3, NewKeys, Zenon
    <2>3. [timestamp |-> region[lastGen][job[s].ds][skind[s]].timestamp + 1,
           key |-> newSeg[s][skind[s]].key] \in Regions
        <3>1. \A n \in Nat, key \in Keys : [timestamp |-> n + 1, key |-> key] \in Regions
            BY DEF Regions
        <3> QED
            BY <2>1, <2>2, <3>1, Zenon
    <2>4. region' = [region EXCEPT ![lastGen][job[s].ds][skind[s]] =
                        [timestamp |-> region[lastGen][job[s].ds][skind[s]].timestamp + 1,
                         key |-> newSeg[s][skind[s]].key]]
        BY <1>2, ZenonT(30) DEF PublishRegion, SetRegion
    <2>5. region[lastGen][job[s].ds][skind[s]].timestamp + 1 # 0
        BY <2>1
    <2> QED
        BY <2>3, <2>4, <2>5, Zenon
<1>8. region \in [Gens -> [Datasets -> [Kinds -> Regions]]]
    BY ZenonT(30) DEF IInv, TypeOK, SharedTypeOK
<1>9. /\ region'[lastGen][job[s].ds][skind[s]] = new
      /\ \A d \in Datasets, k \in Kinds :
             (d # job[s].ds \/ k # skind[s]) => region'[lastGen][d][k] = region[lastGen][d][k]
    <2>1. job[s].ds \in Datasets
        BY WorkTyped, Zenon
    <2>2. region'[lastGen] = [region[lastGen] EXCEPT ![job[s].ds][skind[s]] = new]
          /\ region[lastGen] \in [Datasets -> [Kinds -> Regions]]
        BY <1>2, <1>7, <1>8, Zenon
    <2>3. /\ region'[lastGen][job[s].ds] = [region[lastGen][job[s].ds] EXCEPT ![skind[s]] = new]
          /\ region[lastGen][job[s].ds] \in [Kinds -> Regions]
          /\ \A d \in Datasets : d # job[s].ds => region'[lastGen][d] = region[lastGen][d]
        BY <2>1, <2>2, Zenon
    <2>4. /\ region'[lastGen][job[s].ds][skind[s]] = new
          /\ \A k \in Kinds : k # skind[s] =>
                 region'[lastGen][job[s].ds][k] = region[lastGen][job[s].ds][k]
        BY <1>3, <2>3, Zenon
    <2> QED
        BY <2>3, <2>4, Zenon
<1> QED
    BY <1>0, <1>1, <1>2, <1>3, <1>4, <1>5, <1>6, <1>7, <1>9, ZenonT(30)

(* Swapping a region: what was registered becomes the old handle. *)
LEMMA PublishWork ==
    ASSUME IInv, NEW s \in Stores, PublishRegion(s)
    PROVE  Work(s)'
<1>a. UNCHANGED <<lastGen, used, shm, job, run, newSeg, roSeg>>
    BY PublishEffect, Zenon
<1>b. PICK kind \in Kinds : kind = skind[s]
    BY PublishEffect, Zenon
<1>c. \/ kind = "static" /\ spc'[s] = "publish" /\ skind'[s] = "updatable"
      \/ kind = "updatable" /\ spc'[s] = "notify" /\ skind'[s] = FirstKind(s)
    BY <1>b, PublishEffect, Zenon
<1>d. spc[s] = "publish" /\ Holding(s) /\ Running(s) /\ lastGen # 0 /\ Wanted(s, kind)
      /\ ~Swapped(s, kind)
    BY <1>b, PublishEffect, Zenon
<1>e. /\ region'[lastGen][job[s].ds][kind].timestamp # 0
      /\ region'[lastGen][job[s].ds][kind].key = newSeg[s][kind].key
    BY <1>b, PublishEffect, ZenonT(30)
<1>f. \A d \in Datasets, k \in Kinds :
          (d # job[s].ds \/ k # kind) => region'[lastGen][d][k] = region[lastGen][d][k]
    <2>1. \A d \in Datasets, k \in Kinds :
              (d # job[s].ds \/ k # skind[s]) => region'[lastGen][d][k] = region[lastGen][d][k]
        BY PublishEffect, Zenon
    <2> QED
        BY <1>b, <2>1, Zenon
<1>g. /\ oldSeg'[s][kind] = IF Find(lastGen, job[s].ds, kind)
                            THEN shm[region[lastGen][job[s].ds][kind].key] ELSE NoSegment
      /\ \A k \in Kinds : k # kind => oldSeg'[s][k] = oldSeg[s][k]
    BY <1>b, PublishEffect, Zenon
<1>w. /\ LoopOK(s) /\ NewOK(s) /\ SwappedOK(s) /\ EarlierOK(s) /\ OldOK(s)
      /\ job[s].ds \in Datasets
    BY WorkTyped, Zenon
<1>1. \A k \in Kinds : /\ Created(s, k)' <=> Created(s, k)
                       /\ Swapped(s, k)' <=> Swapped(s, k) \/ k = kind
                       /\ ~Unlinked(s, k)' /\ ~Unlinked(s, k)
    <2> USE <1>a, <1>b, <1>c, <1>d
    <2>1. \A k \in Kinds : Created(s, k)' <=> Created(s, k)
        BY Zenon DEF Created, Wanted
    <2>2. \A k \in Kinds : Swapped(s, k)' <=> Swapped(s, k) \/ k = kind
        BY Zenon DEF Swapped, Wanted, Kinds
    <2>3. \A k \in Kinds : ~Unlinked(s, k)' /\ ~Unlinked(s, k)
        BY Zenon DEF Unlinked
    <2> QED
        BY <2>1, <2>2, <2>3, ZenonT(30)
<1>2. LoopOK(s)'
    BY <1>a, <1>b, <1>c, <1>d, <1>w, Zenon DEF LoopOK, FirstKind, Running
<1>3. NewOK(s)'
    BY <1>a, <1>w, <1>1, Zenon DEF NewOK
<1>4. SwappedOK(s)'
    <2> SUFFICES ASSUME NEW k \in Kinds, Swapped(s, k) \/ k = kind
                 PROVE  /\ region'[lastGen][job[s].ds][k].timestamp # 0
                        /\ region'[lastGen][job[s].ds][k].key = newSeg[s][k].key
        BY <1>a, <1>1, Zenon DEF SwappedOK, Find
    <2>1. CASE k = kind
        BY <1>e, <2>1, Zenon
    <2>2. CASE k # kind
        BY <1>f, <1>w, <2>2, Zenon DEF SwappedOK, Find
    <2> QED
        BY <2>1, <2>2, Zenon
<1>5. EarlierOK(s)'
    <2> SUFFICES ASSUME NEW d \in Datasets, NEW k \in Kinds, region'[lastGen][d][k].timestamp # 0,
                        ~(Swapped(s, k)' /\ d = job[s].ds)
                 PROVE  shm[region'[lastGen][d][k].key].run < run[s]
        BY <1>a, Zenon DEF EarlierOK, Find
    <2>1. region'[lastGen][d][k] = region[lastGen][d][k]
        BY <1>1, <1>f, Zenon
    <2>2. ~(Swapped(s, k) /\ d = job[s].ds)
        BY <1>1, Zenon
    <2> QED
        BY <1>d, <1>w, <2>1, <2>2, Zenon DEF EarlierOK, Find
<1>6. OldOK(s)'
    <2> SUFFICES ASSUME NEW k \in Kinds
                 PROVE  /\ ~Swapped(s, k)' => oldSeg'[s][k] = NoSegment
                        /\ oldSeg'[s][k] # NoSegment =>
                               /\ oldSeg'[s][k].ds = job[s].ds
                               /\ oldSeg'[s][k].kind = k
                               /\ oldSeg'[s][k].run < run[s]
                               /\ oldSeg'[s][k].key \in used[lastGen]
                               /\ shm[oldSeg'[s][k].key] = oldSeg'[s][k]
        BY <1>a, <1>c, <1>1, Zenon DEF OldOK
    <2>1. CASE k = kind /\ Find(lastGen, job[s].ds, k)
        <3>1. oldSeg'[s][k] = shm[region[lastGen][job[s].ds][k].key]
            BY <1>g, <2>1, Zenon
        <3>2. oldSeg'[s][k].run < run[s]
            BY <1>d, <1>w, <2>1, <3>1, ZenonT(30) DEF EarlierOK
        <3>3. LET key == region[lastGen][job[s].ds][k].key IN
              /\ key \in used[lastGen] /\ shm[key].key = key /\ shm[key].ds = job[s].ds
              /\ shm[key].kind = k
            <4>1. PICK d \in Datasets : d = job[s].ds
                BY <1>w, Zenon
            <4>2. Find(lastGen, d, k) /\ lastGen # 0
                BY <1>d, <2>1, <4>1, Zenon
            <4>3. LET key == region[lastGen][d][k].key IN
                  /\ key \in used[lastGen] /\ shm[key].key = key /\ shm[key].ds = d
                  /\ shm[key].kind = k
                BY <4>2, RegisteredKeys, Zenon
            <4> QED
                BY <4>1, <4>3, Zenon
        <3> QED
            BY <1>1, <2>1, <3>1, <3>2, <3>3, ZenonT(30)
    <2>2. CASE k = kind /\ ~Find(lastGen, job[s].ds, k)
        BY <1>g, <2>2, Zenon
    <2>3. CASE k # kind
        <3>1. oldSeg'[s][k] = oldSeg[s][k] /\ (Swapped(s, k)' <=> Swapped(s, k)) /\ ~Unlinked(s, k)
            BY <1>1, <1>g, <2>3, Zenon
        <3> QED
            BY <1>d, <1>w, <3>1, Zenon DEF OldOK
    <2> QED
        BY <2>1, <2>2, <2>3, Zenon
<1>7. DetachOK(s)'
    BY <1>c, Zenon DEF DetachOK
<1>8. ReadOnlyOK(s)'
    BY <1>a, <1>b, <1>c, <1>d, <1>w, Zenon DEF ReadOnlyOK, LoopOK
<1> QED
    BY <1>2, <1>3, <1>4, <1>5, <1>6, <1>7, <1>8, Zenon DEF Work

(* What is registered after the swap is there. *)
LEMMA PublishRegistered ==
    ASSUME IInv, NEW s \in Stores, PublishRegion(s)
    PROVE  RegisteredIsMapped' /\ KeysInUse' /\ SegmentsNamed'
<1>a. UNCHANGED <<lastGen, used, shm, turns>> /\ lastGen # 0
    BY PublishEffect, Zenon
<1>b. PICK kind \in Kinds : kind = skind[s] /\ Created(s, kind)
    BY PublishEffect, Zenon
<1>c. PICK ds \in Datasets : ds = job[s].ds
    BY WorkTyped, ZenonT(30)
<1>d. /\ region'[lastGen][ds][kind].key = newSeg[s][kind].key
      /\ \A d \in Datasets, k \in Kinds :
             (d # ds \/ k # kind) => region'[lastGen][d][k] = region[lastGen][d][k]
    <2>1. /\ region'[lastGen][job[s].ds][skind[s]].key = newSeg[s][skind[s]].key
          /\ \A d \in Datasets, k \in Kinds :
                 (d # job[s].ds \/ k # skind[s]) => region'[lastGen][d][k] = region[lastGen][d][k]
        BY PublishEffect, Zenon
    <2> QED
        BY <1>b, <1>c, <2>1, Zenon
<1>1. ASSUME NEW d \in Datasets, NEW k \in Kinds, region'[lastGen][d][k].timestamp # 0
      PROVE  LET key == region'[lastGen][d][k].key IN
             /\ shm[key] # NoSegment /\ shm[key].ds = d /\ shm[key].kind = k
             /\ key \in used[lastGen]
    <2>1. CASE d = ds /\ k = kind
        <3>1. /\ newSeg[s][kind].key \in used[lastGen] /\ newSeg[s][kind] # NoSegment
              /\ shm[newSeg[s][kind].key] = newSeg[s][kind]
              /\ newSeg[s][kind].ds = job[s].ds /\ newSeg[s][kind].kind = kind
            BY <1>b, NewKeys, Zenon
        <3> QED
            BY <1>c, <1>d, <2>1, <3>1, Zenon
    <2>2. CASE d # ds \/ k # kind
        <3>1. region'[lastGen][d][k] = region[lastGen][d][k]
            BY <1>d, <2>2, Zenon
        <3>2. Find(lastGen, d, k)
            BY <1>1, <3>1, ZenonT(30) DEF Find
        <3>3. LET key == region[lastGen][d][k].key IN
              /\ shm[key] # NoSegment /\ shm[key].ds = d /\ shm[key].kind = k
              /\ key \in used[lastGen]
            BY <1>a, <3>2, RegisteredKeys, Zenon
        <3> QED
            BY <3>1, <3>3, Zenon
    <2> QED
        BY <2>1, <2>2, Zenon
<1>2. RegisteredIsMapped'
    BY <1>a, <1>1, SMTT(30) DEF RegisteredIsMapped, Find
<1>3. KeysInUse'
    BY <1>a, <1>1, Zenon DEF KeysInUse, IInv, Find
<1>4. SegmentsNamed'
    BY <1>a, Zenon DEF SegmentsNamed, IInv
<1> QED
    BY <1>2, <1>3, <1>4, Zenon

(* SharedMemory::Remove of a replaced segment *)
LEMMA RemoveWork ==
    ASSUME IInv, NEW s \in Stores, RemoveOld(s)
    PROVE  /\ Work(s)' /\ Kept
           /\ UNCHANGED <<lastGen, region, used, turns, oldSeg, skind>>
           /\ Holding(s) /\ spc'[s] = "detach"
           /\ oldSeg[s][skind[s]] # NoSegment
           /\ shm[oldSeg[s][skind[s]].key] = oldSeg[s][skind[s]]
           /\ shm' = [shm EXCEPT ![oldSeg[s][skind[s]].key] = NoSegment]
           /\ oldSeg[s][skind[s]].key \in Keys
<1>t. spc \in [Stores -> StoreLocations] /\ skind \in [Stores -> Kinds]
    BY PlacesTyped, SMTT(30) DEF IInv
<1> USE DEF Goto
<1>0. Inner(s) /\ spc[s] = "remove" /\ spc'[s] = "detach"
    BY <1>t, WorkTyped, Zenon DEF Inner, RemoveOld
<1>1. UNCHANGED <<lastGen, region, used, newSeg, oldSeg, roSeg, job, run, turns, skind>>
    BY <1>0, InnerFrame, ZenonT(30) DEF RemoveOld, register, handles
<1>2. Holding(s) /\ Running(s) /\ lastGen \in Gens /\ lastGen # 0
    BY <1>0, InnerFrame, ConstantsTyped, SMTT(30) DEF Running, Holding, Gens
<1>3. PICK k \in Kinds : k = skind[s] /\ oldSeg[s][k] # NoSegment
    BY <1>t, WorkTyped, Zenon DEF RemoveOld
<1>4. ~Unlinked(s, k)
    BY <1>0, <1>3, Zenon DEF Unlinked, Kinds
<1>5. shm[oldSeg[s][k].key] = oldSeg[s][k] /\ oldSeg[s][k].key \in Keys /\ Swapped(s, k)
    BY <1>t, WorkTyped, <1>0, <1>3, <1>4, OldKeys, Zenon DEF OldOK
<1>6. shm' = [shm EXCEPT ![oldSeg[s][k].key] = NoSegment]
    BY <1>3, Zenon DEF RemoveOld
<1>7. /\ shm'[oldSeg[s][k].key] = NoSegment
      /\ \A key \in Keys : key # oldSeg[s][k].key => shm'[key] = shm[key]
    BY <1>5, <1>6, Zenon DEF IInv, TypeOK, SharedTypeOK
<1>8. Kept
    <2> SUFFICES ASSUME NEW d \in Datasets, NEW j \in Kinds, Find(lastGen, d, j)
                 PROVE  shm'[region[lastGen][d][j].key] = shm[region[lastGen][d][j].key]
        BY Zenon DEF Kept
    <2>1. region[lastGen][d][j].key # oldSeg[s][k].key
        BY <1>3, <1>5, OldUnregistered, Zenon
    <2>2. region[lastGen][d][j].key \in Keys
        BY <1>2, RegisteredKeys, Zenon
    <2> QED
        BY <1>7, <2>1, <2>2, Zenon
<1>9. \A j \in Kinds : /\ Created(s, j)' <=> Created(s, j)
                       /\ Swapped(s, j)' <=> Swapped(s, j)
                       /\ Unlinked(s, j)' <=> Unlinked(s, j)
    BY <1>0, <1>1, Zenon DEF Created, Swapped, Unlinked, Wanted
<1>10. NewOK(s)'
    <2> SUFFICES ASSUME NEW j \in Kinds, Created(s, j)
                 PROVE  shm'[newSeg[s][j].key] = newSeg[s][j]
        BY <1>t, WorkTyped, <1>1, <1>9, Zenon DEF NewOK
    <2>1. newSeg[s][j].key # oldSeg[s][k].key
        BY <1>3, <1>5, OldNotNew, Zenon
    <2>2. newSeg[s][j].key \in Keys /\ shm[newSeg[s][j].key] = newSeg[s][j]
        BY NewKeys, ZenonT(30)
    <2> QED
        BY <1>7, <2>1, <2>2, Zenon
<1>11. OldOK(s)'
    <2> SUFFICES ASSUME NEW j \in Kinds, j # k, oldSeg[s][j] # NoSegment, ~Unlinked(s, j)
                 PROVE  shm'[oldSeg[s][j].key] = oldSeg[s][j]
        <3> SUFFICES ASSUME NEW j \in Kinds, oldSeg[s][j] # NoSegment
                     PROVE  /\ j = k => shm'[oldSeg[s][j].key] = NoSegment
                            /\ j # k /\ ~Unlinked(s, j) => shm'[oldSeg[s][j].key] = oldSeg[s][j]
            <4> SUFFICES ASSUME NEW i \in Kinds, oldSeg[s][i] # NoSegment
                         PROVE  /\ oldSeg[s][i].ds = job[s].ds /\ oldSeg[s][i].kind = i
                                /\ oldSeg[s][i].run < run[s]
                                /\ Unlinked(s, i) => oldSeg[s][i].key \notin used[lastGen]
                                /\ ~Unlinked(s, i) => oldSeg[s][i].key \in used[lastGen]
                BY <1>t, WorkTyped, <1>0, <1>1, <1>3, <1>9, Zenon DEF OldOK
            <4> QED
                BY WorkTyped, Zenon DEF OldOK
        <3> QED
            BY <1>7, ZenonT(30)
    <2>1. shm[oldSeg[s][j].key] = oldSeg[s][j] /\ oldSeg[s][j].key \in Keys
          /\ oldSeg[s][j].kind = j /\ oldSeg[s][k].kind = k
        BY <1>t, WorkTyped, <1>0, <1>3, OldKeys, Zenon DEF OldOK
    <2>2. oldSeg[s][j].key # oldSeg[s][k].key
        BY <1>5, <2>1, Zenon
    <2> QED
        BY <1>7, <2>1, <2>2, Zenon
<1>12. EarlierOK(s)'
    <2>1. \A d \in Datasets, j \in Kinds :
              (Find(lastGen, d, j) /\ ~(Swapped(s, j) /\ d = job[s].ds)) =>
                  shm[region[lastGen][d][j].key].run < run[s]
        BY <1>t, WorkTyped, <1>2, Zenon DEF EarlierOK
    <2> QED
        BY <1>1, <1>8, <1>9, <2>1, Zenon DEF EarlierOK, Kept, Find
<1>13. LoopOK(s)' /\ SwappedOK(s)' /\ DetachOK(s)' /\ ReadOnlyOK(s)'
    BY <1>t, WorkTyped, <1>0, <1>1, <1>2, <1>3, <1>9, ZenonT(30) DEF LoopOK, SwappedOK, DetachOK, ReadOnlyOK, Find, Running
<1> QED
    BY <1>0, <1>1, <1>2, <1>3, <1>5, <1>6, <1>8, <1>10, <1>11, <1>12, <1>13, Zenon DEF Work

(* WaitForDetach and ReleaseKey *)
LEMMA DetachWork ==
    ASSUME IInv, NEW s \in Stores, WaitForDetach(s, Attached)
    PROVE  /\ Work(s)' /\ Holding(s)
           /\ UNCHANGED <<lastGen, region, shm, turns>>
           /\ lastGen # 0
           /\ spc[s] = "detach" /\ spc'[s] \in {"remove", "exit"}
           /\ oldSeg[s][skind[s]] # NoSegment
           /\ shm[oldSeg[s][skind[s]].key] = NoSegment
           /\ oldSeg[s][skind[s]] \notin Attached
           /\ used'[lastGen] = used[lastGen] \ {oldSeg[s][skind[s]].key}
<1>t. spc \in [Stores -> StoreLocations] /\ skind \in [Stores -> Kinds]
    BY PlacesTyped, Zenon DEF IInv
<1> USE DEF Goto
<1>0. Inner(s) /\ spc[s] = "detach" /\ oldSeg[s][skind[s]] \notin Attached
    BY Zenon DEF Inner, WaitForDetach
<1>1. UNCHANGED <<lastGen, region, shm, newSeg, oldSeg, roSeg, job, run, turns>>
    BY <1>0, InnerFrame, ZenonT(30) DEF WaitForDetach, handles
<1>2. Holding(s) /\ Running(s) /\ sgen[s] = lastGen /\ lastGen \in Gens /\ lastGen # 0
    BY <1>0, InnerFrame, ConstantsTyped, SMTT(30) DEF Running, Holding, Gens
<1>3. PICK k \in Kinds : k = skind[s] /\ oldSeg[s][k] # NoSegment
    BY <1>t, WorkTyped, <1>0, ZenonT(30) DEF DetachOK
<1>4. shm[oldSeg[s][k].key] = NoSegment
    BY <1>t, WorkTyped, <1>0, <1>3, ZenonT(30) DEF OldOK
<1>5. used'[lastGen] = used[lastGen] \ {oldSeg[s][k].key}
    BY <1>2, <1>3, Zenon DEF WaitForDetach, ReleaseKey, IInv, TypeOK, SharedTypeOK
<1>6. \/ k = "static" /\ spc'[s] = "remove" /\ skind'[s] = "updatable"
      \/ k = "updatable" /\ spc'[s] = "exit" /\ skind'[s] = FirstKind(s)
    BY <1>t, WorkTyped, <1>3, Zenon DEF WaitForDetach
<1>7. \A j \in Kinds : /\ Created(s, j)' <=> Created(s, j)
                       /\ Swapped(s, j)' <=> Swapped(s, j)
                       /\ Unlinked(s, j)' <=> Unlinked(s, j) \/ j = k
    <2>1. \A j \in Kinds : (Created(s, j)' <=> Created(s, j)) /\ (Swapped(s, j)' <=> Swapped(s, j))
        BY <1>0, <1>1, <1>6, Zenon DEF Created, Swapped, Wanted
    <2>2. \A j \in Kinds : Unlinked(s, j)' <=> Unlinked(s, j) \/ j = k
        BY <1>0, <1>3, <1>6, ZenonT(30) DEF Unlinked, Kinds
    <2> QED
        BY <2>1, <2>2, Zenon
<1>8. NewOK(s)'
    <2> SUFFICES ASSUME NEW j \in Kinds, Created(s, j)
                 PROVE  newSeg[s][j].key \in used'[lastGen]
        BY <1>t, WorkTyped, <1>1, <1>7, ZenonT(30) DEF NewOK
    <2>1. newSeg[s][j].key # oldSeg[s][k].key
        BY <1>3, <1>4, OldNotNew, Zenon
    <2>2. newSeg[s][j].key \in used[lastGen]
        BY NewKeys, Zenon
    <2> QED
        BY <1>5, <2>1, <2>2, Zenon
<1>9. OldOK(s)'
    <2> SUFFICES ASSUME NEW j \in Kinds, oldSeg[s][j] # NoSegment
                 PROVE  /\ Unlinked(s, j)' => oldSeg[s][j].key \notin used'[lastGen]
                        /\ ~Unlinked(s, j)' => /\ oldSeg[s][j].key \in used'[lastGen]
                                               /\ shm[oldSeg[s][j].key] = oldSeg[s][j]
        BY <1>t, WorkTyped, <1>1, <1>6, <1>7, ZenonT(30) DEF OldOK
    <2>1. CASE Unlinked(s, j)'
        BY <1>t, WorkTyped, <1>5, <1>7, <2>1, Zenon DEF OldOK
    <2>2. CASE ~Unlinked(s, j)'
        <3>1. ~Unlinked(s, j) /\ j # k
            BY <1>7, <2>2, Zenon
        <3>2. shm[oldSeg[s][j].key] = oldSeg[s][j] /\ oldSeg[s][j].key \in used[lastGen]
            BY <1>t, WorkTyped, <1>3, <3>1, Zenon DEF OldOK
        <3> QED
            BY <1>4, <1>5, <2>2, <3>2, ZenonT(30)
    <2> QED
        BY <2>1, <2>2, Zenon
<1>10. EarlierOK(s)'
    BY <1>t, WorkTyped, <1>1, <1>2, <1>7, ZenonT(30) DEF EarlierOK, Find
<1>11. LoopOK(s)' /\ SwappedOK(s)' /\ DetachOK(s)' /\ ReadOnlyOK(s)'
    BY <1>t, WorkTyped, <1>1, <1>2, <1>3, <1>6, <1>7, ZenonT(30) DEF LoopOK, FirstKind, SwappedOK, DetachOK, ReadOnlyOK, Find,
                                        Running
<1> QED
    BY <1>0, <1>1, <1>2, <1>3, <1>4, <1>5, <1>6, <1>8, <1>9, <1>10, <1>11, ZenonT(30) DEF Work

(***************************************************************************)
(* A datastore's step on the shared data                                   *)
(***************************************************************************)
(* The data invariants of the shared state *)
Stored == SegmentsNamed /\ KeysInUse /\ RegisteredIsMapped

(* Steps that change neither register nor segments. *)
LEMMA StoredFrame ==
    ASSUME IInv, UNCHANGED <<lastGen, region, used, shm>>, turns' \in Nat, turns' >= turns
    PROVE  Stored' /\ Kept
<1>1. SegmentsNamed'
    <2> SUFFICES ASSUME NEW key \in Keys, shm[key] # NoSegment
                 PROVE  shm[key].key = key /\ shm[key].run <= turns'
        BY Zenon DEF SegmentsNamed
    <2>1. shm[key].run \in Nat /\ turns \in Nat
        BY ConstantsTyped, ZenonT(30) DEF IInv, TypeOK, SharedTypeOK, StoreTypeOK
    <2> QED
        BY <2>1 DEF SegmentsNamed, IInv
<1>2. lastGen' = lastGen /\ region' = region /\ used' = used /\ shm' = shm
    BY Zenon
<1>3. KeysInUse
    BY Zenon DEF IInv
<1>4. KeysInUse'
    BY <1>2, <1>3, ZenonT(30) DEF KeysInUse, Find
<1>5. Kept
    BY <1>2, Zenon DEF Kept
<1>6. RegisteredIsMapped'
    BY <1>2, <1>5, RegisteredFrame, Zenon
<1> QED
    BY <1>1, <1>4, <1>5, <1>6, Zenon DEF Stored

(* A step within a run keeps register and segments in order. *)
LEMMA InnerStored ==
    ASSUME IInv, NEW s \in Stores, Inner(s)
    PROVE  Stored' /\ Work(s)' /\ (Kept \/ PublishRegion(s))
<1>t. lastGen' = lastGen /\ turns' = turns /\ turns \in Nat /\ lastGen # 0 /\ lastGen \in Gens
    BY InnerFrame, ConstantsTyped, SMTT(30) DEF IInv, TypeOK, StoreTypeOK, Gens
<1>1. CASE \/ AttachStatic(s) \/ Populate(s) \/ SwapLock(s) \/ NotifyEngines(s) \/ NotifyReturns(s)
           \/ SkipOld(s)
    BY <1>t, <1>1, MoveWork, StoredFrame
<1>2. CASE SetupRegion(s)
    <2>1. /\ Work(s)' /\ Kept /\ SegmentsNamed' /\ UNCHANGED <<lastGen, region>>
          /\ \A key \in used[lastGen] : key \in used'[lastGen]
          /\ \A key \in Keys \ used'[lastGen] : shm'[key] = shm[key]
        BY <1>2, SetupWork, Zenon
    <2>2. RegisteredIsMapped'
        BY <2>1, RegisteredFrame, Zenon
    <2>3. KeysInUse'
        <3>1. \A d \in Datasets, k \in Kinds :
                  Find(lastGen, d, k)' => region'[lastGen][d][k].key \in used'[lastGen]
            BY <1>t, <2>1, Zenon DEF KeysInUse, IInv, Find
        <3>2. lastGen = 1 => \A key \in Keys \ used'[1] : shm'[key] = NoSegment
            BY <1>t, <2>1, Zenon DEF KeysInUse, IInv
        <3> QED
            BY <1>t, <2>1, <3>1, <3>2, ZenonT(30) DEF KeysInUse, Find
    <2> QED
        BY <2>1, <2>2, <2>3, Zenon DEF Stored
<1>3. CASE PublishRegion(s)
    BY <1>3, PublishWork, PublishRegistered, Zenon DEF Stored
<1>4. CASE RemoveOld(s)
    <2>1. /\ Work(s)' /\ Kept /\ UNCHANGED <<lastGen, region, used, turns>>
        BY <1>4, RemoveWork, Zenon
    <2>2. \A key \in Keys : shm'[key] \in {shm[key], NoSegment}
        BY <1>4, RemoveWork, ZenonT(30) DEF IInv, TypeOK, SharedTypeOK
    <2>3. RegisteredIsMapped'
        BY <2>1, RegisteredFrame, Zenon
    <2>4. SegmentsNamed'
        BY <2>1, <2>2, Zenon DEF SegmentsNamed, IInv
    <2>5. KeysInUse'
        BY <2>1, <2>2, Zenon DEF KeysInUse, IInv, Find
    <2> QED
        BY <2>1, <2>3, <2>4, <2>5, ZenonT(30) DEF Stored
<1>5. CASE WaitForDetach(s, Attached)
    <2>1. /\ Work(s)' /\ UNCHANGED <<lastGen, region, shm, turns>>
        BY <1>5, DetachWork, Zenon
    <2>2. PICK k \in Kinds : /\ k = skind[s] /\ oldSeg[s][k] # NoSegment
                             /\ shm[oldSeg[s][k].key] = NoSegment
                             /\ used'[lastGen] = used[lastGen] \ {oldSeg[s][k].key}
        BY <1>5, DetachWork, WorkTyped, ZenonT(30) DEF Kinds
    <2>3. RegisteredIsMapped' /\ Kept
        BY <2>1, RegisteredFrame, Zenon DEF Kept
    <2>4. SegmentsNamed'
        BY <2>1, Zenon DEF SegmentsNamed, IInv
    <2>5. KeysInUse'
        <3>1. ASSUME NEW d \in Datasets, NEW j \in Kinds, Find(lastGen, d, j)
              PROVE  region[lastGen][d][j].key \in used'[lastGen]
            <4>1. region[lastGen][d][j].key \in used[lastGen]
                BY <1>t, <3>1, RegisteredKeys, ZenonT(30)
            <4>2. region[lastGen][d][j].key # oldSeg[s][k].key
                BY <2>2, <3>1, OldUnregistered, SMTT(30)
            <4> QED
                BY <2>2, <4>1, <4>2, Zenon
        <3>2. lastGen = 1 => \A key \in Keys \ used'[1] : shm[key] = NoSegment
            BY <1>t, <2>2, Zenon DEF KeysInUse, IInv
        <3> QED
            BY <1>t, <2>1, <3>1, <3>2, ZenonT(30) DEF KeysInUse, Find
    <2> QED
        BY <2>1, <2>3, <2>4, <2>5, ZenonT(30) DEF Stored
<1> QED
    BY <1>1, <1>2, <1>3, <1>4, <1>5, Zenon DEF Inner

(* The end of a run removes at most what it has created and not published. *)
LEMMA EndsStored ==
    ASSUME IInv, NEW s \in Stores, Ends(s)
    PROVE  /\ Stored' /\ Kept /\ Work(s)'
           /\ \A key \in Keys : shm'[key] \in {shm[key], NoSegment}
<1>1. UNCHANGED <<lastGen, region, used, turns>> /\ Leave(s) /\ spc'[s] = "idle"
    BY EndsFrame, Zenon
<1>2. Work(s)'
    <2>1. newSeg'[s] = NoHandles /\ oldSeg'[s] = NoHandles
        BY <1>1, Zenon DEF Leave, IInv, TypeOK, StoreTypeOK
    <2> QED
        BY <1>1, <2>1, WorkWithoutHandles, ZenonT(30) DEF NoHandles
<1>3. CASE UNCHANGED shm
    <2>1. turns' \in Nat /\ turns' >= turns /\ shm \in [Keys -> MaybeSegments]
        BY <1>1, SMTT(30) DEF IInv, TypeOK, SharedTypeOK, StoreTypeOK
    <2> QED
        BY <1>1, <1>2, <1>3, <2>1, StoredFrame, ZenonT(30)
<1>4. CASE SwapTimeout(s)
    <2>1. /\ shm' = [key \in Keys |-> IF key \in KeysOf(newSeg[s]) THEN NoSegment ELSE shm[key]]
          /\ spc[s] = "swap"
        BY <1>4, Zenon DEF SwapTimeout
    <2>2. \A key \in Keys : shm'[key] \in {shm[key], NoSegment}
        BY <2>1, Zenon
    <2>3. Kept
        <3> SUFFICES ASSUME lastGen # 0, NEW d \in Datasets, NEW k \in Kinds, Find(lastGen, d, k)
                     PROVE  region[lastGen][d][k].key \notin KeysOf(newSeg[s])
            BY <2>1, RegisteredKeys, Zenon DEF Kept
        <3>1. shm[region[lastGen][d][k].key].run < run[s]
              /\ shm[region[lastGen][d][k].key].run \in Nat
            BY <2>1, WorkTyped, RegisteredKeys, ZenonT(30) DEF EarlierOK, Holding, Swapped
        <3>2. ASSUME NEW j \in Kinds, newSeg[s][j] # NoSegment
              PROVE  newSeg[s][j].key # region[lastGen][d][k].key
            <4>1. Created(s, j)
                BY <3>2, WorkTyped, ZenonT(30) DEF NewOK
            <4>2. shm[newSeg[s][j].key].run = run[s] /\ run[s] \in Nat
                BY <4>1, NewKeys
            <4> QED
                BY <3>1, <4>2, SMTT(30)
        <3> QED
            BY <3>2, Zenon DEF KeysOf
    <2>4. RegisteredIsMapped'
        BY <1>1, <2>3, RegisteredFrame, Zenon
    <2>5. SegmentsNamed' /\ KeysInUse'
        BY <1>1, <2>2, Zenon DEF SegmentsNamed, KeysInUse, IInv, Find
    <2> QED
        BY <1>2, <2>2, <2>3, <2>4, <2>5, ZenonT(30) DEF Stored
<1> QED
    BY <1>3, <1>4, Zenon DEF Ends, FileError, Exit, Uncaught, Killed, Signalled, Die, shared

(* A new control block is empty. *)
LEMMA OpenStored ==
    ASSUME IInv, NEW s \in Stores, OpenMonitor(s)
    PROVE  /\ Stored' /\ Work(s)' /\ Holding(s)
           /\ UNCHANGED <<region, used, shm>>
           /\ \/ lastGen' = lastGen /\ Kept
              \/ /\ lastGen' # lastGen /\ lastGen' \in Gens /\ lastGen' > lastGen
                 /\ \A d \in Datasets, k \in Kinds : ~Find(lastGen', d, k)
<1>t. spc \in [Stores -> StoreLocations] /\ skind \in [Stores -> Kinds]
    BY PlacesTyped, SMTT(30) DEF IInv
<1>1. /\ UNCHANGED <<region, used, shm, turns, job, run, newSeg, oldSeg, roSeg>>
      /\ Holding(s) /\ spc[s] = "open"
    BY Zenon DEF OpenMonitor, register, command, handles, Holding
<1>2. \/ job[s].onlyMetric /\ spc'[s] = "attach" /\ skind'[s] = "updatable"
      \/ ~job[s].onlyMetric /\ spc'[s] = "setup" /\ skind'[s] = "static"
    BY <1>t, WorkTyped, ZenonT(30) DEF OpenMonitor, Goto, FirstKind
<1>3. turns \in Nat /\ turns' = turns
    BY <1>1, Zenon DEF IInv, TypeOK, StoreTypeOK
<1>4. \A k \in Kinds : ~Created(s, k)' /\ ~Swapped(s, k)' /\ ~Swapped(s, k)
                       /\ newSeg[s][k] = NoSegment /\ oldSeg[s][k] = NoSegment
    BY <1>1, <1>2, NoHandlesYet, ZenonT(30) DEF Created, Swapped, Kinds
<1>5. /\ LoopOK(s)' /\ NewOK(s)' /\ SwappedOK(s)' /\ OldOK(s)' /\ DetachOK(s)'
    BY <1>1, <1>2, <1>4, Zenon DEF LoopOK, FirstKind, NewOK, SwappedOK, OldOK, DetachOK
<1>6. ReadOnlyOK(s)'
    BY <1>1, <1>2, Zenon DEF ReadOnlyOK
<1>7. CASE lastGen' = lastGen
    <2>1. Stored' /\ Kept
        BY <1>1, <1>3, <1>7, StoredFrame, SMTT(30)
    <2>2. EarlierOK(s)'
        BY <1>1, <1>4, <1>7, WorkTyped, ZenonT(30) DEF EarlierOK, Find
    <2> QED
        BY <1>1, <1>5, <1>6, <1>7, <2>1, <2>2, ZenonT(30) DEF Work
<1>8. CASE lastGen' # lastGen
    <2>1. lastGen' = lastGen + 1 /\ lastGen < MaxGens /\ lastGen \in Nat
        <3>1. OpenOrCreate /\ lastGen \in 0 .. MaxGens
            BY Zenon DEF OpenMonitor, IInv, TypeOK, SharedTypeOK
        <3>2. lastGen' = lastGen + 1 /\ lastGen < MaxGens
            BY <1>8, <3>1, Zenon DEF OpenOrCreate, block
        <3>3. lastGen \in Nat
            BY <3>1, 0 .. MaxGens \subseteq Nat, Zenon
        <3> QED
            BY <3>2, <3>3, Zenon
    <2>2. lastGen' \in Gens /\ lastGen' > lastGen /\ lastGen' # 0
        BY <2>1, ConstantsTyped DEF Gens
    <2>3. \A d \in Datasets, k \in Kinds : ~Find(lastGen', d, k)
        BY <2>2, Zenon DEF IInv, Serial
    <2>4. \A d \in Datasets, k \in Kinds : ~Find(lastGen, d, k)'
        BY <1>1, <2>3, Zenon DEF Find
    <2>5. EarlierOK(s)' /\ RegisteredIsMapped'
        BY <2>4, Zenon DEF EarlierOK, RegisteredIsMapped
    <2>6. KeysInUse'
        <3>1. lastGen' # 0 => \A d \in Datasets, k \in Kinds :
                  Find(lastGen, d, k)' => region'[lastGen'][d][k].key \in used'[lastGen']
            BY <2>4, Zenon
        <3>2. ASSUME lastGen' = 1 PROVE \A key \in Keys \ used'[1] : shm'[key] = NoSegment
            <4>1. lastGen = 0
                BY <2>1, <3>2
            <4> QED
                BY <1>1, <4>1, Zenon DEF KeysInUse, IInv
        <3> QED
            BY <2>2, <3>1, <3>2, Zenon DEF KeysInUse, Find
    <2>7. SegmentsNamed'
        BY <1>1, Zenon DEF SegmentsNamed, IInv
    <2> QED
        BY <1>1, <1>5, <1>6, <1>8, <2>2, <2>3, <2>5, <2>6, <2>7, ZenonT(30) DEF Stored, Work
<1> QED
    BY <1>7, <1>8, ZenonT(30)

(* A run that begins has not touched anything. *)
LEMMA BeginStored ==
    ASSUME IInv, NEW s \in Stores, Start(s) \/ AcquireFileLock(s)
    PROVE  /\ Stored' /\ Kept /\ Work(s)' /\ UNCHANGED <<lastGen, region, used, shm>>
           /\ spc[s] \in {"idle", "flock"} /\ spc'[s] \in {"flock", "open"}
<1>t. spc \in [Stores -> StoreLocations] /\ skind \in [Stores -> Kinds]
    BY PlacesTyped, Zenon DEF IInv
<1>1. /\ UNCHANGED <<lastGen, region, used, shm, newSeg, oldSeg>>
      /\ spc[s] \in {"idle", "flock"}
    BY ZenonT(30) DEF Start, AcquireFileLock, shared, handles
<1>2. turns \in Nat /\ turns' \in Nat /\ turns' >= turns
    BY DEF Start, AcquireFileLock, IInv, TypeOK, StoreTypeOK
<1>3. Stored' /\ Kept
    BY <1>1, <1>2, StoredFrame, ZenonT(30)
<1>4. \A k \in Kinds : newSeg'[s][k] = NoSegment /\ oldSeg'[s][k] = NoSegment
    BY <1>1, NoHandlesYet, Zenon
<1>5. CASE Start(s)
    <2>1. spc'[s] = "flock"
        BY <1>t, <1>5, Zenon DEF Start, Goto
    <2> QED
        BY <1>1, <1>3, <1>4, <2>1, WorkWithoutHandles, ZenonT(30)
<1>6. CASE AcquireFileLock(s)
    <2>1. spc'[s] = "open" /\ run'[s] = turns + 1 /\ job' = job
        BY <1>t, <1>6, ZenonT(30) DEF AcquireFileLock, Goto, IInv, TypeOK, StoreTypeOK
    <2>2. EarlierOK(s)'
        <3> SUFFICES ASSUME lastGen # 0, NEW d \in Datasets, NEW k \in Kinds, Find(lastGen, d, k)
                     PROVE  shm[region[lastGen][d][k].key].run < turns + 1
            BY <1>1, <2>1, Zenon DEF EarlierOK, Find
        <3>1. /\ shm[region[lastGen][d][k].key].run \in Nat
              /\ shm[region[lastGen][d][k].key].run <= turns
            BY RegisteredKeys, Zenon
        <3> QED
            BY <1>2, <3>1, SMTT(30)
    <2>3. /\ LoopOK(s)' /\ NewOK(s)' /\ SwappedOK(s)' /\ OldOK(s)' /\ DetachOK(s)' /\ ReadOnlyOK(s)'
        BY <1>4, <2>1, Zenon DEF LoopOK, Running, NewOK, SwappedOK, OldOK, DetachOK, ReadOnlyOK, Created,
                          Swapped
    <2> QED
        BY <1>1, <1>3, <2>1, <2>2, <2>3, ZenonT(30) DEF Work
<1> QED
    BY <1>5, <1>6, Zenon

(***************************************************************************)
(* A datastore's step and what the engines have mapped                     *)
(***************************************************************************)
LEMMA HeldTyped ==
    ASSUME IInv, NEW e \in Engines, NEW f \in Holds(e), NEW k \in Kinds
    PROVE  /\ f \in Facades /\ f[k] \in Segments /\ f[k] # NoSegment /\ f[k].key \in Keys
           /\ f[k].run \in Nat /\ f[k] \in Mapped(e)
<1>1. f \in Facades
    BY Zenon DEF IInv, TypeOK, EngineTypeOK, Holds
<1>2. f[k] \in Segments
    BY <1>1, Zenon DEF Facades
<1>3. f[k] \in Mapped(e)
    BY DEF Mapped, Holds
<1> QED
    BY <1>1, <1>2, <1>3, ConstantsTyped, ZenonT(30)

(* An engine is in no later generation than the latest. *)
LEMMA NewGeneration ==
    ASSUME IInv, NEW e \in Engines, lastGen' > lastGen, lastGen' \in Nat, egen[e] = lastGen'
    PROVE  facade[e] = NoFacade /\ Holds(e) = {}
<1>1. lastGen \in Nat /\ egen[e] \in Nat
    BY ConstantsTyped, SMTT(30) DEF IInv, TypeOK, SharedTypeOK, EngineTypeOK
<1>2. wpc[e] = "off"
    BY <1>1, SMTT(30) DEF IInv, Opened
<1> QED
    BY <1>2, Zenon DEF IInv, Opened, Holds

(***************************************************************************)
(* An engine's step                                                        *)
(***************************************************************************)
(* Opened, Copies, MappedSegments and FacadesConsistent for one engine *)
CopyOK(e, k) ==
    /\ Find(lastGen, eds[e], k)
    /\ copy[e][k].timestamp <= region[lastGen][eds[e]][k].timestamp
    /\ copy[e][k].timestamp = region[lastGen][eds[e]][k].timestamp =>
           copy[e][k] = region[lastGen][eds[e]][k]
    /\ wpc[e] = "swap" => copy[e][k] = region[lastGen][eds[e]][k]
    /\ facade[e][k].run <= shm[region[lastGen][eds[e]][k].key].run

SegmentOK(seg) ==
    /\ seg.key \in used[lastGen]
    /\ shm[seg.key] \in {seg, NoSegment}
    /\ \A s \in Stores :
           (spc[s] = "detach" /\ oldSeg[s][skind[s]].key = seg.key) => seg = oldSeg[s][skind[s]]

Phase(e) ==
    /\ wpc[e] # "off" => egen[e] <= lastGen
    /\ facade[e] = NoFacade <=> wpc[e] \in {"off", "start", "init"}
    /\ facade[e] = NoFacade => queries[e] = {}

View(e) ==
    /\ Phase(e)
    /\ (Protected(e) /\ facade[e] # NoFacade) => \A k \in Kinds : CopyOK(e, k)
    /\ Protected(e) => \A f \in Holds(e) : /\ \A k \in Kinds : SegmentOK(f[k])
                                           /\ Consistent(f, eds[e])

AllViews == \A e \in Engines : View(e)

(* What an engine's step leaves alone of the rest of the system *)
Elsewhere == UNCHANGED <<lastGen, region, used, shm, spc, skind, oldSeg>>

(***************************************************************************)
(* The invariant                                                           *)
(***************************************************************************)
(* The invariant holds at the start. *)
LEMMA Initially == Init => IInv
<1> SUFFICES ASSUME Init PROVE IInv
    BY Zenon
<1> USE DEF Init, SharedInit, StoreInit, EngineInit
<1>1. TypeOK
    <2> USE JobsTyped, ConstantsTyped, OwnersTyped
    <2>1. SharedTypeOK
        <3>1. 0 \in 0 .. MaxGens
            BY ConstantsTyped
        <3> QED
            BY <3>1, ZenonT(30) DEF SharedTypeOK, MaybeSegments
    <2>2. StoreTypeOK
        BY Zenon DEF StoreTypeOK, StoreLocations, Kinds
    <2>3. EngineTypeOK
        BY Zenon DEF EngineTypeOK, WatchLocations, MainLocations
    <2> QED
        BY <2>1, <2>2, <2>3, ZenonT(30) DEF TypeOK
<1>2. Mutex
    BY Zenon DEF Mutex
<1>3. Serial /\ Opened /\ SegmentsNamed /\ KeysInUse /\ RegisteredIsMapped
    BY ConstantsTyped, ZenonT(30) DEF Serial, Opened, SegmentsNamed, KeysInUse, RegisteredIsMapped, Holding, Running, Find,
        EmptyRegion
<1>4. Handles
    <2> SUFFICES ASSUME NEW s \in Stores PROVE Work(s)
        BY Zenon DEF Handles
    <2>1. spc[s] = "idle" /\ \A k \in Kinds : newSeg[s][k] = NoSegment /\ oldSeg[s][k] = NoSegment
        BY Zenon DEF NoHandles
    <2>2. ~Running(s) /\ \A k \in Kinds : ~Created(s, k) /\ ~Swapped(s, k)
        BY <2>1, Zenon DEF Running, Created, Swapped
    <2>3. LoopOK(s) /\ DetachOK(s) /\ ReadOnlyOK(s) /\ EarlierOK(s)
        BY <2>1, <2>2, Zenon DEF LoopOK, DetachOK, ReadOnlyOK, EarlierOK
    <2>4. NewOK(s) /\ SwappedOK(s) /\ OldOK(s)
        BY <2>1, <2>2, Zenon DEF NewOK, SwappedOK, OldOK
    <2> QED
        BY <2>3, <2>4, Zenon DEF Work
<1>5. Halves
    BY Zenon DEF Halves
<1>6. Copies /\ MappedSegments /\ FacadesConsistent
    BY Zenon DEF Copies, MappedSegments, FacadesConsistent, Holds
<1> QED
    BY <1>1, <1>2, <1>3, <1>4, <1>5, <1>6, ZenonT(30) DEF IInv
=============================================================================
