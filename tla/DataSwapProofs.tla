--------------------------- MODULE DataSwapProofs ---------------------------
(***************************************************************************)
(* DataSwap keeps its inductive invariant, and what follows from it: what  *)
(* engines see, the keys in use, the monitors, and the refinement of       *)
(* LiveData.                                                               *)
(***************************************************************************)
EXTENDS DataSwapLemmas

(***************************************************************************)
(* The invariant                                                           *)
(***************************************************************************)
(* IInv is preserved by every step: of a datastore, of an engine, of --list, *)
(* and by every fault.                                                       *)
LEMMA Invariance == IInv /\ [Next]_vars => IInv'
(* While a datastore works, the others' handles are empty and stay so. *)
<1>OthersWork.
    ASSUME IInv, NEW s \in Stores, NEW t \in Stores, t # s, Untouched(t), Holding(s)
    PROVE  Work(t)'
  BY <1>OthersWork, Alone, NoHandlesYet, WorkWithoutHandles, ZenonT(30) DEF Untouched
(* ... the halves of each dataset, ... *)
<1>MatchedFrame.
    ASSUME UNCHANGED <<lastGen, region>>, Kept, NEW d \in Datasets, Matched(d), lastGen # 0
    PROVE  Matched(d)'
  <2> USE <1>MatchedFrame
  <2>1. "static" \in Kinds /\ "updatable" \in Kinds
      BY Zenon DEF Kinds
  <2> QED
      BY <2>1, Zenon DEF Matched, Kept, Find
(* ... what the engines have copied, ... *)
<1>CopiesFrame.
    ASSUME IInv, UNCHANGED <<lastGen, region>>, Kept,
           UNCHANGED <<wpc, egen, eds, copy, facade, queries, active, mpc>>
    PROVE  Copies'
  <2> USE <1>CopiesFrame
  <2> SUFFICES ASSUME NEW e \in Engines, Protected(e), facade[e] # NoFacade, NEW k \in Kinds
               PROVE  /\ Find(lastGen, eds[e], k)
                      /\ copy[e][k].timestamp <= region[lastGen][eds[e]][k].timestamp
                      /\ copy[e][k].timestamp = region[lastGen][eds[e]][k].timestamp =>
                             copy[e][k] = region[lastGen][eds[e]][k]
                      /\ wpc[e] = "swap" => copy[e][k] = region[lastGen][eds[e]][k]
                      /\ facade[e][k].run <= shm'[region[lastGen][eds[e]][k].key].run
      BY Zenon DEF Copies, Protected, Find
  <2>1. lastGen # 0 /\ eds[e] \in Datasets
      BY ConstantsTyped DEF IInv, TypeOK, EngineTypeOK, Protected, Gens
  <2>2. Find(lastGen, eds[e], k)
      BY Zenon DEF IInv, Copies
  <2>3. shm'[region[lastGen][eds[e]][k].key] = shm[region[lastGen][eds[e]][k].key]
      BY <2>1, <2>2, Zenon DEF Kept
  <2> QED
      BY <2>2, <2>3, Zenon DEF IInv, Copies
(* ... and Halves, if they end no publication halfway. *)
<1>HalvesFrame.
    ASSUME IInv, [Next]_vars, UNCHANGED <<lastGen, region>>, Kept,
           \A t \in Stores, d \in Datasets :
               HalfPublished(t, d) => HalfPublished(t, d)' \/ owner'[lastGen] = Abandoned
    PROVE  Halves'
  <2> USE <1>HalvesFrame
  <2> SUFFICES ASSUME lastGen # 0, NEW d \in Datasets
               PROVE  \/ Matched(d)' \/ owner'[lastGen] = Abandoned
                      \/ \E t \in Stores : HalfPublished(t, d)'
      BY Zenon DEF Halves
  <2>1. lastGen \in Gens
      BY ConstantsTyped DEF IInv, TypeOK, SharedTypeOK, Gens
  <2>2. CASE Matched(d)
      BY <2>2, <1>MatchedFrame, Zenon
  <2>3. CASE owner[lastGen] = Abandoned
      BY <2>1, <2>3, AbandonedStays, Zenon
  <2>4. CASE \E t \in Stores : HalfPublished(t, d)
      BY <2>4, Zenon
  <2> QED
      BY <2>2, <2>3, <2>4, Zenon DEF IInv, Halves
(* The handles of a datastore that does not move. *)
<1>WorkFrame.
    ASSUME NEW t \in Stores, Work(t), Untouched(t), UNCHANGED <<lastGen, region, used, shm>>
    PROVE  Work(t)'
  <2> USE <1>WorkFrame
  <2>1. \A k \in Kinds : Created(t, k)' <=> Created(t, k)
      BY Zenon DEF Created, Wanted, Untouched
  <2>2. \A k \in Kinds : (Swapped(t, k)' <=> Swapped(t, k)) /\ (Unlinked(t, k)' <=> Unlinked(t, k))
      BY Zenon DEF Swapped, Unlinked, Wanted, Untouched
  <2>3. LoopOK(t)' /\ DetachOK(t)' /\ ReadOnlyOK(t)'
      BY Zenon DEF Work, LoopOK, DetachOK, ReadOnlyOK, Running, FirstKind, Find, Untouched
  <2>4. NewOK(t)'
      BY <2>1, Zenon DEF Work, NewOK, Untouched
  <2>5. SwappedOK(t)' /\ EarlierOK(t)'
      BY <2>2, ZenonT(30) DEF Work, SwappedOK, EarlierOK, Holding, Find, Untouched
  <2>6. OldOK(t)'
      <3>1. UNCHANGED <<lastGen, used, shm>> /\ spc'[t] = spc[t] /\ skind'[t] = skind[t]
            /\ oldSeg'[t] = oldSeg[t] /\ job'[t] = job[t] /\ run'[t] = run[t]
          BY Zenon DEF Untouched
      <3>2. OldOK(t)
          BY Zenon DEF Work
      <3> QED
          BY <2>2, <3>1, <3>2, ZenonT(30) DEF OldOK
  <2> QED
      BY <2>3, <2>4, <2>5, <2>6, ZenonT(30) DEF Work
(* The handles of the datastores that do not take the step *)
<1>StoreHandles.
    ASSUME IInv, NEW s \in Stores, StoreNext(s) \/ StoreDies(s)
    PROVE  Stored' /\ Handles'
  <2> USE <1>StoreHandles
  <2>1. \A t \in Stores \ {s} : Untouched(t)
      BY ElsewhereAll, Zenon
  <2>2. CASE Inner(s) \/ OpenMonitor(s)
      <3>1. Holding(s)
          BY <2>2, InnerFrame, OpenStored, Zenon DEF Holding, Running
      <3>2. \A t \in Stores \ {s} : Work(t)'
          BY <2>1, <3>1, <1>OthersWork, Zenon
      <3> QED
          BY <2>2, <3>2, InnerStored, OpenStored, Zenon DEF Handles
  <2>3. CASE Ends(s) \/ Start(s) \/ AcquireFileLock(s)
      <3>1. Stored' /\ Kept /\ Work(s)' /\ UNCHANGED <<lastGen, region, used>>
          BY <2>3, EndsStored, EndsFrame, BeginStored, ZenonT(30)
      <3>2. ASSUME NEW t \in Stores \ {s} PROVE Work(t)'
          <4>1. CASE spc[t] \in {"idle", "flock"}
              BY <2>1, <4>1, NoHandlesYet, WorkWithoutHandles, SMTT(30) DEF Untouched
          <4>2. CASE Holding(t)
              <5>1. spc[s] = "flock" \/ spc[s] = "idle"
                  BY <4>2, Alone, Zenon
              <5>2. UNCHANGED shm
                  BY <2>3, <5>1, BeginStored, Zenon DEF Ends, FileError, Exit, SwapTimeout, Uncaught, Throws,
                                                 Killed, Signalled, Die
              <5>3. Work(t)
                  BY Zenon DEF IInv, Handles
              <5> QED
                  BY <2>1, <3>1, <5>2, <5>3, <1>WorkFrame, Zenon
          <4> QED
              BY <4>1, <4>2, ZenonT(30) DEF Holding
      <3> QED
          BY <3>1, <3>2, Zenon DEF Handles
  <2> QED
      BY <2>2, <2>3, StoreActions, Zenon
(* The halves of a dataset fit again when the mutex is released. *)
<1>StoreHalves.
    ASSUME IInv, Next, NEW s \in Stores, StoreNext(s) \/ StoreDies(s)
    PROVE  Halves'
  <2> USE <1>StoreHalves
  <2>1. \A t \in Stores \ {s}, d \in Datasets : HalfPublished(t, d) => HalfPublished(t, d)'
      BY ElsewhereAll, ZenonT(30) DEF Untouched, HalfPublished
  <2>2. CASE /\ UNCHANGED <<lastGen, region>> /\ Kept
             /\ \/ spc[s] # "publish"
                \/ owner'[lastGen] = Abandoned
      <3>1. \A d \in Datasets : HalfPublished(s, d) => owner'[lastGen] = Abandoned
          BY <2>2, Zenon DEF HalfPublished
      <3> QED
          BY <2>1, <2>2, <3>1, <1>HalvesFrame, Zenon
  <2>3. CASE Start(s) \/ AcquireFileLock(s)
      BY <2>2, <2>3, BeginStored, Zenon
  <2>4. CASE OpenMonitor(s)
      <3>1. CASE lastGen' = lastGen /\ Kept
          BY <2>2, <2>4, <3>1, OpenStored, ZenonT(30) DEF OpenMonitor
      <3>2. CASE lastGen' # lastGen
          <4>1. \A d \in Datasets, k \in Kinds : ~Find(lastGen, d, k)'
              BY <2>4, <3>2, OpenStored, Zenon DEF Find
          <4> QED
              BY <4>1, Zenon DEF Halves, Matched, Kinds
      <3> QED
          BY <2>4, <3>1, <3>2, OpenStored, Zenon
  <2>5. CASE Ends(s)
      <3>1. Kept /\ UNCHANGED <<lastGen, region>>
          BY <2>5, EndsStored, EndsFrame, Zenon
      <3>2. CASE spc[s] = "publish"
          <4>1. Die(s)
              BY <2>5, <3>2, ZenonT(30) DEF Ends, FileError, Exit, SwapTimeout, Uncaught, Killed, Signalled
          <4>2. owner[lastGen] = Store(s) /\ lastGen \in Gens
              BY <3>2, PlacesTyped, SMTT(30) DEF IInv, Mutex, Serial, Running
          <4>3. owner'[lastGen] = Abandoned
              BY <4>1, <4>2, Zenon DEF Die, Abandon
          <4> QED
              BY <2>2, <3>1, <4>3, Zenon
      <3> QED
          BY <2>2, <3>1, <3>2, Zenon
  <2>6. CASE Inner(s) /\ ~PublishRegion(s)
      <3>1. Kept /\ lastGen' = lastGen
          BY <2>6, InnerStored, InnerFrame, Zenon
      <3>2. UNCHANGED region /\ spc[s] # "publish"
          BY <2>6, Zenon DEF Inner, AttachStatic, SetupRegion, Populate, SwapLock, NotifyEngines,
                      NotifyReturns, SkipOld, RemoveOld, WaitForDetach, shared, register
      <3> QED
          BY <2>2, <3>1, <3>2, Zenon
  <2>7. CASE PublishRegion(s)
      <3>a. UNCHANGED <<lastGen, shm, job>> /\ lastGen # 0 /\ lastGen \in Gens
          BY <2>7, PublishEffect, Zenon
      <3>b. PICK ds \in Datasets : ds = job[s].ds
          BY WorkTyped, ZenonT(30)
      <3>c. owner[lastGen] = Store(s) /\ owner[lastGen] # Abandoned
          <4>1. spc[s] = "publish" /\ sgen[s] = lastGen
              BY <2>7, PublishEffect, Zenon
          <4> QED
              BY <4>1, OwnersDiffer, SMTT(30) DEF IInv, Mutex
      <3>d. Holding(s) /\ spc[s] = "publish"
          BY <2>7, PublishEffect, Zenon
      <3>e. \A t \in Stores \ {s} : spc[t] # "publish"
          BY <3>d, Alone, Zenon
      <3>1. ASSUME NEW d \in Datasets, d # ds PROVE Matched(d)'
          <4>1. Matched(d)
              BY <3>a, <3>b, <3>c, <3>e, <3>1, ZenonT(30) DEF IInv, Halves, HalfPublished
          <4>2. \A k \in Kinds : region'[lastGen][d][k] = region[lastGen][d][k]
              BY <2>7, <3>b, <3>1, PublishEffect, ZenonT(30)
          <4> QED
              BY <3>a, <4>1, <4>2, ZenonT(30) DEF Matched, Find, Kinds
      <3>2. CASE skind[s] = "static"
          <4>1. spc'[s] = "publish" /\ skind'[s] = "updatable" /\ Wanted(s, "static")
              BY <2>7, <3>2, PublishEffect, Zenon
          <4>2. HalfPublished(s, ds)'
              BY <3>a, <3>b, <4>1, WorkTyped, Zenon DEF HalfPublished, Wanted
          <4> QED
              BY <3>1, <4>2, Zenon DEF Halves
      <3>3. CASE skind[s] = "updatable"
          <4>1. /\ region'[lastGen][ds]["updatable"].key = newSeg[s]["updatable"].key
                /\ region'[lastGen][ds]["updatable"].timestamp # 0
                /\ region'[lastGen][ds]["static"] = region[lastGen][ds]["static"]
                /\ Created(s, "updatable")
              <5>1. /\ region'[lastGen][job[s].ds][skind[s]].key = newSeg[s][skind[s]].key
                    /\ region'[lastGen][job[s].ds][skind[s]].timestamp # 0
                    /\ Created(s, skind[s])
                  BY <2>7, PublishEffect, Zenon
              <5>2. \A x \in Datasets, k \in Kinds :
                        (x # job[s].ds \/ k # skind[s]) => region'[lastGen][x][k] = region[lastGen][x][k]
                  BY <2>7, PublishEffect, Zenon
              <5> QED
                  BY <3>b, <3>3, <5>1, <5>2, Zenon DEF Kinds
          <4>2. shm[newSeg[s]["updatable"].key].extract = job[s].extract
              BY <4>1, NewKeys, ZenonT(30) DEF Kinds
          <4>3. CASE job[s].onlyMetric
              <5>1. /\ Find(lastGen, ds, "static")
                    /\ shm[region[lastGen][ds]["static"].key].extract = job[s].extract
                  BY <3>b, <3>d, <4>3, WorkTyped, ZenonT(30) DEF ReadOnlyOK
              <5>2. Matched(ds)'
                  BY <3>a, <4>1, <4>2, <5>1, ZenonT(30) DEF Matched, Find
              <5> QED
                  BY <3>1, <5>2, Zenon DEF Halves
          <4>4. CASE ~job[s].onlyMetric
              <5>1. Swapped(s, "static") /\ Created(s, "static")
                  BY <3>d, <3>3, <4>4, ZenonT(30) DEF Swapped, Created, Wanted
              <5>2. /\ Find(lastGen, ds, "static")
                    /\ region[lastGen][ds]["static"].key = newSeg[s]["static"].key
                  BY <3>b, <5>1, WorkTyped, ZenonT(30) DEF SwappedOK, Kinds
              <5>3. shm[newSeg[s]["static"].key].extract = job[s].extract
                  BY <5>1, NewKeys, SMTT(30) DEF Kinds
              <5>4. Matched(ds)'
                  BY <3>a, <4>1, <4>2, <5>2, <5>3, Zenon DEF Matched, Find
              <5> QED
                  BY <3>1, <5>4, SMTT(30) DEF Halves
          <4> QED
              BY <4>3, <4>4, ZenonT(30)
      <3> QED
          BY <3>2, <3>3, WorkTyped, Zenon
  <2> QED
      BY <2>3, <2>4, <2>5, <2>6, <2>7, StoreActions, ZenonT(30)
(* What a datastore's step must respect of the mapped segments. *)
<1>MappedFrame.
    ASSUME IInv, NEW s \in Stores, \A t \in Stores \ {s} : Untouched(t),
           lastGen' = lastGen, UNCHANGED <<egen, facade, queries>>,
           \A key \in Keys : key \in used[lastGen] => shm'[key] \in {shm[key], NoSegment},
           \A e \in Engines : Protected(e) =>
               \A f \in Holds(e), k \in Kinds :
                   /\ f[k].key \in used'[lastGen]
                   /\ (spc'[s] = "detach" /\ oldSeg'[s][skind'[s]].key = f[k].key) =>
                          f[k] = oldSeg'[s][skind'[s]]
    PROVE  MappedSegments'
  <2> USE <1>MappedFrame
  <2> SUFFICES ASSUME NEW e \in Engines, Protected(e), NEW f \in Holds(e), NEW k \in Kinds
               PROVE  /\ f[k].key \in used'[lastGen]
                      /\ shm'[f[k].key] \in {f[k], NoSegment}
                      /\ \A t \in Stores :
                             (spc'[t] = "detach" /\ oldSeg'[t][skind'[t]].key = f[k].key) =>
                                 f[k] = oldSeg'[t][skind'[t]]
      BY DEF MappedSegments, Protected, Holds
  <2>1. f[k].key \in Keys
      BY HeldTyped, Zenon
  <2>2. f[k].key \in used[lastGen] /\ shm[f[k].key] \in {f[k], NoSegment}
      BY Zenon DEF IInv, MappedSegments
  <2>3. ASSUME NEW t \in Stores, t # s, spc'[t] = "detach", oldSeg'[t][skind'[t]].key = f[k].key
        PROVE  f[k] = oldSeg'[t][skind'[t]]
      BY <2>3 DEF Untouched, IInv, MappedSegments
  <2>4. shm'[f[k].key] \in {f[k], NoSegment}
      BY <2>1, <2>2, Zenon
  <2>5. f[k].key \in used'[lastGen]
      BY Zenon
  <2>6. (spc'[s] = "detach" /\ oldSeg'[s][skind'[s]].key = f[k].key) => f[k] = oldSeg'[s][skind'[s]]
      BY Zenon
  <2> QED
      BY <2>3, <2>4, <2>5, <2>6, Zenon
(* A datastore neither replaces nor releases what an engine has mapped. *)
<1>StoreMapped.
    ASSUME IInv, NEW s \in Stores, StoreNext(s) \/ StoreDies(s)
    PROVE  MappedSegments'
  <2> USE <1>StoreMapped
  <2>1. \A t \in Stores \ {s} : Untouched(t)
      BY ElsewhereAll, SMTT(30)
  <2>2. UNCHANGED <<egen, facade, queries>>
      BY StoreActions, Zenon
  <2>3. \A e \in Engines : Protected(e) => \A f \in Holds(e), k \in Kinds : f[k].key \in used[lastGen]
      BY Zenon DEF IInv, MappedSegments
  <2>4. CASE Start(s) \/ AcquireFileLock(s)
      <3>1. UNCHANGED <<lastGen, used, shm>> /\ spc'[s] # "detach"
          BY <2>4, BeginStored, Zenon
      <3> QED
          BY <2>1, <2>2, <2>3, <3>1, <1>MappedFrame, Zenon
  <2>5. CASE OpenMonitor(s)
      <3>1. UNCHANGED <<used, shm>> /\ spc'[s] # "detach"
          BY <2>5, OpenStored, PlacesTyped, Zenon DEF OpenMonitor, Goto, IInv
      <3>2. CASE lastGen' = lastGen
          BY <2>1, <2>2, <2>3, <3>1, <3>2, <1>MappedFrame, ZenonT(30)
      <3>3. CASE lastGen' # lastGen
          <4>1. lastGen' > lastGen /\ lastGen' \in Nat
              BY <2>5, <3>3, OpenStored, ConstantsTyped, Zenon
          <4>2. \A e \in Engines : egen[e] = lastGen' => Holds(e) = {}
              BY <4>1, NewGeneration, Zenon
          <4> QED
              BY <2>2, <4>2, Zenon DEF MappedSegments, Protected, Holds
      <3> QED
          BY <3>2, <3>3, Zenon
  <2>6. CASE Ends(s)
      <3>1. UNCHANGED <<lastGen, used>> /\ spc'[s] # "detach"
            /\ \A key \in Keys : shm'[key] \in {shm[key], NoSegment}
          BY <2>6, EndsFrame, EndsStored, ZenonT(30)
      <3> QED
          BY <2>1, <2>2, <2>3, <3>1, <1>MappedFrame, Zenon
  <2>7. CASE \/ AttachStatic(s) \/ Populate(s) \/ SwapLock(s) \/ NotifyEngines(s) \/ NotifyReturns(s)
             \/ SkipOld(s)
      <3>1. UNCHANGED <<lastGen, used, shm>>
          BY <2>7, MoveWork, ZenonT(30)
      <3>2. spc'[s] # "detach"
          BY <2>7, PlacesTyped, Zenon DEF AttachStatic, Populate, SwapLock, NotifyEngines, NotifyReturns,
                                   SkipOld, NextHandle, Goto, IInv
      <3> QED
          BY <2>1, <2>2, <2>3, <3>1, <3>2, <1>MappedFrame, ZenonT(30)
  <2>8. CASE SetupRegion(s)
      <3>1. lastGen' = lastGen
            /\ \A key \in used[lastGen] : shm'[key] = shm[key] /\ key \in used'[lastGen]
          BY <2>8, SetupWork, Zenon
      <3>2. spc'[s] # "detach"
          BY <2>8, PlacesTyped, Zenon DEF SetupRegion, NextHandle, Goto, IInv
      <3> QED
          BY <2>1, <2>2, <2>3, <3>1, <3>2, <1>MappedFrame, Zenon
  <2>9. CASE PublishRegion(s)
      <3>1. UNCHANGED <<lastGen, used, shm>> /\ spc'[s] # "detach"
          BY <2>9, PublishEffect, Zenon
      <3> QED
          BY <2>1, <2>2, <2>3, <3>1, <1>MappedFrame, SMTT(30)
  <2>10. CASE RemoveOld(s)
      <3>1. UNCHANGED <<lastGen, used, oldSeg, skind>>
          BY <2>10, RemoveWork, Zenon
      <3>2. \A key \in Keys : shm'[key] \in {shm[key], NoSegment}
          BY <2>10, RemoveWork, ZenonT(30) DEF IInv, TypeOK, SharedTypeOK
      <3>3. shm[oldSeg[s][skind[s]].key] = oldSeg[s][skind[s]] /\ oldSeg[s][skind[s]] # NoSegment
          BY <2>10, RemoveWork, Zenon
      <3>4. ASSUME NEW e \in Engines, Protected(e), NEW f \in Holds(e), NEW k \in Kinds,
                   oldSeg[s][skind[s]].key = f[k].key
            PROVE  f[k] = oldSeg[s][skind[s]]
          BY <3>3, <3>4, ZenonT(30) DEF IInv, MappedSegments
      <3> QED
          BY <2>1, <2>2, <2>3, <3>1, <3>2, <3>4, <1>MappedFrame, ZenonT(30)
  <2>11. CASE WaitForDetach(s, Attached)
      <3>1. UNCHANGED <<lastGen, shm>> /\ spc'[s] # "detach" /\ spc[s] = "detach"
            /\ used'[lastGen] = used[lastGen] \ {oldSeg[s][skind[s]].key}
            /\ oldSeg[s][skind[s]] \notin Attached
          BY <2>11, DetachWork, Zenon
      <3>2. ASSUME NEW e \in Engines, Protected(e), NEW f \in Holds(e), NEW k \in Kinds
            PROVE  f[k].key # oldSeg[s][skind[s]].key
          <4>1. f[k] \in Attached
              BY HeldTyped, Zenon DEF Attached
          <4>2. oldSeg[s][skind[s]].key = f[k].key => f[k] = oldSeg[s][skind[s]]
              BY <3>1, <3>2, SMTT(30) DEF IInv, MappedSegments
          <4> QED
              BY <3>1, <4>1, <4>2, Zenon
      <3> QED
          BY <2>1, <2>2, <2>3, <3>1, <3>2, <1>MappedFrame, SMTT(30)
  <2> QED
      BY <2>4, <2>5, <2>6, <2>7, <2>8, <2>9, <2>10, <2>11, StoreActions, ZenonT(30) DEF Inner
(* A new generation of the block has no engine yet. *)
<1>StoreOpened.
    ASSUME IInv, NEW s \in Stores, StoreNext(s) \/ StoreDies(s)
    PROVE  Opened' /\ FacadesConsistent'
  <2> USE <1>StoreOpened
  <2>1. UNCHANGED <<wpc, egen, eds, facade, queries>>
      BY StoreActions, Zenon
  <2>2. CASE lastGen' = lastGen
      BY <2>1, <2>2, Zenon DEF Opened, FacadesConsistent, Protected, Holds, IInv
  <2>3. CASE lastGen' # lastGen
      <3>1. lastGen' > lastGen /\ lastGen' \in Nat
          BY <2>3, StoreActions, InnerFrame, EndsFrame, BeginStored, OpenStored, ConstantsTyped, ZenonT(30)
      <3>2. \A e \in Engines : egen[e] = lastGen' => Holds(e) = {}
          BY <3>1, NewGeneration
      <3>3. FacadesConsistent'
          BY <2>1, <3>2, Zenon DEF FacadesConsistent, Protected, Holds
      <3>4. \A e \in Engines : egen[e] <= lastGen => egen[e] <= lastGen'
          <4>1. lastGen \in Nat
              BY ConstantsTyped DEF IInv, TypeOK, SharedTypeOK
          <4>2. \A e \in Engines : egen[e] \in Nat
              BY ConstantsTyped, PlacesTyped, Zenon DEF IInv
          <4> QED
              BY <3>1, <4>1, <4>2, SMTT(30)
      <3>5. Opened'
          BY <2>1, <3>4, Zenon DEF Opened, IInv
      <3> QED
          BY <3>3, <3>5, Zenon
  <2> QED
      BY <2>2, <2>3, Zenon
(* Publishing leaves the engines' copies older than the register. *)
<1>StoreCopies.
    ASSUME IInv, NEW s \in Stores, StoreNext(s) \/ StoreDies(s)
    PROVE  Copies'
  <2> USE <1>StoreCopies
  <2>1. UNCHANGED <<wpc, egen, eds, copy, facade, queries, active, mpc>>
      BY StoreActions, Zenon
  <2>2. CASE UNCHANGED <<lastGen, region>> /\ Kept
      BY <2>1, <2>2, <1>CopiesFrame, Zenon
  <2>3. CASE OpenMonitor(s) /\ lastGen' # lastGen
      <3>1. lastGen' > lastGen /\ lastGen' \in Nat
          BY <2>3, OpenStored, ConstantsTyped, Zenon
      <3>2. \A e \in Engines : egen[e] = lastGen' => facade[e] = NoFacade
          BY <3>1, NewGeneration, Zenon
      <3> QED
          BY <2>1, <3>2, Zenon DEF Copies, Protected
  <2>4. CASE PublishRegion(s)
      <3>a. /\ UNCHANGED <<lastGen, shm>> /\ lastGen \in Gens /\ lastGen # 0
            /\ spc[s] = "publish" /\ sgen[s] = lastGen
          BY <2>4, PublishEffect, Zenon
      <3>1. UNCHANGED <<lastGen, shm>> /\ lastGen \in Gens /\ owner[lastGen] = Store(s)
            /\ lastGen # 0
          BY <3>a, Zenon DEF IInv, Mutex
      <3>2. PICK ds \in Datasets : ds = job[s].ds
          BY WorkTyped, Zenon
      <3>3. PICK kind \in Kinds : kind = skind[s] /\ Created(s, kind) /\ ~Swapped(s, kind)
          BY <2>4, PublishEffect, ZenonT(30)
      <3>4. /\ region'[lastGen][ds][kind].key = newSeg[s][kind].key
            /\ region'[lastGen][ds][kind].timestamp = region[lastGen][ds][kind].timestamp + 1
            /\ \A d \in Datasets, k \in Kinds :
                   (d # ds \/ k # kind) => region'[lastGen][d][k] = region[lastGen][d][k]
          <4>1. /\ region'[lastGen][job[s].ds][skind[s]].key = newSeg[s][skind[s]].key
                /\ region'[lastGen][job[s].ds][skind[s]].timestamp
                       = region[lastGen][job[s].ds][skind[s]].timestamp + 1
              BY <2>4, PublishEffect, Zenon
          <4>2. \A d \in Datasets, k \in Kinds :
                    (d # job[s].ds \/ k # skind[s]) => region'[lastGen][d][k] = region[lastGen][d][k]
              BY <2>4, PublishEffect, Zenon
          <4> QED
              BY <3>2, <3>3, <4>1, <4>2, Zenon
      <3> SUFFICES ASSUME NEW e \in Engines, Protected(e), facade[e] # NoFacade, NEW k \in Kinds
                   PROVE  /\ region'[lastGen][eds[e]][k].timestamp # 0
                          /\ copy[e][k].timestamp <= region'[lastGen][eds[e]][k].timestamp
                          /\ copy[e][k].timestamp = region'[lastGen][eds[e]][k].timestamp =>
                                 copy[e][k] = region'[lastGen][eds[e]][k]
                          /\ wpc[e] # "swap"
                          /\ facade[e][k].run <= shm[region'[lastGen][eds[e]][k].key].run
          BY <2>1, <3>1, Zenon DEF Copies, Protected, Find
      <3>5. wpc[e] # "swap"
          <4>1. owner[lastGen] # Watch(e) /\ egen[e] = lastGen /\ Mutex
              BY <3>1, OwnersDiffer, Zenon DEF IInv, Protected
          <4> QED
              BY <4>1, Zenon DEF Mutex
      <3>6. eds[e] \in Datasets /\ copy[e][k] \in Regions
          BY Zenon DEF IInv, TypeOK, EngineTypeOK
      <3>7. /\ region[lastGen][eds[e]][k].timestamp # 0
            /\ copy[e][k].timestamp <= region[lastGen][eds[e]][k].timestamp
            /\ copy[e][k].timestamp = region[lastGen][eds[e]][k].timestamp =>
                   copy[e][k] = region[lastGen][eds[e]][k]
            /\ facade[e][k].run <= shm[region[lastGen][eds[e]][k].key].run
          BY Zenon DEF IInv, Copies, Find
      <3>8. CASE eds[e] = ds /\ k = kind
          <4>1. copy[e][k].timestamp \in Nat /\ region[lastGen][ds][kind].timestamp \in Nat
              BY <3>1, <3>6, RegionsTyped, ZenonT(30) DEF Regions, IInv
          <4>2. shm[newSeg[s][kind].key].run = run[s] /\ run[s] \in Nat
              <5>1. shm[newSeg[s][kind].key] = newSeg[s][kind] /\ newSeg[s][kind].run = run[s]
                    /\ run[s] \in Nat
                  BY <3>3, NewKeys, Zenon
              <5> QED
                  BY <5>1, Zenon
          <4>3. Find(lastGen, ds, kind) /\ Holding(s)
              BY <2>4, <3>7, <3>8, PublishEffect, Zenon DEF Find
          <4>4. shm[region[lastGen][ds][kind].key].run < run[s]
                /\ shm[region[lastGen][ds][kind].key].run \in Nat
              BY <3>1, <3>3, <4>3, WorkTyped, RegisteredKeys, ZenonT(30) DEF EarlierOK
          <4>5. facade[e][k].run \in Nat
              <5>1. facade[e] \in Holds(e)
                  BY ZenonT(30) DEF Holds
              <5> QED
                  BY <5>1, HeldTyped, Zenon
          <4>6. facade[e][k].run <= shm[newSeg[s][kind].key].run
              <5>1. /\ facade[e][k].run <= shm[region[lastGen][ds][kind].key].run
                    /\ shm[newSeg[s][kind].key].run = run[s]
                  BY <3>7, <3>8, <4>2, Zenon
              <5>2. \A a, b, c : a \in Nat /\ b \in Nat /\ c \in Nat /\ a <= b /\ b < c => a <= c
                  BY SMTT(30)
              <5> QED
                  BY <4>2, <4>4, <4>5, <5>1, <5>2, Zenon
          <4>7. /\ copy[e][k].timestamp < region[lastGen][ds][kind].timestamp + 1
                /\ region[lastGen][ds][kind].timestamp + 1 # 0
                /\ copy[e][k].timestamp <= region[lastGen][ds][kind].timestamp + 1
                /\ copy[e][k].timestamp # region[lastGen][ds][kind].timestamp + 1
              BY <3>7, <3>8, <4>1, SMTT(30)
          <4> QED
              BY <3>4, <3>5, <3>8, <4>6, <4>7, ZenonT(30)
      <3>9. CASE eds[e] # ds \/ k # kind
          <4>1. region'[lastGen][eds[e]][k] = region[lastGen][eds[e]][k]
              BY <3>4, <3>6, <3>9, Zenon
          <4> QED
              BY <3>5, <3>7, <4>1, Zenon
      <3> QED
          BY <3>8, <3>9, Zenon
  <2>5. CASE Inner(s) /\ ~PublishRegion(s)
      <3>1. Kept /\ lastGen' = lastGen
          BY <2>5, InnerStored, InnerFrame, Zenon
      <3>2. UNCHANGED region
          BY <2>5, Zenon DEF Inner, AttachStatic, SetupRegion, Populate, SwapLock, NotifyEngines,
                      NotifyReturns, SkipOld, RemoveOld, WaitForDetach, shared, register
      <3> QED
          BY <2>2, <3>1, <3>2, Zenon
  <2> QED
      BY <2>2, <2>3, <2>4, <2>5, StoreActions, BeginStored, OpenStored, EndsStored, EndsFrame, ZenonT(30)
(* The four conjuncts of IInv about engines, engine by engine. *)
<1>Views. (Opened /\ Copies /\ MappedSegments /\ FacadesConsistent) <=> AllViews
  <2>1. Opened <=> \A e \in Engines : Phase(e)
      BY Zenon DEF Opened, Phase
  <2>2. Copies <=> \A e \in Engines :
                       (Protected(e) /\ facade[e] # NoFacade) => \A k \in Kinds : CopyOK(e, k)
      BY Zenon DEF Copies, CopyOK
  <2>3. MappedSegments <=> \A e \in Engines :
                               Protected(e) => \A f \in Holds(e), k \in Kinds : SegmentOK(f[k])
      BY Zenon DEF MappedSegments, SegmentOK
  <2> QED
      BY <2>1, <2>2, <2>3, Zenon DEF AllViews, View, FacadesConsistent
(* The engines that do not take the step. *)
<1>ViewAside.
    ASSUME NEW f \in Engines, View(f), Aside(f), Elsewhere
    PROVE  View(f)'
  <2> USE <1>ViewAside
  <2>1. (Protected(f)' <=> Protected(f)) /\ Holds(f)' = Holds(f)
      BY Zenon DEF Aside, Elsewhere, Protected, Holds
  <2>2. Phase(f)'
      BY Zenon DEF View, Phase, Aside, Elsewhere
  <2>3. \A k \in Kinds : CopyOK(f, k) => CopyOK(f, k)'
      BY Zenon DEF CopyOK, Aside, Elsewhere, Find
  <2>4. \A h \in Holds(f), k \in Kinds : SegmentOK(h[k]) => SegmentOK(h[k])'
      BY Zenon DEF SegmentOK, Elsewhere
  <2>5. \A h \in Holds(f) : Consistent(h, eds[f]) => Consistent(h, eds'[f])
      BY Zenon DEF Aside
  <2>6. facade'[f] = facade[f]
      BY Zenon DEF Aside
  <2>7. (Protected(f)' /\ facade'[f] # NoFacade) => \A k \in Kinds : CopyOK(f, k)'
      BY <2>1, <2>3, <2>6, Zenon DEF View
  <2>8. Protected(f)' => \A h \in Holds(f)' : /\ \A k \in Kinds : SegmentOK(h[k])'
                                              /\ Consistent(h, eds'[f])
      BY <2>1, <2>4, <2>5, Zenon DEF View
  <2> QED
      BY <2>2, <2>7, <2>8, Zenon DEF View
(* A step of the watcher thread or of the destructor that changes no data *)
<1>ViewMoves.
    ASSUME NEW e \in Engines, View(e), Elsewhere,
           egen'[e] = egen[e], eds'[e] = eds[e], copy'[e] = copy[e], facade'[e] = facade[e],
           queries'[e] \subseteq Holds(e), facade[e] = NoFacade => queries'[e] = {},
           wpc'[e] = "off" <=> wpc[e] = "off",
           wpc'[e] \in {"off", "start", "init"} <=> wpc[e] \in {"off", "start", "init"},
           wpc'[e] = "swap" => wpc[e] = "swap"
    PROVE  View(e)'
  <2> USE <1>ViewMoves
  <2>1. (Protected(e)' <=> Protected(e)) /\ Holds(e)' \subseteq Holds(e)
      BY Zenon DEF Elsewhere, Protected, Holds
  <2>2. Phase(e)'
      BY Zenon DEF View, Phase, Elsewhere
  <2>3. \A k \in Kinds : CopyOK(e, k) => CopyOK(e, k)'
      BY Zenon DEF CopyOK, Elsewhere, Find
  <2>4. \A h \in Holds(e), k \in Kinds : SegmentOK(h[k]) => SegmentOK(h[k])'
      BY ZenonT(30) DEF SegmentOK, Elsewhere
  <2>7. (Protected(e)' /\ facade'[e] # NoFacade) => \A k \in Kinds : CopyOK(e, k)'
      BY <2>1, <2>3, Zenon DEF View
  <2>8. Protected(e)' => \A h \in Holds(e)' : /\ \A k \in Kinds : SegmentOK(h[k])'
                                              /\ Consistent(h, eds'[e])
      BY <2>1, <2>4, Zenon DEF View
  <2> QED
      BY <2>2, <2>7, <2>8, ZenonT(30) DEF View
(* A process that has loaded no data *)
<1>ViewEmpty.
    ASSUME NEW e \in Engines, wpc'[e] \in {"off", "start"}, facade'[e] = NoFacade, queries'[e] = {},
           wpc'[e] = "start" => egen'[e] <= lastGen'
    PROVE  View(e)'
  <2> USE <1>ViewEmpty
  <2>1. Phase(e)'
      BY Zenon DEF Phase
  <2>2. Holds(e)' = {}
      BY Zenon DEF Holds
  <2> QED
      BY <2>1, <2>2, Zenon DEF View
(* Under the mutex the halves of a dataset fit. *)
<1>MutexMatched.
    ASSUME IInv, NEW e \in Engines, lastGen # 0, owner[lastGen] = Watch(e), NEW d \in Datasets
    PROVE  Matched(d)
  <2> USE <1>MutexMatched
  <2>1. owner[lastGen] # Abandoned
      BY OwnersDiffer, Zenon
  <2>2. ASSUME NEW s \in Stores, HalfPublished(s, d) PROVE FALSE
      <3>1. spc[s] = "publish" /\ Running(s)
          BY <2>2, Zenon DEF HalfPublished, Running
      <3>2. owner[lastGen] = Store(s)
          BY <3>1, Zenon DEF IInv, Mutex, Serial
      <3> QED
          BY <3>2, OwnersDiffer, Zenon
  <2> QED
      BY <2>1, <2>2, Zenon DEF IInv, Halves
(* A facade that is made from the register under the mutex *)
<1>FreshFacade.
    ASSUME IInv, NEW e \in Engines, lastGen # 0, owner[lastGen] = Watch(e), NEW d \in Datasets,
           \A k \in Kinds : Find(lastGen, d, k)
    PROVE  LET f == Map(region[lastGen][d]) IN
           /\ \A k \in Kinds : SegmentOK(f[k]) /\ f[k] = shm[region[lastGen][d][k].key]
           /\ Consistent(f, d)
  <2> USE <1>FreshFacade
  <2> DEFINE f == Map(region[lastGen][d])
  <2>1. \A k \in Kinds : f[k] = shm[region[lastGen][d][k].key]
      BY ZenonT(30) DEF Map
  <2>2. ASSUME NEW k \in Kinds
        PROVE  /\ f[k].key = region[lastGen][d][k].key /\ f[k].key \in used[lastGen]
               /\ f[k] # NoSegment /\ f[k].ds = d /\ f[k].kind = k
      <3>1. Find(lastGen, d, k)
          BY Zenon
      <3>2. LET key == region[lastGen][d][k].key IN
            /\ key \in used[lastGen] /\ shm[key] # NoSegment /\ shm[key].key = key
            /\ shm[key].ds = d /\ shm[key].kind = k
          BY <3>1, RegisteredKeys, ZenonT(30)
      <3> QED
          BY <2>1, <3>2, Zenon
  <2>3. ASSUME NEW k \in Kinds, NEW s \in Stores, spc[s] = "detach",
               oldSeg[s][skind[s]].key = f[k].key
        PROVE  FALSE
      <3>1. skind[s] \in Kinds
          BY PlacesTyped, Zenon DEF IInv
      <3>2. oldSeg[s][skind[s]] # NoSegment
          BY <2>3, Zenon DEF IInv, Handles, Work, DetachOK
      <3>3. shm[oldSeg[s][skind[s]].key] = NoSegment
          BY <2>3, <3>1, <3>2, ZenonT(30) DEF IInv, Handles, Work, OldOK
      <3> QED
          <4>1. f[k] = shm[region[lastGen][d][k].key] /\ f[k] # NoSegment
                /\ f[k].key = region[lastGen][d][k].key
              BY <2>1, <2>2, Zenon
          <4>2. shm[f[k].key] = NoSegment
              BY <2>3, <3>3, Zenon
          <4> HIDE DEF f
          <4> QED
              BY <4>1, <4>2, Zenon
  <2>4. \A k \in Kinds : SegmentOK(f[k])
      BY <2>1, <2>2, <2>3, ZenonT(30) DEF SegmentOK
  <2>5. Consistent(f, d)
      <3>1. "static" \in Kinds /\ "updatable" \in Kinds
          BY Zenon DEF Kinds
      <3>2. f["static"].extract = f["updatable"].extract
          BY <2>1, <3>1, <1>MutexMatched, Zenon DEF Matched
      <3> QED
          BY <2>2, <3>2, Zenon DEF Consistent
  <2> QED
      BY <2>1, <2>4, <2>5, Zenon
(* The step that gives the engine this facade *)
<1>ViewFresh.
    ASSUME IInv, NEW e \in Engines, Elsewhere, owner[egen[e]] = Watch(e),
           egen[e] <= lastGen, egen'[e] = egen[e], eds'[e] = eds[e], wpc'[e] = "lock",
           facade'[e] # NoFacade,
           Protected(e) => /\ \A k \in Kinds : Find(lastGen, eds[e], k)
                           /\ copy'[e] = region[lastGen][eds[e]]
                           /\ facade'[e] = Map(region[lastGen][eds[e]]),
           queries'[e] = queries[e]
    PROVE  View(e)'
  <2> USE <1>ViewFresh
  <2>1. Phase(e)'
      BY Zenon DEF Phase, Elsewhere
  <2>2. CASE ~Protected(e)
      BY <2>1, <2>2, Zenon DEF View, Protected, Elsewhere
  <2>3. CASE Protected(e)
      <3>1. lastGen \in Gens /\ lastGen # 0 /\ eds[e] \in Datasets /\ owner[lastGen] = Watch(e)
          <4>1. lastGen \in Gens /\ eds[e] \in Datasets /\ owner[lastGen] = Watch(e)
              BY <2>3, PlacesTyped, Zenon DEF Protected, IInv, TypeOK, EngineTypeOK
          <4>2. lastGen # 0
              BY <4>1 DEF Gens
          <4> QED
              BY <4>1, <4>2, Zenon
      <3>2. /\ \A k \in Kinds : /\ SegmentOK(facade'[e][k])
                                /\ facade'[e][k] = shm[region[lastGen][eds[e]][k].key]
            /\ Consistent(facade'[e], eds[e])
          BY <2>3, <3>1, <1>FreshFacade, ZenonT(30)
      <3>3. ASSUME NEW k \in Kinds PROVE CopyOK(e, k)'
          <4>1. copy'[e][k] = region[lastGen][eds[e]][k] /\ Find(lastGen, eds[e], k)
              BY <2>3, Zenon
          <4>2. region[lastGen][eds[e]][k].timestamp \in Nat
              BY <3>1, RegionsTyped, Zenon DEF IInv
          <4>3. facade'[e][k].run \in Nat /\ facade'[e][k].run = shm[region[lastGen][eds[e]][k].key].run
              BY <3>1, <3>2, <4>1, RegisteredKeys, ZenonT(30)
          <4>4. /\ region'[lastGen'][eds'[e]][k] = region[lastGen][eds[e]][k]
                /\ shm'[region'[lastGen'][eds'[e]][k].key] = shm[region[lastGen][eds[e]][k].key]
              BY Zenon DEF Elsewhere
          <4>5. Find(lastGen, eds[e], k)' /\ copy'[e][k] = region'[lastGen'][eds'[e]][k]
              BY <4>1, <4>4, Zenon DEF Find
          <4>6. /\ copy'[e][k].timestamp <= region'[lastGen'][eds'[e]][k].timestamp
                /\ facade'[e][k].run <= shm'[region'[lastGen'][eds'[e]][k].key].run
              <5>1. \A n \in Nat : n <= n
                  OBVIOUS
              <5>2. copy'[e][k].timestamp \in Nat
                  BY <4>1, <4>2, ZenonT(30)
              <5>3. copy'[e][k].timestamp = region'[lastGen'][eds'[e]][k].timestamp
                  BY <4>5, Zenon
              <5>4. facade'[e][k].run = shm'[region'[lastGen'][eds'[e]][k].key].run
                  BY <4>3, <4>4, ZenonT(30)
              <5> QED
                  BY <4>3, <5>1, <5>2, <5>3, <5>4, ZenonT(30)
          <4> QED
              BY <4>5, <4>6, Zenon DEF CopyOK
      <3>5. ASSUME NEW h \in Holds(e)'
            PROVE  (\A k \in Kinds : SegmentOK(h[k])) /\ Consistent(h, eds[e])
          <4>1. h \in Holds(e) \/ h = facade'[e]
              BY Zenon DEF Holds
          <4>2. CASE h \in Holds(e)
              BY <2>3, <4>2, ZenonT(30) DEF IInv, MappedSegments, FacadesConsistent, SegmentOK
          <4> QED
              BY <3>2, <4>1, <4>2, Zenon
      <3>6. \A h \in Holds(e)' : \A k \in Kinds : SegmentOK(h[k])'
          BY <3>5, Zenon DEF SegmentOK, Elsewhere
      <3> QED
          BY <2>1, <3>3, <3>5, <3>6, ZenonT(30) DEF View
  <2> QED
      BY <2>2, <2>3, Zenon
(* Every step of an engine keeps its own view and that of the others. *)
<1>EngineView.
    ASSUME IInv, NEW e \in Engines, EngineNext(e)
    PROVE  View(e)'
  <2> USE <1>EngineView
  <2>1. EngineStep(e) /\ UNCHANGED storeVars
      BY Zenon DEF EngineNext, OnlyEngine
  <2>2. UNCHANGED <<current, lastGen, region, used, shm>>
      BY <2>1, EngineElsewhere, Zenon DEF block, register
  <2>3. Elsewhere
      BY <2>1, <2>2, Zenon DEF Elsewhere, storeVars
  <2>4. View(e)
      BY <1>Views, Zenon DEF AllViews, IInv
  <2>t. /\ wpc \in [Engines -> WatchLocations] /\ egen \in [Engines -> Gens]
        /\ eds \in [Engines -> Datasets] /\ copy \in [Engines -> [Kinds -> Regions]]
        /\ facade \in [Engines -> Facades \cup {NoFacade}]
        /\ queries \in [Engines -> SUBSET Facades]
        /\ lastGen \in Nat
      BY ConstantsTyped DEF IInv, TypeOK, EngineTypeOK, SharedTypeOK
  <2>p. Phase(e)
      BY <2>4, Zenon DEF View
  <2>5. CASE InitLock(e) \/ WatchLock(e) \/ WakeUp(e) \/ Sleep(e) \/ StopUnlocked(e) \/ StopLocked(e)
      <3>1. UNCHANGED <<egen, eds, copy, facade, queries>>
          BY <2>5, Zenon DEF InitLock, WatchLock, WakeUp, Sleep, StopUnlocked, StopLocked, data
      <3>2. /\ wpc[e] \in {"start", "lock", "waiting", "check"}
            /\ wpc'[e] \in {"init", "check", "waiting", "done"}
            /\ wpc'[e] = "init" <=> wpc[e] = "start"
          BY <2>5, <2>t, Zenon DEF InitLock, WatchLock, WakeUp, Sleep, StopUnlocked, StopLocked, WatchGoto
      <3> QED
          BY <2>3, <2>4, <2>p, <3>1, <3>2, <1>ViewMoves, ZenonT(30) DEF Holds, Phase
  <2>6. CASE Shutdown(e) \/ DestructorNotify(e) \/ DestructorNotified(e)
      <3>1. UNCHANGED <<wpc, egen, eds, copy, facade, queries>>
          BY <2>6, Zenon DEF Shutdown, DestructorNotify, DestructorNotified, data
      <3> QED
          BY <2>3, <2>4, <2>p, <3>1, <1>ViewMoves, ZenonT(30) DEF Holds, Phase
  <2>7. CASE QueryBegins(e) \/ \E f \in queries[e] : QueryEnds(e, f)
      <3>1. UNCHANGED <<wpc, egen, eds, copy, facade>>
          BY <2>7, ZenonT(30) DEF QueryBegins, QueryEnds
      <3>2. queries'[e] \subseteq Holds(e) /\ (facade[e] = NoFacade => queries'[e] = {})
          BY <2>7, <2>t, <2>p, SMTT(30) DEF QueryBegins, QueryEnds, Holds, Phase
      <3> QED
          BY <2>3, <2>4, <3>1, <3>2, <1>ViewMoves, ZenonT(30)
  <2>8. CASE InitThrows(e) \/ SwapThrows(e) \/ Join(e)
      <3>1. Gone(e)
          BY <2>8, Zenon DEF InitThrows, SwapThrows, Join
      <3>2. wpc'[e] = "off" /\ facade'[e] = NoFacade /\ queries'[e] = {}
          BY <2>t, <3>1, Zenon DEF Gone, WatchGoto
      <3> QED
          BY <3>2, <1>ViewEmpty, ZenonT(30)
  <2>9. CASE OpenBlock(e)
      <3>1. wpc'[e] = "start" /\ wpc[e] = "off" /\ UNCHANGED <<facade, queries>> /\ egen'[e] = current
            /\ current # 0
          BY <2>9, <2>t, ZenonT(30) DEF OpenBlock, WatchGoto, data
      <3>2. current <= lastGen
          BY <2>t, <3>1, SMTT(30) DEF IInv, Serial
      <3> QED
          BY <2>2, <2>p, <3>1, <3>2, <1>ViewEmpty, ZenonT(30) DEF Phase
  <2>10. CASE InitFacade(e)
      <3>1. wpc[e] = "init" /\ wpc'[e] = "lock" /\ UNCHANGED <<egen, eds, queries>>
          BY <2>10, <2>t, Zenon DEF InitFacade, WatchGoto
      <3>2. owner[egen[e]] = Watch(e) /\ egen[e] <= lastGen
          BY <2>p, <3>1, ZenonT(30) DEF IInv, Mutex, Phase
      <3>3. /\ copy'[e] = region[egen[e]][eds[e]] /\ facade'[e] = Map(region[egen[e]][eds[e]])
            /\ CanMap(region[egen[e]][eds[e]]) /\ \A k \in Kinds : Find(egen[e], eds[e], k)
          BY <2>10, <2>t, ZenonT(30) DEF InitFacade, Registered
      <3>4. region[egen[e]][eds[e]] \in [Kinds -> Regions]
          BY <2>t DEF IInv, TypeOK, SharedTypeOK
      <3>5. facade'[e] # NoFacade
          BY <3>3, <3>4, MapTyped, NoFacadeAssumption, ZenonT(30) DEF IInv
      <3> QED
          BY <2>3, <3>1, <3>2, <3>3, <3>5, <1>ViewFresh, ZenonT(30) DEF Protected
  <2>11. CASE SwapFacade(e)
      <3>1. wpc[e] = "swap" /\ wpc'[e] = "lock" /\ UNCHANGED <<egen, eds, copy, queries>>
          BY <2>11, <2>t, ZenonT(30) DEF SwapFacade, WatchGoto
      <3>2. owner[egen[e]] = Watch(e) /\ egen[e] <= lastGen /\ facade[e] # NoFacade
          BY <2>p, <3>1, Zenon DEF IInv, Mutex, Phase
      <3>3. facade'[e] = Map(copy[e]) /\ CanMap(copy[e]) /\ copy[e] \in [Kinds -> Regions]
          BY <2>11, <2>t, Zenon DEF SwapFacade
      <3>4. facade'[e] # NoFacade
          BY <3>3, MapTyped, NoFacadeAssumption, ZenonT(30) DEF IInv
      <3>5. ASSUME Protected(e)
            PROVE  (\A k \in Kinds : Find(lastGen, eds[e], k)) /\ copy[e] = region[lastGen][eds[e]]
          <4>1. \A k \in Kinds : /\ Find(lastGen, eds[e], k)
                                 /\ copy[e][k] = region[lastGen][eds[e]][k]
              BY <2>4, <3>1, <3>2, <3>5, ZenonT(30) DEF View, CopyOK
          <4>2. region[lastGen][eds[e]] \in [Kinds -> Regions]
              BY <2>t, <3>5, SMTT(30) DEF IInv, TypeOK, SharedTypeOK, Protected
          <4> QED
              BY <3>3, <4>1, <4>2, SMTT(30)
      <3> QED
          BY <2>3, <3>1, <3>2, <3>3, <3>4, <3>5, <1>ViewFresh, ZenonT(30)
  <2>12. CASE CopyRegions(e)
      <3>1. wpc[e] = "check" /\ wpc'[e] = "swap" /\ UNCHANGED <<egen, eds, facade, queries>>
          BY <2>12, <2>t, Zenon DEF CopyRegions, WatchGoto
      <3>2. Phase(e)'
          BY <2>2, <2>p, <3>1, Zenon DEF Phase
      <3>3. \A k \in Kinds : copy'[e][k] = IF Changed(e, k) THEN region[egen[e]][eds[e]][k]
                                                            ELSE copy[e][k]
          BY <2>12, <2>t, Zenon DEF CopyRegions
      <3>4. ASSUME Protected(e), facade[e] # NoFacade, NEW k \in Kinds PROVE CopyOK(e, k)'
          <4>1. CopyOK(e, k)
              BY <2>4, <3>4, ZenonT(30) DEF View
          <4>2. copy'[e][k] = region[lastGen][eds[e]][k]
              BY <3>3, <3>4, <4>1, ZenonT(30) DEF Changed, Protected, CopyOK
          <4>3. region[lastGen][eds[e]][k].timestamp \in Nat
              BY <2>t, <3>4, RegionsTyped, ZenonT(30) DEF IInv, Protected
          <4>4. /\ region'[lastGen'][eds'[e]][k] = region[lastGen][eds[e]][k]
                /\ shm'[region'[lastGen'][eds'[e]][k].key] = shm[region[lastGen][eds[e]][k].key]
              BY <2>2, <3>1, Zenon
          <4>5. Find(lastGen, eds[e], k)' /\ facade'[e] = facade[e]
              BY <3>1, <4>1, <4>4, ZenonT(30) DEF Find, CopyOK
          <4>6. copy'[e][k].timestamp <= region'[lastGen'][eds'[e]][k].timestamp
              <5>1. \A n \in Nat : n <= n
                  OBVIOUS
              <5>2. copy'[e][k].timestamp \in Nat
                  BY <4>2, <4>3, ZenonT(30)
              <5>3. copy'[e][k].timestamp = region'[lastGen'][eds'[e]][k].timestamp
                  BY <4>2, <4>4, ZenonT(30)
              <5> QED
                  BY <5>1, <5>2, <5>3, ZenonT(30)
          <4> QED
              BY <4>1, <4>2, <4>4, <4>5, <4>6, ZenonT(30) DEF CopyOK
      <3>5. (Protected(e)' <=> Protected(e)) /\ Holds(e)' = Holds(e)
          BY <2>2, <3>1, ZenonT(30) DEF Protected, Holds
      <3>6. \A h \in Holds(e), k \in Kinds : SegmentOK(h[k]) => SegmentOK(h[k])'
          BY <2>3, Zenon DEF SegmentOK, Elsewhere
      <3> QED
          BY <2>4, <3>1, <3>2, <3>4, <3>5, <3>6, ZenonT(30) DEF View
  <2> QED
      BY <2>1, <2>5, <2>6, <2>7, <2>8, <2>9, <2>10, <2>11, <2>12, ZenonT(30) DEF EngineStep, EngineProgress
(* A step that changes no datastore, no register and no segment *)
<1>QuietStep.
    ASSUME IInv, [Next]_vars, UNCHANGED <<lastGen, region, used, shm, storeVars>>,
           current' \in {0, current}
    PROVE  Serial' /\ SegmentsNamed' /\ KeysInUse' /\ RegisteredIsMapped' /\ Handles' /\ Halves'
  <2> USE <1>QuietStep
  <2>1. UNCHANGED <<fileLock, spc, skind, sgen, job, run, newSeg, oldSeg, roSeg, runs, turns>>
      BY Zenon DEF storeVars
  <2>2. Stored' /\ Kept
      <3>1. turns \in Nat
          BY ZenonT(30) DEF IInv, TypeOK, StoreTypeOK
      <3>2. turns' \in Nat /\ turns' >= turns
          BY <2>1, <3>1, SMTT(30)
      <3> QED
          BY <3>2, StoredFrame, Zenon
  <2>3. Handles'
      <3>1. \A t \in Stores : Untouched(t)
          BY <2>1, Zenon DEF Untouched
      <3> QED
          BY <3>1, <1>WorkFrame, Zenon DEF Handles, IInv
  <2>4. Halves'
      <3>1. \A t \in Stores, d \in Datasets : HalfPublished(t, d) => HalfPublished(t, d)'
          BY <2>1, Zenon DEF HalfPublished
      <3> QED
          BY <2>2, <3>1, <1>HalvesFrame, Zenon
  <2>5. Serial'
      BY <2>1, Zenon DEF IInv, Serial, Holding, Running, Find
  <2> QED
      BY <2>2, <2>3, <2>4, <2>5, ZenonT(30) DEF Stored
<1> SUFFICES ASSUME IInv, [Next]_vars PROVE IInv'
    BY Zenon
<1>1. TypeOK' /\ Mutex'
    BY TypeInvariance, MutexInvariance, Zenon
<1>2. ASSUME NEW s \in Stores, Next, StoreNext(s) \/ StoreDies(s) PROVE IInv'
    <2>1. Serial'
        BY <1>2, StoreSerial, ZenonT(30)
    <2>2. Stored' /\ Handles'
        BY <1>2, <1>StoreHandles, ZenonT(30)
    <2>3. Halves'
        BY <1>2, <1>StoreHalves, Zenon
    <2>4. Opened' /\ Copies' /\ MappedSegments' /\ FacadesConsistent'
        BY <1>2, <1>StoreOpened, <1>StoreCopies, <1>StoreMapped, ZenonT(30)
    <2> QED
        BY <1>1, <2>1, <2>2, <2>3, <2>4, ZenonT(30) DEF IInv, Stored
<1>3. ASSUME UNCHANGED <<lastGen, region, used, shm, storeVars>>, current' \in {0, current},
             \A e \in Engines : View(e)'
      PROVE  IInv'
    <2>1. Serial' /\ SegmentsNamed' /\ KeysInUse' /\ RegisteredIsMapped' /\ Handles' /\ Halves'
        BY <1>3, <1>QuietStep, Zenon
    <2>2. Opened' /\ Copies' /\ MappedSegments' /\ FacadesConsistent'
        <3>1. AllViews'
            BY <1>3, Zenon DEF AllViews
        <3> QED
            BY <3>1, <1>Views, PTL
    <2> QED
        BY <1>1, <2>1, <2>2, Zenon DEF IInv
<1>4. \A e \in Engines : View(e)
    BY <1>Views, Zenon DEF AllViews, IInv
<1>5. ASSUME NEW e \in Engines, EngineNext(e) PROVE IInv'
    <2>1. EngineStep(e) /\ UNCHANGED storeVars
        BY <1>5, Zenon DEF EngineNext, OnlyEngine
    <2>2. (\A f \in Engines \ {e} : Aside(f)) /\ UNCHANGED <<current, lastGen, region, used, shm>>
        BY <2>1, EngineElsewhere, ZenonT(30) DEF block, register
    <2>3. Elsewhere
        BY <2>1, <2>2, ZenonT(30) DEF Elsewhere, storeVars
    <2>4. \A f \in Engines : View(f)'
        BY <1>4, <1>5, <2>2, <2>3, <1>EngineView, <1>ViewAside, ZenonT(30)
    <2> QED
        BY <1>3, <2>1, <2>2, <2>4, Zenon
<1>6. ASSUME NEW e \in Engines, EngineDies(e) PROVE IInv'
    <2>1. Gone(e) /\ UNCHANGED <<current, lastGen, region, used, shm, storeVars>>
        BY <1>6, Zenon DEF EngineDies, EngineKilled, block, register
    <2>2. \A f \in Engines \ {e} : Aside(f)
        BY <2>1, GoneElsewhere, ZenonT(30) DEF IInv
    <2>3. Elsewhere
        BY <2>1, Zenon DEF Elsewhere, storeVars
    <2>4. wpc'[e] = "off" /\ facade'[e] = NoFacade /\ queries'[e] = {}
        BY <2>1, Zenon DEF Gone, WatchGoto, IInv, TypeOK, EngineTypeOK
    <2>5. View(e)'
        BY <2>4, <1>ViewEmpty, Zenon
    <2>6. \A f \in Engines : View(f)'
        BY <1>4, <2>2, <2>3, <2>5, <1>ViewAside, ZenonT(30)
    <2> QED
        BY <1>3, <2>1, <2>6, Zenon
<1>7. CASE UNCHANGED <<lastGen, region, used, shm, storeVars, engineVars>> /\ current' \in {0, current}
    <2>1. Elsewhere /\ \A f \in Engines : Aside(f)
        BY <1>7, Zenon DEF Elsewhere, Aside, storeVars, engineVars
    <2> QED
        BY <1>3, <1>4, <1>7, <2>1, <1>ViewAside, ZenonT(30)
<1>8. CASE ListReads \/ ListOpens \/ ListThrows \/ RemoveLocks \/ UNCHANGED vars
    BY <1>7, <1>8, Zenon DEF ListReads, ListOpens, ListThrows, RemoveLocks, RemoveBlock, vars, shared, block,
                      register, storeVars, engineVars
<1> QED
    BY <1>2, <1>5, <1>6, <1>8, Zenon DEF Next, Fault

(***************************************************************************)
(* Theorems                                                                *)
(***************************************************************************)
(* The invariant that the theorems below rest on, types included: for any    *)
(* number of datastores, engines, datasets, keys and generations of the      *)
(* block, and whatever is killed at whatever moment.                         *)
THEOREM SwapInvariant == Spec => []IInv
<1> QED
    BY Initially, Invariance, PTL DEF Spec

(* No query sees static data of one extraction with a metric of another      *)
(* (DataWatchdogImpl::Run copies both regions under the mutex, swapData      *)
(* replaces both under it).                                                  *)
THEOREM QueriesSeeOneExtraction == Spec => []FacadesConsistent
<1>1. IInv => FacadesConsistent
    BY Zenon DEF IInv
<1> QED
    BY <1>1, SwapInvariant, PTL

(* A registered key always leads to the segment of its region, so that       *)
(* mapping it under the mutex never fails.                                   *)
THEOREM RegisterLeadsToData == Spec => []RegisteredIsMapped
<1>1. IInv => RegisteredIsMapped
    BY Zenon DEF IInv
<1> QED
    BY <1>1, SwapInvariant, PTL

(* WaitForDetach keeps the key of a mapped segment reserved, and in the      *)
(* first block a free key has no segment.                                    *)
THEOREM MappedKeysStayReserved == Spec => []MappedKeysReserved
<1>1. IInv => MappedKeysReserved
    <2> SUFFICES ASSUME IInv PROVE MappedKeysReserved
        BY Zenon
    <2>1. ASSUME NEW e \in Engines, Protected(e), NEW seg \in Mapped(e)
          PROVE  seg.key \in used[lastGen]
        <3>1. PICK f \in Holds(e), k \in Kinds : seg = f[k]
            BY SMTT(30) DEF Mapped, Holds
        <3> QED
            BY <2>1, <3>1, Zenon DEF IInv, MappedSegments
    <2>2. lastGen = 1 => \A key \in Keys \ used[1] : shm[key] = NoSegment
        BY Zenon DEF IInv, KeysInUse
    <2> QED
        BY <2>1, <2>2, Zenon DEF MappedKeysReserved
<1> QED
    BY <1>1, SwapInvariant, PTL

(* A sleeping watchdog that has something to do has a notify_all() coming.   *)
THEOREM WakeupsNotLost == Spec => []NoLostWakeup
<1>1. Init => NoLostWakeup
    BY ConstantsTyped, SMTT(30) DEF Init, EngineInit, SharedInit, NoLostWakeup
<1>2. IInv /\ NoLostWakeup /\ [Next]_vars => NoLostWakeup'
    BY WakeupInvariance, Zenon
<1> QED
    BY <1>1, <1>2, SwapInvariant, PTL DEF Spec

(* A facade is only replaced by segments of the same or of later runs.       *)
THEOREM EnginesNeverGoBack == Spec => NeverBackwards
(* What a step may do to the facade of an engine of the latest block *)
<1>FacadeChange.
    ASSUME IInv, [Next]_vars, NEW e \in Engines, facade[e] # NoFacade, facade'[e] # NoFacade
    PROVE  \/ facade'[e] = facade[e]
           \/ /\ Protected(e)
              /\ \A k \in Kinds : facade'[e][k] = shm[region[lastGen][eds[e]][k].key]
           \/ ~Protected(e)
  <2> USE <1>FacadeChange
  <2>t. facade \in [Engines -> Facades \cup {NoFacade}] /\ wpc \in [Engines -> WatchLocations]
      BY Zenon DEF IInv, TypeOK, EngineTypeOK
  <2>1. CASE facade' = facade
      BY <2>1, Zenon
  <2>2. ASSUME NEW f \in Engines, EngineNext(f), f # e PROVE facade'[e] = facade[e]
      <3>1. Aside(e)
          BY <2>2, EngineElsewhere, ZenonT(30) DEF EngineNext, OnlyEngine
      <3> QED
          BY <3>1, Zenon DEF Aside
  <2>3. ASSUME NEW f \in Engines, Gone(f) PROVE facade'[e] = facade[e]
      <3>1. facade'[f] = NoFacade
          BY <2>3, <2>t, Zenon DEF Gone
      <3>2. Aside(e)
          BY <2>3, <3>1, GoneElsewhere, Zenon DEF IInv
      <3> QED
          BY <3>2 DEF Aside
  <2>4. ASSUME InitFacade(e) PROVE FALSE
      BY <2>4, ZenonT(30) DEF InitFacade, IInv, Opened
  <2>5. ASSUME SwapFacade(e), Protected(e)
        PROVE  \A k \in Kinds : facade'[e][k] = shm[region[lastGen][eds[e]][k].key]
      <3>1. wpc[e] = "swap" /\ facade'[e] = Map(copy[e])
          BY <2>5, <2>t, Zenon DEF SwapFacade
      <3>2. \A k \in Kinds : copy[e][k] = region[lastGen][eds[e]][k]
          BY <2>5, <3>1, ZenonT(30) DEF IInv, Copies
      <3> QED
          BY <3>1, <3>2, SMTT(30) DEF Map
  <2>6. ASSUME EngineNext(e)
        PROVE  facade' = facade \/ Gone(e) \/ InitFacade(e) \/ SwapFacade(e)
      BY <2>6, ZenonT(30) DEF EngineNext, OnlyEngine, EngineStep, EngineProgress, OpenBlock, InitLock, WatchLock,
                  WakeUp, Shutdown, DestructorNotify, QueryBegins, QueryEnds, InitThrows, Sleep,
                  CopyRegions, SwapThrows, StopUnlocked, StopLocked, DestructorNotified, Join, data
  <2>7. \/ facade' = facade \/ \E f \in Engines : EngineNext(f) \/ Gone(f)
      BY Zenon DEF Next, Fault, StoreNext, OnlyStore, StoreDies, EngineDies, EngineKilled, RemoveLocks,
             ListReads, ListOpens, ListThrows, engineVars, vars
  <2> QED
      BY <2>1, <2>2, <2>3, <2>4, <2>5, <2>6, <2>7, ZenonT(30)
<1>1. IInv /\ [Next]_vars =>
          [\A e \in Engines :
              (Protected(e) /\ facade[e] # NoFacade /\ facade'[e] # NoFacade) =>
                  \A k \in Kinds : facade'[e][k].run >= facade[e][k].run]_vars
    <2> SUFFICES ASSUME IInv, [Next]_vars, NEW e \in Engines, Protected(e), facade[e] # NoFacade,
                        facade'[e] # NoFacade, NEW k \in Kinds
                 PROVE  facade'[e][k].run >= facade[e][k].run
        BY Zenon
    <2>1. facade[e][k].run \in Nat
        <3>1. facade[e] \in Holds(e)
            BY Zenon DEF Holds
        <3> QED
            BY <3>1, HeldTyped, Zenon
    <2>2. CASE facade'[e] = facade[e]
        BY <2>1, <2>2, SMTT(30)
    <2>3. CASE \A j \in Kinds : facade'[e][j] = shm[region[lastGen][eds[e]][j].key]
        <3>1. lastGen # 0 /\ eds[e] \in Datasets
            BY PlacesTyped, SMTT(30) DEF IInv, TypeOK, EngineTypeOK, Protected, Gens
        <3>2. Find(lastGen, eds[e], k) /\ facade[e][k].run <= shm[region[lastGen][eds[e]][k].key].run
            BY Zenon DEF IInv, Copies
        <3>3. shm[region[lastGen][eds[e]][k].key].run \in Nat
            BY <3>1, <3>2, RegisteredKeys, ZenonT(30)
        <3> QED
            BY <2>1, <2>3, <3>2, <3>3, ZenonT(30)
    <2> QED
        BY <2>2, <2>3, <1>FacadeChange, ZenonT(30)
<1> QED
    BY <1>1, SwapInvariant, PTL DEF Spec, NeverBackwards

(***************************************************************************)
(* No key is lost                                                          *)
(***************************************************************************)
NoFailures == (\A j \in Jobs : j.readable /\ ~j.timed) /\ faults = 0 /\ current # 0

Registering(key) == \E d \in Datasets, k \in Kinds :
                        Find(lastGen, d, k) /\ region[lastGen][d][k].key = key

Handling(s, key) == \E k \in Kinds : \/ newSeg[s][k] # NoSegment /\ newSeg[s][k].key = key
                                     \/ oldSeg[s][k] # NoSegment /\ oldSeg[s][k].key = key

Accounted(key) == Registering(key) \/ \E s \in Stores : Handling(s, key)

AllAccounted == NoFailures => \A key \in used[lastGen] : Accounted(key)

(* Without failures every key in use is registered or belongs to a running   *)
(* datastore: swapData reclaims what it replaces.                            *)
THEOREM NoKeyIsLost == Spec => []KeysAccounted
(* KeysAccounted, key by key; the current block is the latest. *)
<1>AccountedKeys. IInv => (AllAccounted <=> KeysAccounted)
  <2> SUFFICES ASSUME IInv PROVE AllAccounted <=> KeysAccounted
      BY Zenon
  <2>1. current # 0 => current = lastGen
      BY Zenon DEF IInv, Serial
  <2>2. ASSUME NEW key
        PROVE  key \in {region[lastGen][n[1]][n[2]].key : n \in RegisteredNames(lastGen)}
                   <=> Registering(key)
      <3>1. ASSUME Registering(key)
            PROVE  key \in {region[lastGen][n[1]][n[2]].key : n \in RegisteredNames(lastGen)}
          <4>1. PICK d \in Datasets, k \in Kinds :
                    Find(lastGen, d, k) /\ region[lastGen][d][k].key = key
              BY <3>1, Zenon DEF Registering
          <4>2. <<d, k>> \in RegisteredNames(lastGen)
              BY <4>1, Zenon DEF RegisteredNames
          <4> QED
              BY <4>1, <4>2, SMTT(30)
      <3>2. ASSUME key \in {region[lastGen][n[1]][n[2]].key : n \in RegisteredNames(lastGen)}
            PROVE  Registering(key)
          BY <3>2, Zenon DEF Registering, RegisteredNames
      <3> QED
          BY <3>1, <3>2, ZenonT(30)
  <2>3. ASSUME NEW key
        PROVE  key \in UNION {KeysOf(newSeg[s]) \cup KeysOf(oldSeg[s]) : s \in Stores}
                   <=> \E s \in Stores : Handling(s, key)
      BY DEF Handling, KeysOf
  <2> QED
      BY <2>1, <2>2, <2>3, Zenon DEF AllAccounted, KeysAccounted, NoFailures, Accounted
(* Steps that at most release keys. *)
<1>AccountedFrame.
    ASSUME AllAccounted, NoFailures' => NoFailures, lastGen' = lastGen, UNCHANGED region,
           used'[lastGen] \subseteq used[lastGen],
           \A s \in Stores : newSeg'[s] = newSeg[s] /\ oldSeg'[s] = oldSeg[s]
    PROVE  AllAccounted'
  <2> USE <1>AccountedFrame
  <2>1. \A key : Registering(key) => Registering(key)'
      BY Zenon DEF Registering, Find
  <2>2. \A key : \A s \in Stores : Handling(s, key) => Handling(s, key)'
      BY ZenonT(30) DEF Handling
  <2> QED
      BY <2>1, <2>2, Zenon DEF AllAccounted, Accounted
(* No step of a datastore loses a key: PublishRegion passes the old one *)
(* on, and Exit leaves its own ones registered and the old ones released. *)
<1>StoreAccounted.
    ASSUME IInv, AllAccounted, NEW s \in Stores, StoreNext(s)
    PROVE  AllAccounted'
  <2> USE <1>StoreAccounted
  <2>0. StoreStep(s, Attached) /\ faults' = faults
      BY Zenon DEF StoreNext, OnlyStore, others
  <2>t. /\ newSeg \in [Stores -> [Kinds -> MaybeSegments]] /\ oldSeg \in [Stores -> [Kinds -> MaybeSegments]]
        /\ skind \in [Stores -> Kinds] /\ spc \in [Stores -> StoreLocations]
        /\ used \in [Gens -> SUBSET Keys]
      BY Zenon DEF IInv, TypeOK, SharedTypeOK, StoreTypeOK
  <2>1. CASE Start(s) \/ AcquireFileLock(s)
      <3>1. UNCHANGED <<current, lastGen, region, used, newSeg, oldSeg>>
          BY <2>1, Zenon DEF Start, AcquireFileLock, shared, handles
      <3> QED
          BY <2>0, <3>1, <1>AccountedFrame, Zenon DEF NoFailures
  <2>2. CASE OpenMonitor(s)
      <3>1. UNCHANGED <<region, used, newSeg, oldSeg>>
          BY <2>2, Zenon DEF OpenMonitor, register, handles
      <3>2. CASE current # 0
          <4>1. UNCHANGED <<current, lastGen>>
              BY <2>2, <3>2, Zenon DEF OpenMonitor, OpenOrCreate, block
          <4> QED
              BY <2>0, <3>1, <4>1, <1>AccountedFrame, ZenonT(30) DEF NoFailures
      <3>3. CASE current = 0
          <4>1. lastGen' = lastGen + 1 /\ lastGen < MaxGens /\ lastGen \in Nat /\ MaxGens \in Nat
              BY <2>2, <3>3, ConstantsTyped, SMTT(30) DEF OpenMonitor, OpenOrCreate, IInv, TypeOK, SharedTypeOK
          <4>2. lastGen' \in Gens /\ lastGen' > lastGen
              BY <4>1, SMTT(30) DEF Gens
          <4>3. used'[lastGen'] = {}
              BY <3>1, <4>2, Zenon DEF IInv, Serial
          <4> QED
              BY <4>3, ZenonT(30) DEF AllAccounted
      <3> QED
          BY <3>2, <3>3, Zenon
  <2>3. CASE Inner(s)
      <3>1. /\ lastGen' = lastGen /\ current' = current /\ lastGen \in Gens /\ lastGen # 0
            /\ sgen[s] = lastGen /\ skind[s] \in Kinds
          BY <2>3, <2>t, InnerFrame, ConstantsTyped, ZenonT(30)
             DEF IInv, TypeOK, SharedTypeOK, Serial, Running, Inner, Gens
      <3>2. NoFailures' => NoFailures
          BY <2>0, <3>1, Zenon DEF NoFailures
      <3>3. CASE \/ AttachStatic(s) \/ Populate(s) \/ SwapLock(s) \/ NotifyEngines(s) \/ NotifyReturns(s)
                 \/ SkipOld(s) \/ RemoveOld(s)
          <4>1. UNCHANGED <<region, used, newSeg, oldSeg>>
              BY <3>3, Zenon DEF AttachStatic, Populate, SwapLock, NotifyEngines, NotifyReturns, SkipOld,
                          RemoveOld, shared, register, handles
          <4> QED
              BY <3>1, <3>2, <4>1, <1>AccountedFrame, ZenonT(30)
      <3>4. CASE WaitForDetach(s, Attached)
          <4>1. UNCHANGED <<region, newSeg, oldSeg>> /\ used'[lastGen] \subseteq used[lastGen]
              BY <2>t, <3>1, <3>4, Zenon DEF WaitForDetach, ReleaseKey, handles
          <4> QED
              BY <3>1, <3>2, <4>1, <1>AccountedFrame, ZenonT(30)
      <3>5. CASE SetupRegion(s)
          <4>1. ~Created(s, skind[s])
              BY <3>1, <3>5, Zenon DEF SetupRegion, Created, Kinds
          <4>2. newSeg[s][skind[s]] = NoSegment
              BY <3>1, <4>1, ZenonT(30) DEF IInv, Handles, Work, NewOK
          <4>3. PICK key \in Keys, seg \in Segments :
                    /\ seg.key = key /\ used'[lastGen] = used[lastGen] \cup {key}
                    /\ newSeg' = [newSeg EXCEPT ![s][skind[s]] = seg]
              <5>1. PICK key \in Keys :
                        LET seg == [key |-> key, run |-> run[s], ds |-> job[s].ds,
                                    kind |-> skind[s], extract |-> job[s].extract]
                        IN  /\ ReserveKey(sgen[s], key)
                            /\ newSeg' = [newSeg EXCEPT ![s][skind[s]] = seg]
                  BY <3>5, Zenon DEF SetupRegion
              <5>2. used'[lastGen] = used[lastGen] \cup {key}
                  BY <2>t, <3>1, <5>1, ZenonT(30) DEF ReserveKey
              <5>3. run[s] \in Nat /\ job[s].ds \in Datasets /\ job[s].extract \in Extracts
                  BY WorkTyped, JobsTyped, Zenon DEF IInv, TypeOK, StoreTypeOK, AllJobs
              <5>4. [key |-> key, run |-> run[s], ds |-> job[s].ds,
                     kind |-> skind[s], extract |-> job[s].extract] \in Segments
                  BY <3>1, <5>3, Zenon DEF Segments
              <5> QED
                  BY <5>1, <5>2, <5>4, ZenonT(30)
          <4>4. UNCHANGED <<region, oldSeg>>
              BY <3>5, Zenon DEF SetupRegion
          <4>5. \A x : Registering(x) => Registering(x)'
              BY <3>1, <4>4, Zenon DEF Registering, Find
          <4>6. \A x : \A t \in Stores : Handling(t, x) => Handling(t, x)'
              BY <2>t, <3>1, <4>2, <4>3, <4>4, ZenonT(30) DEF Handling
          <4>7. Handling(s, key)'
              <5>1. newSeg'[s][skind[s]] = seg /\ seg # NoSegment
                  BY <2>t, <3>1, <4>3, ConstantsTyped, Zenon
              <5> QED
                  BY <3>1, <4>3, <5>1, Zenon DEF Handling
          <4> QED
              BY <3>1, <3>2, <4>3, <4>5, <4>6, <4>7, ZenonT(30) DEF AllAccounted, Accounted
      <3>6. CASE PublishRegion(s)
          <4>1. PICK ds \in Datasets : ds = job[s].ds
              BY WorkTyped, Zenon
          <4>2. PICK kind \in Kinds : kind = skind[s]
              BY <3>1, ZenonT(30)
          <4>3. /\ UNCHANGED <<used, newSeg>> /\ ~Swapped(s, kind)
                /\ \A d \in Datasets, k \in Kinds :
                       (d # ds \/ k # kind) => region'[lastGen][d][k] = region[lastGen][d][k]
                /\ \A k \in Kinds : k # kind => oldSeg'[s][k] = oldSeg[s][k]
                /\ oldSeg'[s][kind] = IF Find(lastGen, ds, kind)
                                      THEN shm[region[lastGen][ds][kind].key] ELSE NoSegment
              <5>1. /\ UNCHANGED <<used, newSeg>> /\ ~Swapped(s, skind[s])
                    /\ oldSeg'[s][skind[s]] = IF Find(lastGen, job[s].ds, skind[s])
                                              THEN shm[region[lastGen][job[s].ds][skind[s]].key]
                                              ELSE NoSegment
                  BY <3>6, PublishEffect, Zenon
              <5>2. \A d \in Datasets, k \in Kinds :
                        (d # job[s].ds \/ k # skind[s]) => region'[lastGen][d][k] = region[lastGen][d][k]
                  BY <3>6, PublishEffect, Zenon
              <5>3. \A k \in Kinds : k # skind[s] => oldSeg'[s][k] = oldSeg[s][k]
                  BY <3>6, PublishEffect, Zenon
              <5> QED
                  BY <4>1, <4>2, <5>1, <5>2, <5>3, Zenon
          <4>4. oldSeg[s][kind] = NoSegment
              BY <4>3, Zenon DEF IInv, Handles, Work, OldOK
          <4>5. \A t \in Stores : t # s => oldSeg'[t] = oldSeg[t]
              BY StoreActions, ElsewhereAll, Zenon DEF Untouched
          <4>6. \A x : \A t \in Stores : Handling(t, x) => Handling(t, x)'
              <5> SUFFICES ASSUME NEW x, NEW t \in Stores, NEW k \in Kinds,
                                  \/ newSeg[t][k] # NoSegment /\ newSeg[t][k].key = x
                                  \/ oldSeg[t][k] # NoSegment /\ oldSeg[t][k].key = x
                           PROVE  \/ newSeg'[t][k] # NoSegment /\ newSeg'[t][k].key = x
                                  \/ oldSeg'[t][k] # NoSegment /\ oldSeg'[t][k].key = x
                  BY ZenonT(30) DEF Handling
              <5>1. CASE newSeg[t][k] # NoSegment /\ newSeg[t][k].key = x
                  BY <4>3, <5>1, Zenon
              <5>2. CASE oldSeg[t][k] # NoSegment /\ oldSeg[t][k].key = x
                  <6>1. t # s \/ k # kind
                      BY <4>4, <5>2, Zenon
                  <6>2. oldSeg'[t][k] = oldSeg[t][k]
                      BY <4>3, <4>5, <6>1, Zenon
                  <6> QED
                      BY <5>2, <6>2, Zenon
              <5> QED
                  BY <5>1, <5>2, Zenon
          <4>7. ASSUME NEW x, Registering(x) PROVE Registering(x)' \/ Handling(s, x)'
              <5>1. PICK d \in Datasets, k \in Kinds :
                        Find(lastGen, d, k) /\ region[lastGen][d][k].key = x
                  BY <4>7, Zenon DEF Registering
              <5>2. CASE d # ds \/ k # kind
                  <6>1. region'[lastGen'][d][k] = region[lastGen][d][k]
                      BY <3>1, <4>3, <5>2, Zenon
                  <6> QED
                      BY <5>1, <6>1, Zenon DEF Registering, Find
              <5>3. CASE d = ds /\ k = kind
                  <6>1. oldSeg'[s][kind] = shm[x]
                      BY <4>3, <5>1, <5>3, ZenonT(30)
                  <6>2. shm[x] # NoSegment /\ shm[x].key = x
                      <7>1. LET key == region[lastGen][d][k].key
                            IN  shm[key] # NoSegment /\ shm[key].key = key
                          <8>1. IInv /\ lastGen # 0 /\ Find(lastGen, d, k)
                              BY <3>1, <5>1, Zenon
                          <8> QED
                              BY <8>1, RegisteredKeys, ZenonT(30)
                      <7> QED
                          BY <5>1, <7>1, ZenonT(30)
                  <6> QED
                      BY <6>1, <6>2, Zenon DEF Handling
              <5> QED
                  BY <5>2, <5>3, Zenon
          <4> QED
              BY <3>1, <3>2, <4>3, <4>6, <4>7, ZenonT(30) DEF AllAccounted, Accounted
      <3> QED
          BY <2>3, <3>3, <3>4, <3>5, <3>6, ZenonT(30) DEF Inner
  <2>4. CASE Exit(s)
      <3>2. UNCHANGED <<current, lastGen, region, used>> /\ spc[s] = "exit"
          BY <2>4, Zenon DEF Exit, shared
      <3>3. \A x : Registering(x) => Registering(x)'
          BY <3>2, Zenon DEF Registering, Find
      <3>4. \A t \in Stores : t # s => newSeg'[t] = newSeg[t] /\ oldSeg'[t] = oldSeg[t]
          BY StoreActions, ElsewhereAll, Zenon DEF Untouched
      <3>5. \A x : \A t \in Stores : (t # s /\ Handling(t, x)) => Handling(t, x)'
          BY <3>4, Zenon DEF Handling
      <3>6. ASSUME NEW x \in used[lastGen], Handling(s, x) PROVE Registering(x)
          <4>1. PICK k \in Kinds : \/ newSeg[s][k] # NoSegment /\ newSeg[s][k].key = x
                                   \/ oldSeg[s][k] # NoSegment /\ oldSeg[s][k].key = x
              BY <3>6, ZenonT(30) DEF Handling
          <4>2. ~(oldSeg[s][k] # NoSegment /\ oldSeg[s][k].key = x)
              BY <3>2, <3>6, SMTT(30) DEF IInv, Handles, Work, OldOK, Unlinked
          <4>3. newSeg[s][k] # NoSegment /\ newSeg[s][k].key = x
              BY <4>1, <4>2, Zenon
          <4>4. Created(s, k)
              BY <4>3, Zenon DEF IInv, Handles, Work, NewOK
          <4>5. Swapped(s, k)
              BY <3>2, <4>4, Zenon DEF Created, Swapped
          <4>6. job[s].ds \in Datasets /\ Find(lastGen, job[s].ds, k)
                /\ region[lastGen][job[s].ds][k].key = newSeg[s][k].key
              BY <4>5, WorkTyped, ZenonT(30) DEF IInv, Handles, Work, SwappedOK
          <4> QED
              BY <4>3, <4>6, Zenon DEF Registering
      <3>7. NoFailures' => NoFailures
          BY <2>0, <3>2, ZenonT(30) DEF NoFailures
      <3> QED
          BY <3>2, <3>3, <3>5, <3>6, <3>7, Zenon DEF AllAccounted, Accounted
  <2>5. CASE FileError(s) \/ SwapTimeout(s)
      <3>1. job[s] \in Jobs
          BY WorkTyped, Zenon
      <3>2. ~(\A j \in Jobs : j.readable /\ ~j.timed)
          BY <2>5, <3>1, ZenonT(30) DEF FileError, SwapTimeout
      <3> QED
          BY <3>2, Zenon DEF AllAccounted, NoFailures
  <2>6. CASE Uncaught(s)
      BY <2>6, Zenon DEF Uncaught, RemoveBlock, AllAccounted, NoFailures
  <2> QED
      BY <2>0, <2>1, <2>2, <2>3, <2>4, <2>5, <2>6, ZenonT(30) DEF StoreStep, StoreProgress, Inner
<1>1. Init => AllAccounted
    BY Zenon DEF Init, SharedInit, AllAccounted, NoFailures
<1>2. IInv /\ AllAccounted /\ [Next]_vars => AllAccounted'
    <2> SUFFICES ASSUME IInv, AllAccounted, [Next]_vars PROVE AllAccounted'
        BY Zenon
    <2>1. CASE Fault
        <3>1. faults \in Nat /\ faults' = faults + 1
            BY <2>1, Zenon DEF Fault, IInv, TypeOK
        <3> QED
            BY <3>1 DEF AllAccounted, NoFailures
    <2>2. ASSUME NEW e \in Engines, EngineNext(e) PROVE AllAccounted'
        <3>1. UNCHANGED <<current, lastGen, region, used, newSeg, oldSeg, faults>>
            BY <2>2, EngineElsewhere, Zenon DEF EngineNext, OnlyEngine, storeVars, others, block, register
        <3> QED
            BY <3>1, <1>AccountedFrame, Zenon DEF NoFailures
    <2>3. CASE ListThrows
        BY <2>3, Zenon DEF ListThrows, RemoveBlock, AllAccounted, NoFailures
    <2>4. CASE ListReads \/ ListOpens \/ UNCHANGED vars
        <3>1. UNCHANGED <<current, lastGen, region, used, newSeg, oldSeg, faults>>
            BY <2>4, Zenon DEF ListReads, ListOpens, vars, shared, storeVars
        <3> QED
            BY <3>1, <1>AccountedFrame, Zenon DEF NoFailures
    <2> QED
        BY <2>1, <2>2, <2>3, <2>4, <1>StoreAccounted, ZenonT(30) DEF Next
<1> QED
    BY <1>1, <1>2, <1>AccountedKeys, SwapInvariant, PTL DEF Spec

(***************************************************************************)
(* The monitor                                                             *)
(***************************************************************************)
Threads == Owners \ {Free, Abandoned}

Waking(g, e) == wpc[e] = "waiting" /\ egen[e] = g /\ Watch(e) \notin waiting[g]

Woken(g) == {Watch(e) : e \in {e \in Engines : /\ wpc[e] = "waiting"
                                               /\ egen[e] = g
                                               /\ Watch(e) \notin waiting[g]}}

MonitorStep(g) == MonitorOf(g)!Next \/ UNCHANGED MonitorOf(g)!vars

(* Every thread uses the monitor of its block as Monitor specifies it.       *)
(* Together with MonitorImplemented of SharedMemoryProofs: the ring of       *)
(* semaphores is enough for datastores and watchdogs.                        *)
THEOREM MonitorUsedAsSpecified == Spec => UsesMonitor
(* The threads that use a monitor. *)
<1>ThreadsAre.
    /\ \A s \in Stores : Store(s) \in Threads
    /\ \A e \in Engines : Watch(e) \in Threads /\ Main(e) \in Threads
  BY OwnersTyped, OwnersDiffer, ZenonT(30) DEF Threads
(* Who is inside wait() and has been notified. *)
<1>WokenIs.
    ASSUME NEW g \in Gens
    PROVE  /\ \A e \in Engines : Watch(e) \in Woken(g) <=> Waking(g, e)
           /\ \A x \in Woken(g) : \E e \in Engines : x = Watch(e) /\ Waking(g, e)
           /\ \A s \in Stores : Store(s) \notin Woken(g)
           /\ \A e \in Engines : Main(e) \notin Woken(g)
  <2> USE <1>WokenIs
  <2>1. \A x \in Woken(g) : \E e \in Engines : x = Watch(e) /\ Waking(g, e)
      BY Zenon DEF Woken, Waking
  <2>2. \A e \in Engines : Waking(g, e) => Watch(e) \in Woken(g)
      BY Zenon DEF Woken, Waking
  <2> QED
      BY <2>1, <2>2, OwnersDiffer, SMTT(30)
(* ... stays the same set if it does for every engine. *)
<1>WokenStays.
    ASSUME NEW g \in Gens, \A e \in Engines : Waking(g, e)' <=> Waking(g, e)
    PROVE  Woken(g)' = Woken(g)
  <2> USE <1>WokenStays
  <2>1. Woken(g)' = {Watch(e) : e \in {e \in Engines : Waking(g, e)'}}
      BY Zenon DEF Woken, Waking
  <2>2. Woken(g) = {Watch(e) : e \in {e \in Engines : Waking(g, e)}}
      BY Zenon DEF Woken, Waking
  <2> QED
      BY <2>1, <2>2, Zenon
(* The steps of Monitor, in terms of DataSwap's variables. *)
<1>MonitorSteps.
    ASSUME NEW g \in Gens,
           \/ owner'[g] = owner[g] /\ waiting'[g] = waiting[g] /\ Woken(g)' = Woken(g)
           \/ \E t \in Threads :
                  \/ /\ t \notin waiting[g] \cup Woken(g)
                     /\ owner[g] = Free /\ owner'[g] = t
                     /\ waiting'[g] = waiting[g] /\ Woken(g)' = Woken(g)
                  \/ /\ owner[g] = t /\ owner'[g] = Free
                     /\ waiting'[g] = waiting[g] /\ Woken(g)' = Woken(g)
                  \/ /\ owner[g] = t /\ owner'[g] = Free
                     /\ waiting'[g] = waiting[g] \cup {t} /\ Woken(g)' = Woken(g)
                  \/ /\ t \notin waiting[g] \cup Woken(g)
                     /\ owner[g] = Free /\ owner'[g] = t
                     /\ waiting'[g] = {} /\ Woken(g)' = Woken(g) \cup waiting[g]
                  \/ /\ t \in Woken(g)
                     /\ owner[g] = Free /\ owner'[g] = t
                     /\ waiting'[g] = waiting[g] /\ Woken(g)' = Woken(g) \ {t}
           \/ \E ts \in SUBSET Threads :
                  /\ owner'[g] = IF owner[g] \in ts THEN Abandoned ELSE owner[g]
                  /\ waiting'[g] = waiting[g] \ ts /\ Woken(g)' = Woken(g) \ ts
    PROVE  MonitorStep(g)
  <2> USE <1>MonitorSteps
  <2>1. CASE owner'[g] = owner[g] /\ waiting'[g] = waiting[g] /\ Woken(g)' = Woken(g)
      BY <2>1, Zenon DEF MonitorStep, MonitorOf!vars, Woken
  <2>2. ASSUME NEW t \in Threads,
               \/ /\ t \notin waiting[g] \cup Woken(g)
                  /\ owner[g] = Free /\ owner'[g] = t
                  /\ waiting'[g] = waiting[g] /\ Woken(g)' = Woken(g)
               \/ /\ owner[g] = t /\ owner'[g] = Free
                  /\ waiting'[g] = waiting[g] /\ Woken(g)' = Woken(g)
               \/ /\ owner[g] = t /\ owner'[g] = Free
                  /\ waiting'[g] = waiting[g] \cup {t} /\ Woken(g)' = Woken(g)
               \/ /\ t \notin waiting[g] \cup Woken(g)
                  /\ owner[g] = Free /\ owner'[g] = t
                  /\ waiting'[g] = {} /\ Woken(g)' = Woken(g) \cup waiting[g]
               \/ /\ t \in Woken(g)
                  /\ owner[g] = Free /\ owner'[g] = t
                  /\ waiting'[g] = waiting[g] /\ Woken(g)' = Woken(g) \ {t}
        PROVE  MonitorStep(g)
      <3>1. \/ MonitorOf(g)!Lock(t) \/ MonitorOf(g)!Unlock(t) \/ MonitorOf(g)!Wait(t)
            \/ MonitorOf(g)!NotifyAll(t) \/ MonitorOf(g)!Relock(t)
          BY <2>2, Zenon DEF MonitorOf!Lock, MonitorOf!Unlock, MonitorOf!Wait, MonitorOf!NotifyAll,
                      MonitorOf!Relock, MonitorOf!Outside, Woken, Threads
      <3> QED
          BY <3>1, Zenon DEF MonitorStep, MonitorOf!Next, Threads
  <2>3. ASSUME NEW ts \in SUBSET Threads,
               /\ owner'[g] = IF owner[g] \in ts THEN Abandoned ELSE owner[g]
               /\ waiting'[g] = waiting[g] \ ts /\ Woken(g)' = Woken(g) \ ts
        PROVE  MonitorStep(g)
      <3>1. MonitorOf(g)!Die(ts)
          BY <2>3, Zenon DEF MonitorOf!Die, Woken
      <3> QED
          BY <3>1, Zenon DEF MonitorStep, MonitorOf!Next, Threads
  <2> QED
      BY <2>1, <2>2, <2>3, ZenonT(30)
(* A scoped_lock on one generation's mutex is Monitor's Lock. *)
<1>LockStep.
    ASSUME IInv, NEW g \in Gens, NEW h \in Gens, NEW t \in Threads, Lock(h, t), UNCHANGED waiting,
           t \notin waiting[h], t \notin Woken(h),
           \A e \in Engines : Waking(g, e)' <=> Waking(g, e)
    PROVE  MonitorStep(g)
  <2> USE <1>LockStep
  <2>1. Woken(g)' = Woken(g)
      BY <1>WokenStays, Zenon
  <2>2. owner[h] = Free /\ owner'[h] = t /\ (g # h => owner'[g] = owner[g])
      BY PlacesTyped, Zenon DEF Lock, IInv
  <2> QED
      BY <2>1, <2>2, <1>MonitorSteps, ZenonT(30)
(* Its release is Monitor's Unlock. *)
<1>UnlockStep.
    ASSUME IInv, NEW g \in Gens, NEW h \in Gens, NEW t \in Threads, owner[h] = t, Unlock(h),
           UNCHANGED waiting, \A e \in Engines : Waking(g, e)' <=> Waking(g, e)
    PROVE  MonitorStep(g)
  <2> USE <1>UnlockStep
  <2>1. Woken(g)' = Woken(g)
      BY <1>WokenStays, Zenon
  <2>2. owner'[h] = Free /\ (g # h => owner'[g] = owner[g])
      BY PlacesTyped, Zenon DEF Unlock, IInv
  <2> QED
      BY <2>1, <2>2, <1>MonitorSteps, ZenonT(30)
(* notify_all() moves all that wait to the woken. *)
<1>NotifyStep.
    ASSUME IInv, NEW g \in Gens, NEW h \in Gens, NEW t \in Threads, NotifyAll(h, t),
           t \notin waiting[h], t \notin Woken(h), UNCHANGED <<wpc, egen>>
    PROVE  MonitorStep(g)
  <2> USE <1>NotifyStep
  <2>1. /\ owner[h] = Free /\ owner'[h] = t /\ waiting'[h] = {}
        /\ g # h => owner'[g] = owner[g] /\ waiting'[g] = waiting[g]
      BY PlacesTyped, Zenon DEF NotifyAll, Lock, IInv
  <2>2. CASE g # h
      <3>1. \A e \in Engines : Waking(g, e)' <=> Waking(g, e)
          BY <2>1, <2>2, ZenonT(30) DEF Waking
      <3> QED
          BY <2>1, <2>2, <3>1, <1>WokenStays, <1>MonitorSteps, ZenonT(30)
  <2>3. CASE g = h
      <3>1. \A e \in Engines : Waking(h, e)' <=> wpc[e] = "waiting" /\ egen[e] = h
          BY <2>1, Zenon DEF Waking
      <3>2. \A e \in Engines : Watch(e) \in waiting[h] => wpc[e] = "waiting" /\ egen[e] = h
          BY Zenon DEF IInv, Mutex
      <3>3. \A e \in Engines : Waking(h, e)' <=> Waking(h, e) \/ Watch(e) \in waiting[h]
          BY <3>1, <3>2, ZenonT(30) DEF Waking
      <3>4. \A x \in waiting[h] : \E e \in Engines : x = Watch(e)
          BY PlacesTyped, SMTT(30) DEF IInv, Watchers
      <3>5. Woken(h)' = {Watch(e) : e \in {e \in Engines : Waking(h, e)'}}
          BY Zenon DEF Woken, Waking
      <3>6. Woken(h)' = Woken(h) \cup waiting[h]
          BY <3>3, <3>4, <3>5, <1>WokenIs, SMTT(30)
      <3> QED
          BY <2>1, <2>3, <3>6, <1>MonitorSteps, ZenonT(30)
  <2> QED
      BY <2>2, <2>3, Zenon
(* The death of a process is Monitor's Die for its threads. *)
<1>AbandonStep.
    ASSUME NEW g \in Gens, NEW ps \in SUBSET Threads, Abandon(ps),
           \A e \in Engines : Waking(g, e)' <=> Waking(g, e) /\ Watch(e) \notin ps
    PROVE  MonitorStep(g)
  <2> USE <1>AbandonStep
  <2>1. /\ owner'[g] = IF owner[g] \in ps THEN Abandoned ELSE owner[g]
        /\ waiting'[g] = waiting[g] \ ps
      BY Zenon DEF Abandon
  <2>2. Woken(g)' = {Watch(e) : e \in {e \in Engines : Waking(g, e)'}}
      BY Zenon DEF Woken, Waking
  <2>3. Woken(g)' = Woken(g) \ ps
      BY <2>2, <1>WokenIs, SMTT(30)
  <2> QED
      BY <2>1, <2>3, <1>MonitorSteps, ZenonT(30)
(* A datastore's step, seen by the monitor of each generation. *)
<1>StoreMonitor.
    ASSUME IInv, NEW g \in Gens, NEW s \in Stores, StoreNext(s) \/ StoreDies(s)
    PROVE  MonitorStep(g)
  <2> USE <1>StoreMonitor
  <2>1. UNCHANGED <<wpc, egen>>
      BY StoreActions, Zenon
  <2>2. PICK h \in Gens : h = sgen[s]
      BY PlacesTyped, Zenon DEF IInv
  <2>3. PICK t \in Threads : t = Store(s)
      BY <1>ThreadsAre, ZenonT(30)
  <2>4. t \notin waiting[h] /\ t \notin Woken(h)
      BY <2>3, <1>WokenIs, OwnersDiffer, PlacesTyped, SMTT(30) DEF IInv, Watchers
  <2>5. UNCHANGED waiting => \A e \in Engines : Waking(g, e)' <=> Waking(g, e)
      BY <2>1, Zenon DEF Waking
  <2>6. CASE UNCHANGED <<owner, waiting>>
      BY <2>5, <2>6, <1>WokenStays, <1>MonitorSteps, ZenonT(30)
  <2>7. CASE SwapLock(s)
      <3>1. Lock(h, t) /\ UNCHANGED waiting
          BY <2>2, <2>3, <2>7, ZenonT(30) DEF SwapLock
      <3> QED
          BY <2>4, <2>5, <3>1, <1>LockStep, ZenonT(30)
  <2>8. CASE NotifyEngines(s)
      <3>1. NotifyAll(h, t)
          BY <2>2, <2>3, <2>8, ZenonT(30) DEF NotifyEngines
      <3> QED
          BY <2>1, <2>4, <3>1, <1>NotifyStep, ZenonT(30)
  <2>9. CASE NotifyReturns(s) \/ (PublishRegion(s) /\ Unlock(h))
      <3>1. Unlock(h) /\ UNCHANGED waiting /\ spc[s] \in {"publish", "notified"}
          BY <2>2, <2>9, ZenonT(30) DEF NotifyReturns, PublishRegion
      <3>2. owner[h] = t
          BY <2>2, <2>3, <3>1, ZenonT(30) DEF IInv, Mutex
      <3> QED
          BY <2>5, <3>1, <3>2, <1>UnlockStep, ZenonT(30)
  <2>10. CASE Abandon({Store(s)})
      <3>1. {Store(s)} \in SUBSET Threads
          BY <1>ThreadsAre, Zenon
      <3>2. waiting'[g] = waiting[g] \ {Store(s)}
          BY <2>10, Zenon DEF Abandon
      <3>3. \A e \in Engines : Waking(g, e)' <=> Waking(g, e) /\ Watch(e) \notin {Store(s)}
          BY <2>1, <3>2, OwnersDiffer, ZenonT(30) DEF Waking
      <3> QED
          BY <2>10, <3>1, <3>3, <1>AbandonStep, ZenonT(30)
  <2>11. \/ UNCHANGED <<owner, waiting>>
         \/ SwapLock(s) \/ NotifyEngines(s) \/ NotifyReturns(s) \/ (PublishRegion(s) /\ Unlock(h))
         \/ Abandon({Store(s)})
      <3>1. PublishRegion(s) => UNCHANGED <<owner, waiting>> \/ Unlock(h)
          BY <2>2, Zenon DEF PublishRegion
      <3>2. CASE Start(s) \/ AcquireFileLock(s) \/ OpenMonitor(s)
          BY <3>2, Zenon DEF Start, AcquireFileLock, OpenMonitor, shared, monitor
      <3>3. CASE Inner(s)
          BY <3>1, <3>3, ZenonT(30) DEF Inner, AttachStatic, SetupRegion, Populate, SkipOld, RemoveOld, WaitForDetach,
                            shared, monitor
      <3>4. CASE Ends(s)
          BY <3>4, Zenon DEF Ends, Exit, FileError, SwapTimeout, Uncaught, Signalled, Killed, Die, shared, monitor
      <3> QED
          BY <3>2, <3>3, <3>4, StoreActions, ZenonT(30)
  <2> QED
      BY <2>6, <2>7, <2>8, <2>9, <2>10, <2>11, ZenonT(30)
(* An engine's step, seen by the monitor of each generation. *)
<1>EngineMonitor.
    ASSUME IInv, NEW g \in Gens, NEW e \in Engines, EngineNext(e) \/ EngineDies(e)
    PROVE  MonitorStep(g)
  <2> USE <1>EngineMonitor
  <2>0. \A f \in Engines \ {e} : Aside(f)
      <3>1. CASE EngineNext(e)
          BY <3>1, EngineElsewhere, Zenon DEF EngineNext, OnlyEngine
      <3>2. CASE EngineDies(e)
          BY <3>2, GoneElsewhere, ZenonT(30) DEF EngineDies, EngineKilled, IInv
      <3> QED
          BY <3>1, <3>2, Zenon
  <2>t. /\ wpc \in [Engines -> WatchLocations] /\ egen \in [Engines -> Gens]
        /\ owner \in [Gens -> Owners] /\ waiting \in [Gens -> SUBSET Watchers]
      BY PlacesTyped, Zenon DEF IInv
  <2>1. PICK h \in Gens : h = egen[e]
      BY <2>t, Zenon
  <2>2. PICK t \in Threads : t = Watch(e)
      BY <1>ThreadsAre, Zenon
  <2>3. PICK m \in Threads : m = Main(e)
      BY <1>ThreadsAre, ZenonT(30)
  <2>4. wpc[e] # "waiting" => t \notin waiting[h] /\ t \notin Woken(h)
      BY <2>2, <1>WokenIs, ZenonT(30) DEF IInv, Mutex, Waking
  <2>5. m \notin waiting[h] /\ m \notin Woken(h)
      <3>1. waiting[h] \subseteq Watchers
          BY <2>t, Zenon
      <3>2. m \notin Watchers
          BY <2>3, OwnersDiffer, Zenon DEF Watchers
      <3>3. Main(e) \notin Woken(h)
          BY <1>WokenIs, Zenon
      <3> QED
          BY <2>3, <3>1, <3>2, <3>3, Zenon
  <2>6. ASSUME UNCHANGED waiting,
               (wpc[e] # "waiting" /\ wpc'[e] # "waiting") \/ (wpc'[e] = wpc[e] /\ egen'[e] = egen[e])
        PROVE  \A f \in Engines : Waking(g, f)' <=> Waking(g, f)
      BY <2>0, <2>6, ZenonT(30) DEF Waking, Aside
  <2>7. CASE \/ OpenBlock(e) \/ QueryBegins(e) \/ (\E f \in queries[e] : QueryEnds(e, f))
             \/ CopyRegions(e) \/ StopUnlocked(e) \/ Shutdown(e) \/ Join(e)
      <3>1. UNCHANGED <<owner, waiting>>
          BY <2>7, ZenonT(30) DEF OpenBlock, QueryBegins, QueryEnds, CopyRegions, StopUnlocked, Shutdown, Join, shared
      <3>2. (wpc[e] # "waiting" /\ wpc'[e] # "waiting") \/ (wpc'[e] = wpc[e] /\ egen'[e] = egen[e])
          BY <2>7, <2>t, ZenonT(30) DEF OpenBlock, QueryBegins, QueryEnds, CopyRegions, StopUnlocked, Shutdown, Join,
                            Gone, WatchGoto
      <3> QED
          BY <2>6, <3>1, <3>2, <1>WokenStays, <1>MonitorSteps, ZenonT(30)
  <2>8. CASE InitLock(e) \/ WatchLock(e)
      <3>1. Lock(h, t) /\ UNCHANGED waiting /\ wpc[e] # "waiting" /\ wpc'[e] # "waiting"
          BY <2>8, <2>t, <2>1, <2>2, ZenonT(30) DEF InitLock, WatchLock, WatchGoto
      <3> QED
          BY <2>4, <2>6, <3>1, <1>LockStep, ZenonT(30)
  <2>9. CASE WakeUp(e)
      <3>1. /\ owner[h] = Free /\ owner'[h] = t /\ UNCHANGED <<waiting, egen>>
            /\ wpc[e] = "waiting" /\ wpc'[e] = "check" /\ t \notin waiting[h]
            /\ g # h => owner'[g] = owner[g]
          BY <2>9, <2>t, <2>1, <2>2, ZenonT(30) DEF WakeUp, Lock, WatchGoto
      <3>2. CASE g # h
          <4>1. \A f \in Engines : Waking(g, f)' <=> Waking(g, f)
              BY <2>0, <2>1, <3>1, <3>2, ZenonT(30) DEF Waking, Aside
          <4> QED
              BY <3>1, <3>2, <4>1, <1>WokenStays, <1>MonitorSteps, ZenonT(30)
      <3>3. CASE g = h
          <4>1. \A f \in Engines : Waking(h, f)' <=> Waking(h, f) /\ f # e
              BY <2>0, <2>1, <3>1, <3>3, ZenonT(30) DEF Waking, Aside
          <4>2. Woken(h)' = {Watch(f) : f \in {f \in Engines : Waking(h, f)'}}
              BY ZenonT(30) DEF Woken, Waking
          <4>3. Woken(h)' = Woken(h) \ {t}
              <5>1. \A f \in Engines : Watch(f) = t => f = e
                  BY <2>2, OwnersDiffer, Zenon
              <5> QED
                  <6>1. /\ \A f \in Engines : Watch(f) \in Woken(h) <=> Waking(h, f)
                        /\ \A x \in Woken(h) : \E f \in Engines : x = Watch(f) /\ Waking(h, f)
                      BY <1>WokenIs, Zenon
                  <6>2. ASSUME NEW x \in Woken(h)' PROVE x \in Woken(h) /\ x # t
                      <7>1. PICK f \in Engines : x = Watch(f) /\ Waking(h, f)'
                          BY <4>2, Zenon
                      <7> QED
                          BY <2>2, <4>1, <5>1, <6>1, <7>1, Zenon
                  <6>3. ASSUME NEW x \in Woken(h), x # t PROVE x \in Woken(h)'
                      <7>1. PICK f \in Engines : x = Watch(f) /\ Waking(h, f)
                          BY <6>1, Zenon
                      <7>2. Waking(h, f)'
                          BY <2>2, <4>1, <6>3, <7>1, Zenon
                      <7> QED
                          BY <4>2, <7>1, <7>2, Zenon
                  <6> QED
                      BY <6>2, <6>3, Zenon
          <4>4. t \in Woken(h)
              <5>1. Waking(h, e)
                  BY <2>1, <2>2, <3>1, Zenon DEF Waking
              <5>2. Watch(e) \in Woken(h) <=> Waking(h, e)
                  BY <1>WokenIs, Zenon
              <5> QED
                  BY <2>2, <5>1, <5>2, Zenon
          <4> QED
              BY <3>1, <3>3, <4>3, <4>4, <1>MonitorSteps, ZenonT(30)
      <3> QED
          BY <3>2, <3>3, ZenonT(30)
  <2>10. CASE Sleep(e)
      <3>1. /\ owner'[h] = Free /\ waiting'[h] = waiting[h] \cup {t} /\ UNCHANGED egen
            /\ wpc[e] = "check" /\ wpc'[e] = "waiting"
            /\ g # h => owner'[g] = owner[g] /\ waiting'[g] = waiting[g]
          BY <2>10, <2>t, <2>1, <2>2, ZenonT(30) DEF Sleep, Wait, Unlock, WatchGoto
      <3>2. owner[h] = t
          BY <2>1, <2>2, <3>1, ZenonT(30) DEF IInv, Mutex
      <3>3. \A f \in Engines : Waking(g, f)' <=> Waking(g, f)
          BY <2>0, <2>1, <2>2, <3>1, OwnersDiffer, SMTT(30) DEF Waking, Aside
      <3> QED
          BY <3>1, <3>2, <3>3, <1>WokenStays, <1>MonitorSteps, ZenonT(30)
  <2>11. CASE InitFacade(e) \/ SwapFacade(e) \/ StopLocked(e) \/ (InitThrows(e) /\ Unlock(h) /\ UNCHANGED waiting)
      <3>1. /\ Unlock(h) /\ UNCHANGED waiting /\ wpc[e] \in {"init", "swap", "check"}
            /\ wpc'[e] # "waiting"
          BY <2>11, <2>t, <2>1, ZenonT(30) DEF InitFacade, SwapFacade, StopLocked, InitThrows, Gone, WatchGoto
      <3>2. owner[h] = t
          BY <2>1, <2>2, <3>1, ZenonT(30) DEF IInv, Mutex
      <3> QED
          BY <2>6, <3>1, <3>2, <1>UnlockStep, Zenon
  <2>12. CASE DestructorNotify(e)
      <3>1. NotifyAll(h, m) /\ UNCHANGED <<wpc, egen>>
          BY <2>12, <2>1, <2>3, ZenonT(30) DEF DestructorNotify
      <3> QED
          BY <2>5, <3>1, <1>NotifyStep, ZenonT(30)
  <2>13. CASE DestructorNotified(e)
      <3>1. Unlock(h) /\ UNCHANGED <<waiting, wpc, egen>> /\ mpc[e] = "notified"
          BY <2>13, <2>1, ZenonT(30) DEF DestructorNotified
      <3>2. owner[h] = m
          BY <2>1, <2>3, <3>1, ZenonT(30) DEF IInv, Mutex
      <3> QED
          BY <2>6, <3>1, <3>2, <1>UnlockStep, ZenonT(30)
  <2>14. ASSUME Gone(e), NEW ps \in SUBSET {Watch(e), Main(e)}, Watch(e) \in ps, Abandon(ps)
         PROVE  MonitorStep(g)
      <3>1. ps \in SUBSET Threads
          BY <1>ThreadsAre, Zenon
      <3>2. wpc'[e] = "off" /\ waiting'[g] = waiting[g] \ ps
          BY <2>14, <2>t, ZenonT(30) DEF Gone, WatchGoto, Abandon
      <3>3. \A f \in Engines : Watch(f) \in ps <=> f = e
          BY <2>14, OwnersDiffer, ZenonT(30)
      <3>4. \A f \in Engines : Waking(g, f)' <=> Waking(g, f) /\ Watch(f) \notin ps
          BY <2>0, <3>2, <3>3, ZenonT(30) DEF Waking, Aside
      <3> QED
          BY <2>14, <3>1, <3>4, <1>AbandonStep, ZenonT(30)
  <2>15. CASE \/ InitThrows(e) /\ Abandon({Watch(e)})
              \/ SwapThrows(e)
              \/ EngineDies(e)
      <3>1. Gone(e) /\ (Abandon({Watch(e)}) \/ Abandon({Watch(e), Main(e)}))
          BY <2>15, ZenonT(30) DEF InitThrows, SwapThrows, EngineDies, EngineKilled
      <3> QED
          BY <2>14, <3>1, ZenonT(30)
  <2>16. InitThrows(e) => (Unlock(h) /\ UNCHANGED waiting) \/ Abandon({Watch(e)})
      BY <2>1, Zenon DEF InitThrows
  <2> QED
      BY <2>7, <2>8, <2>9, <2>10, <2>11, <2>12, <2>13, <2>15, <2>16, ZenonT(30)
         DEF EngineNext, OnlyEngine, EngineStep, EngineProgress
<1>1. Init => \A g \in Gens : MonitorOf(g)!Init
    BY DEF Init, SharedInit, EngineInit, MonitorOf!Init
<1>2. IInv /\ [Next]_vars => [\A g \in Gens : MonitorOf(g)!Next \/ UNCHANGED MonitorOf(g)!vars]_vars
    <2> SUFFICES ASSUME IInv, Next, NEW g \in Gens PROVE MonitorStep(g)
        BY Zenon DEF MonitorStep
    <2>1. CASE UNCHANGED <<monitor, engineVars>>
        <3>1. \A e \in Engines : Waking(g, e)' <=> Waking(g, e)
            BY <2>1, Zenon DEF Waking, monitor, engineVars
        <3>2. owner'[g] = owner[g] /\ waiting'[g] = waiting[g]
            BY <2>1, Zenon DEF monitor
        <3> QED
            BY <3>1, <3>2, <1>WokenStays, <1>MonitorSteps, ZenonT(30)
    <2>2. CASE ListReads \/ ListOpens \/ ListThrows \/ RemoveLocks
        BY <2>1, <2>2, ZenonT(30) DEF ListReads, ListOpens, ListThrows, RemoveLocks, shared, monitor
    <2> QED
        BY <2>2, <1>StoreMonitor, <1>EngineMonitor, ZenonT(30) DEF Next, Fault
<1> QED
    BY <1>1, <1>2, SwapInvariant, PTL DEF Spec, UsesMonitor

(***************************************************************************)
(* The published version                                                   *)
(***************************************************************************)
(* swapData registers the static region of a dataset first. *)
StaticFirst ==
    lastGen # 0 => \A d \in Datasets : Find(lastGen, d, "updatable") => Find(lastGen, d, "static")

(* The unique datastore that has swapped only one region tells the version. *)
PublishedFacts ==
    \A d \in Datasets :
        /\ (lastGen = 0 \/ ~Find(lastGen, d, "updatable")) => Published(d) = NoFacade
        /\ (lastGen # 0 /\ Find(lastGen, d, "updatable")) =>
               /\ (\A s \in Stores : ~HalfPublished(s, d)) => Published(d) = Map(region[lastGen][d])
               /\ \A s \in Stores : HalfPublished(s, d) =>
                      Published(d) = [Map(region[lastGen][d]) EXCEPT !["static"] = oldSeg[s]["static"]]

(* Regions are swapped under the mutex of the latest block, ... *)
LEMMA PublisherOwns ==
    ASSUME IInv, NEW s \in Stores, spc[s] = "publish"
    PROVE  owner[lastGen] = Store(s) /\ lastGen # 0
BY ZenonT(30) DEF IInv, Mutex, Serial, Running

(* ... so by one datastore at a time. *)
LEMMA PublishersDiffer ==
    ASSUME IInv, NEW s \in Stores, NEW t \in Stores, spc[s] = "publish", spc[t] = "publish"
    PROVE  s = t
BY PublisherOwns, OwnersDiffer, ZenonT(30)

(* Published without its CHOOSE. *)
LEMMA PublishedIs == IInv => PublishedFacts
<1> SUFFICES ASSUME IInv, NEW d \in Datasets
             PROVE  /\ (lastGen = 0 \/ ~Find(lastGen, d, "updatable")) => Published(d) = NoFacade
                    /\ (lastGen # 0 /\ Find(lastGen, d, "updatable")) =>
                           /\ (\A s \in Stores : ~HalfPublished(s, d)) =>
                                  Published(d) = Map(region[lastGen][d])
                           /\ \A s \in Stores : HalfPublished(s, d) =>
                                  Published(d) = [Map(region[lastGen][d]) EXCEPT
                                                     !["static"] = oldSeg[s]["static"]]
    BY Zenon DEF PublishedFacts
<1>1. ASSUME NEW s \in Stores, HalfPublished(s, d)
      PROVE  (CHOOSE t \in Stores : HalfPublished(t, d)) = s
    <2>1. \A t \in Stores : HalfPublished(t, d) => t = s
        BY <1>1, PublishersDiffer, ZenonT(30) DEF HalfPublished
    <2> QED
        BY <1>1, <2>1, Zenon
<1> QED
    BY <1>1, ZenonT(30) DEF Published

(* Nobody but the owner of the mutex is in the middle of publishing. *)
LEMMA NobodyHalf ==
    ASSUME IInv, NEW e \in Engines, lastGen # 0, owner[lastGen] = Watch(e), NEW s \in Stores
    PROVE  spc[s] # "publish"
BY PublisherOwns, OwnersDiffer, ZenonT(30)

(* A metric is registered after its static data, and regions stay. *)
LEMMA StaticFirstStays == IInv /\ StaticFirst /\ [Next]_vars => StaticFirst'
<1> SUFFICES ASSUME IInv, StaticFirst, [Next]_vars PROVE StaticFirst'
    OBVIOUS
<1>k. "static" \in Kinds /\ "updatable" \in Kinds
    BY Zenon DEF Kinds
<1>1. CASE UNCHANGED <<lastGen, region>>
    BY <1>1, Zenon DEF StaticFirst, Find
<1>2. ASSUME NEW s \in Stores, OpenMonitor(s) PROVE StaticFirst'
    <2>1. UNCHANGED region /\ (lastGen' = lastGen \/ (lastGen' > lastGen /\ lastGen' \in Gens))
        BY <1>2, ConstantsTyped, SMTT(30) DEF OpenMonitor, OpenOrCreate, block, register, IInv, TypeOK,
                                    SharedTypeOK, Gens
    <2>2. CASE lastGen' # lastGen
        BY <1>k, <2>1, <2>2, Zenon DEF StaticFirst, Find, IInv, Serial
    <2> QED
        BY <1>1, <2>1, <2>2, ZenonT(30)
<1>3. ASSUME NEW s \in Stores, PublishRegion(s) PROVE StaticFirst'
    <2>1. PICK ds \in Datasets : ds = job[s].ds
        BY WorkTyped, Zenon
    <2>2. PICK kind \in Kinds : kind = skind[s]
        BY <1>3, PublishEffect, ZenonT(30)
    <2>3. /\ lastGen' = lastGen /\ lastGen # 0 /\ spc[s] = "publish"
          /\ region'[lastGen][ds][kind].timestamp # 0
          /\ \A d \in Datasets, k \in Kinds :
                 (d # ds \/ k # kind) => region'[lastGen][d][k] = region[lastGen][d][k]
        <3>1. /\ lastGen' = lastGen /\ lastGen # 0 /\ spc[s] = "publish"
              /\ region'[lastGen][job[s].ds][skind[s]].timestamp # 0
            BY <1>3, PublishEffect, Zenon
        <3>2. \A d \in Datasets, k \in Kinds :
                  (d # job[s].ds \/ k # skind[s]) => region'[lastGen][d][k] = region[lastGen][d][k]
            BY <1>3, PublishEffect, Zenon
        <3> QED
            BY <2>1, <2>2, <3>1, <3>2, Zenon
    <2>4. kind = "updatable" => Find(lastGen, ds, "static")
        <3>1. CASE job[s].onlyMetric
            BY <2>1, <2>3, <3>1, ZenonT(30) DEF IInv, Handles, Work, ReadOnlyOK
        <3>2. CASE ~job[s].onlyMetric
            BY <1>k, <2>1, <2>2, <2>3, <3>2, ZenonT(30) DEF IInv, Handles, Work, SwappedOK, Swapped, Wanted
        <3> QED
            BY <3>1, <3>2, Zenon
    <2>5. ASSUME NEW d \in Datasets, region'[lastGen][d]["updatable"].timestamp # 0
          PROVE  region'[lastGen][d]["static"].timestamp # 0
        BY <1>k, <2>3, <2>4, <2>5, ZenonT(30) DEF StaticFirst, Find
    <2> QED
        BY <2>3, <2>5, Zenon DEF StaticFirst, Find
<1>4. ASSUME NEW s \in Stores, StoreNext(s) \/ StoreDies(s) PROVE StaticFirst'
    <2>1. CASE Start(s) \/ AcquireFileLock(s) \/ Ends(s)
        BY <1>1, <2>1, BeginStored, EndsFrame, ZenonT(30)
    <2>2. CASE Inner(s) /\ ~PublishRegion(s)
        BY <1>1, <2>2, Zenon DEF Inner, AttachStatic, SetupRegion, Populate, SwapLock, NotifyEngines,
                    NotifyReturns, SkipOld, RemoveOld, WaitForDetach, shared, register, block
    <2> QED
        BY <1>2, <1>3, <1>4, <2>1, <2>2, StoreActions, ZenonT(30)
<1>5. ASSUME NEW e \in Engines, EngineNext(e) PROVE StaticFirst'
    BY <1>1, <1>5, EngineElsewhere, ZenonT(30) DEF EngineNext, OnlyEngine, block, register
<1>6. CASE ListReads \/ ListOpens \/ ListThrows \/ RemoveLocks \/ UNCHANGED vars
           \/ \E e \in Engines : EngineDies(e)
    BY <1>1, <1>6, ZenonT(30) DEF ListReads, ListOpens, ListThrows, RemoveLocks, RemoveBlock, vars, shared,
                      EngineDies, EngineKilled, block, register
<1> QED
    BY <1>4, <1>5, <1>6, ZenonT(30) DEF Next, Fault

(* Steps that neither swap a region nor end a datastore between its two      *)
(* swaps publish nothing.                                                    *)
LEMMA PublishedFrame ==
    ASSUME IInv, IInv', StaticFirst, UNCHANGED <<lastGen, region>>, Kept, NEW d \in Datasets,
           \/ \A s \in Stores : /\ HalfPublished(s, d)' <=> HalfPublished(s, d)
                                /\ HalfPublished(s, d) => oldSeg'[s]["static"] = oldSeg[s]["static"]
           \/ ~Find(lastGen, d, "updatable")
    PROVE  Published(d)' = Published(d)
<1>k. "static" \in Kinds /\ "updatable" \in Kinds /\ Kinds = {"static", "updatable"}
    BY Zenon DEF Kinds
<1>1. PublishedFacts /\ PublishedFacts'
    BY PublishedIs, PTL
<1>2. CASE lastGen = 0 \/ ~Find(lastGen, d, "updatable")
    BY <1>1, <1>2, Zenon DEF PublishedFacts, Find
<1>3. CASE lastGen # 0 /\ Find(lastGen, d, "updatable")
    <2>1. Find(lastGen, d, "static")
        BY <1>3, Zenon DEF StaticFirst
    <2>2. \A k \in Kinds : shm'[region[lastGen][d][k].key] = shm[region[lastGen][d][k].key]
        BY <1>k, <1>3, <2>1, ZenonT(30) DEF Kept
    <2>3. Map(region[lastGen][d])' = Map(region[lastGen][d])
        BY <2>2, ZenonT(30) DEF Map
    <2>4. Find(lastGen, d, "updatable")' /\ lastGen' # 0
        BY <1>3, ZenonT(30) DEF Find
    <2>5. CASE \A s \in Stores : ~HalfPublished(s, d)
        <3>1. Published(d) = Map(region[lastGen][d])
            BY <1>1, <1>3, <2>5, ZenonT(30) DEF PublishedFacts
        <3>2. Published(d)' = Map(region[lastGen][d])'
            BY <1>1, <1>3, <2>4, <2>5, ZenonT(30) DEF PublishedFacts
        <3> QED
            BY <2>3, <3>1, <3>2, ZenonT(30)
    <2>6. ASSUME NEW s \in Stores, HalfPublished(s, d) PROVE Published(d)' = Published(d)
        <3>1. Published(d) = [Map(region[lastGen][d]) EXCEPT !["static"] = oldSeg[s]["static"]]
            BY <1>1, <1>3, <2>6, ZenonT(30) DEF PublishedFacts
        <3>2. Published(d)' = [Map(region[lastGen][d])' EXCEPT !["static"] = oldSeg'[s]["static"]]
            BY <1>1, <1>3, <2>4, <2>6, ZenonT(30) DEF PublishedFacts
        <3>3. oldSeg'[s]["static"] = oldSeg[s]["static"]
            BY <1>3, <2>6, ZenonT(30)
        <3> QED
            BY <2>3, <3>1, <3>2, <3>3, ZenonT(30)
    <2> QED
        BY <2>5, <2>6, ZenonT(30)
<1> QED
    BY <1>2, <1>3, ZenonT(30)

(***************************************************************************)
(* LiveData                                                                *)
(***************************************************************************)
(* The version an engine serves, as LiveData sees it *)
Serving(e) == IF Protected(e) THEN facade[e] ELSE NoFacade

LiveStep == Live!Next \/ UNCHANGED Live!vars

(* The one fault that tears a dataset: a death between the two swaps *)
HalfPublisherDies ==
    Fault /\ \E s \in Stores, d \in Datasets : HalfPublished(s, d) /\ StoreDies(s)

(* A step that LiveData does not see. *)
LEMMA LiveStutter ==
    ASSUME \A d \in Datasets : Published(d)' = Published(d),
           \A e \in Engines : Serving(e)' = Serving(e), eds' = eds
    PROVE  LiveStep
<1>1. [d \in Datasets |-> Published(d)]' = [d \in Datasets |-> Published(d)]
    BY Zenon
<1>2. [e \in Engines |-> IF Protected(e) THEN facade[e] ELSE NoFacade]'
          = [e \in Engines |-> IF Protected(e) THEN facade[e] ELSE NoFacade]
    BY Zenon DEF Serving
<1> QED
    BY <1>1, <1>2, ZenonT(30) DEF LiveStep, Live!vars

(* A step that publishes a new version of one dataset. *)
LEMMA LivePublish ==
    ASSUME NEW ds \in Datasets, Published(ds)' # NoFacade,
           Published(ds)'["static"].extract = Published(ds)'["updatable"].extract,
           Published(ds)'["static"].ds = ds, Published(ds)'["updatable"].ds = ds,
           \A d \in Datasets : d # ds => Published(d)' = Published(d),
           \A e \in Engines : Serving(e)' = Serving(e), eds' = eds
    PROVE  LiveStep
<1> DEFINE old == [d \in Datasets |-> Published(d)]
           new == [d \in Datasets |-> Published(d)']
<1>1. new[ds] = Published(ds)' /\ new = [old EXCEPT ![ds] = new[ds]]
    BY Zenon
<1>2. [e \in Engines |-> IF Protected(e) THEN facade[e] ELSE NoFacade]'
          = [e \in Engines |-> IF Protected(e) THEN facade[e] ELSE NoFacade]
    BY Zenon DEF Serving
<1>3. Live!Publish(ds)
    BY <1>1, <1>2, ZenonT(30) DEF Live!Publish, Live!Matches
<1> QED
    BY <1>3, Zenon DEF LiveStep, Live!Next

(* What happens to one engine *)
LEMMA LiveEngine ==
    ASSUME IInv, NEW e \in Engines, NEW d \in Datasets,
           \A x \in Datasets : Published(x)' = Published(x),
           \A f \in Engines \ {e} : Serving(f)' = Serving(f),
           \/ Serving(e) = NoFacade /\ Serving(e)' = NoFacade /\ eds' = [eds EXCEPT ![e] = d]
           \/ Serving(e)' = NoFacade /\ eds' = [eds EXCEPT ![e] = d]
           \/ Serving(e)' = Published(eds[e]) /\ Published(eds[e]) # NoFacade /\ eds' = eds
    PROVE  LiveStep
<1> DEFINE old == [f \in Engines |-> IF Protected(f) THEN facade[f] ELSE NoFacade]
           new == [f \in Engines |-> IF Protected(f)' THEN facade'[f] ELSE NoFacade]
<1>1. [x \in Datasets |-> Published(x)]' = [x \in Datasets |-> Published(x)]
    BY Zenon
<1>2. new = [old EXCEPT ![e] = Serving(e)']
    BY Zenon DEF Serving
<1>3. CASE Serving(e)' = NoFacade /\ eds' = [eds EXCEPT ![e] = d]
    <2>1. Live!Disconnect(e)
        BY <1>1, <1>2, <1>3, ZenonT(30) DEF Live!Disconnect
    <2> QED
        BY <2>1, Zenon DEF LiveStep, Live!Next
<1>4. CASE Serving(e)' = Published(eds[e]) /\ Published(eds[e]) # NoFacade /\ eds' = eds
    <2>1. eds[e] \in Datasets
        BY Zenon DEF IInv, TypeOK, EngineTypeOK
    <2>2. Live!Load(e)
        BY <1>1, <1>2, <1>4, <2>1, ZenonT(30) DEF Live!Load
    <2> QED
        BY <2>2, Zenon DEF LiveStep, Live!Next
<1> QED
    BY <1>3, <1>4, Zenon

(* A step that creates the control block anew. *)
LEMMA LiveReset ==
    ASSUME \A d \in Datasets : Published(d)' = NoFacade,
           \A e \in Engines : Serving(e)' = NoFacade, eds' = eds
    PROVE  LiveStep
<1>1. [d \in Datasets |-> Published(d)]' = [d \in Datasets |-> NoFacade]
    BY Zenon
<1>2. [e \in Engines |-> IF Protected(e) THEN facade[e] ELSE NoFacade]'
          = [e \in Engines |-> NoFacade]
    BY Zenon DEF Serving
<1>3. Live!Reset
    BY <1>1, <1>2, ZenonT(30) DEF Live!Reset
<1> QED
    BY <1>3, Zenon DEF LiveStep, Live!Next

(* Swapping the first of two regions is not seen ... *)
LEMMA PublishStatic ==
    ASSUME IInv, IInv', StaticFirst, NEW s \in Stores, PublishRegion(s), skind[s] = "static",
           StoreNext(s), NEW d \in Datasets
    PROVE  Published(d)' = Published(d)
<1>k. "static" \in Kinds /\ "updatable" \in Kinds /\ Kinds = {"static", "updatable"}
    BY Zenon DEF Kinds
<1>1. PICK ds \in Datasets : ds = job[s].ds
    BY WorkTyped, ZenonT(30)
<1>2. /\ lastGen' = lastGen /\ lastGen # 0 /\ spc[s] = "publish" /\ shm' = shm
      /\ spc'[s] = "publish" /\ skind'[s] = "updatable" /\ job' = job
      /\ oldSeg'[s]["static"] = IF Find(lastGen, ds, "static")
                                THEN shm[region[lastGen][ds]["static"].key] ELSE NoSegment
      /\ Running(s)
    <2>1. /\ lastGen' = lastGen /\ lastGen # 0 /\ spc[s] = "publish" /\ shm' = shm
          /\ job' = job /\ Running(s)
        BY PublishEffect, Zenon
    <2>2. spc'[s] = "publish" /\ skind'[s] = "updatable"
        BY PublishEffect, Zenon
    <2>3. oldSeg'[s][skind[s]] = IF Find(lastGen, job[s].ds, skind[s])
                                 THEN shm[region[lastGen][job[s].ds][skind[s]].key]
                                 ELSE NoSegment
        BY PublishEffect, Zenon
    <2> QED
        BY <1>1, <2>1, <2>2, <2>3, Zenon
<1>3. \A x \in Datasets, k \in Kinds :
          (x # ds \/ k # "static") => region'[lastGen][x][k] = region[lastGen][x][k]
    <2>1. \A x \in Datasets, k \in Kinds :
              (x # job[s].ds \/ k # skind[s]) => region'[lastGen][x][k] = region[lastGen][x][k]
        BY PublishEffect, Zenon
    <2> QED
        BY <1>1, <2>1, Zenon
<1>4. \A t \in Stores : ~HalfPublished(t, d)
    BY <1>2, PublishersDiffer, Zenon DEF HalfPublished
<1>5. \A t \in Stores : spc'[t] = "publish" => t = s
    BY <1>2, ElsewhereAll, PublishersDiffer, ZenonT(30) DEF Untouched
<1>6. ~job[s].onlyMetric
    BY <1>2, ZenonT(30) DEF IInv, Handles, Work, LoopOK
<1>7. PublishedFacts /\ PublishedFacts'
    BY PublishedIs, PTL
<1>8. region'[lastGen'][d]["updatable"] = region[lastGen][d]["updatable"]
    BY <1>k, <1>2, <1>3, ZenonT(30)
<1>9. CASE ~Find(lastGen, d, "updatable")
    BY <1>7, <1>8, <1>9, ZenonT(30) DEF PublishedFacts, Find
<1>10. CASE Find(lastGen, d, "updatable")
    <2>1. Published(d) = Map(region[lastGen][d])
        BY <1>2, <1>4, <1>7, <1>10, ZenonT(30) DEF PublishedFacts
    <2>2. lastGen' # 0 /\ Find(lastGen, d, "updatable")'
        BY <1>2, <1>8, <1>10, ZenonT(30) DEF Find
    <2>3. CASE d # ds
        <3>1. \A t \in Stores : ~HalfPublished(t, d)'
            BY <1>1, <1>2, <1>5, <2>3, ZenonT(30) DEF HalfPublished
        <3>2. Published(d)' = Map(region[lastGen][d])'
            BY <1>7, <2>2, <3>1, ZenonT(30) DEF PublishedFacts
        <3>3. Map(region[lastGen][d])' = Map(region[lastGen][d])
            BY <1>2, <1>3, <2>3, ZenonT(30) DEF Map
        <3> QED
            BY <2>1, <3>2, <3>3, ZenonT(30)
    <2>4. CASE d = ds
        <3>1. HalfPublished(s, d)'
            BY <1>1, <1>2, <1>6, <2>4, ZenonT(30) DEF HalfPublished
        <3>2. Published(d)' = [Map(region[lastGen][d])' EXCEPT !["static"] = oldSeg'[s]["static"]]
            BY <1>7, <2>2, <3>1, ZenonT(30) DEF PublishedFacts
        <3>3. oldSeg'[s]["static"] = shm[region[lastGen][d]["static"].key]
            BY <1>2, <1>10, <2>4, ZenonT(30) DEF StaticFirst
        <3>4. Map(region[lastGen][d])' = [k \in Kinds |-> shm'[region'[lastGen'][d][k].key]]
            BY Zenon DEF Map
        <3>5. Published(d)' = [k \in Kinds |-> IF k = "static" THEN shm[region[lastGen][d]["static"].key]
                                                              ELSE shm[region[lastGen][d]["updatable"].key]]
            <4>1. Published(d)' = [k \in Kinds |-> IF k = "static" THEN oldSeg'[s]["static"]
                                                    ELSE shm'[region'[lastGen'][d][k].key]]
                BY <3>2, <3>4, ZenonT(30)
            <4>2. shm'[region'[lastGen'][d]["updatable"].key] = shm[region[lastGen][d]["updatable"].key]
                BY <1>2, <1>8, ZenonT(30)
            <4> QED
                BY <1>k, <3>3, <4>1, <4>2, ZenonT(30)
        <3>6. Map(region[lastGen][d]) = [k \in Kinds |-> IF k = "static" THEN shm[region[lastGen][d]["static"].key]
                                                              ELSE shm[region[lastGen][d]["updatable"].key]]
            BY <1>k, ZenonT(30) DEF Map
        <3> QED
            BY <2>1, <3>5, <3>6, ZenonT(30)
    <2> QED
        BY <2>3, <2>4, ZenonT(30)
<1> QED
    BY <1>9, <1>10, ZenonT(30)

(* ... and swapping the second publishes the dataset. *)
LEMMA PublishUpdatable ==
    ASSUME IInv, IInv', StaticFirst', NEW s \in Stores, PublishRegion(s), skind[s] = "updatable",
           StoreNext(s)
    PROVE  LiveStep
<1>k. "static" \in Kinds /\ "updatable" \in Kinds /\ Kinds = {"static", "updatable"}
    BY Zenon DEF Kinds
<1>1. PICK ds \in Datasets : ds = job[s].ds
    BY WorkTyped, Zenon
<1>2. /\ lastGen' = lastGen /\ lastGen # 0 /\ lastGen \in Gens /\ spc[s] = "publish" /\ shm' = shm
      /\ spc'[s] = "notify" /\ sgen[s] = lastGen
      /\ region'[lastGen][ds]["updatable"].timestamp # 0
    BY <1>1, PublishEffect, ZenonT(30)
<1>3. \A x \in Datasets, k \in Kinds :
          (x # ds \/ k # "updatable") => region'[lastGen][x][k] = region[lastGen][x][k]
    <2>1. \A x \in Datasets, k \in Kinds :
              (x # job[s].ds \/ k # skind[s]) => region'[lastGen][x][k] = region[lastGen][x][k]
        BY PublishEffect, Zenon
    <2> QED
        BY <1>1, <2>1, Zenon
<1>4. \A t \in Stores : spc'[t] # "publish"
    BY <1>2, ElsewhereAll, PublishersDiffer, ZenonT(30) DEF Untouched
<1>5. \A t \in Stores, d \in Datasets : ~HalfPublished(t, d)'
    BY <1>4, Zenon DEF HalfPublished
<1>6. PublishedFacts /\ PublishedFacts'
    BY PublishedIs, PTL
<1>7. ASSUME NEW d \in Datasets, d # ds PROVE Published(d)' = Published(d)
    <2>1. \A t \in Stores : ~HalfPublished(t, d)
        BY <1>1, <1>2, <1>7, PublishersDiffer, ZenonT(30) DEF HalfPublished
    <2>2. Map(region[lastGen][d])' = Map(region[lastGen][d])
        BY <1>2, <1>3, <1>7, ZenonT(30) DEF Map
    <2>3. Find(lastGen, d, "updatable")' <=> Find(lastGen, d, "updatable")
        BY <1>k, <1>2, <1>3, <1>7, ZenonT(30) DEF Find
    <2> QED
        <3>1. CASE ~Find(lastGen, d, "updatable")
            BY <1>6, <2>3, <3>1, Zenon DEF PublishedFacts
        <3>2. CASE Find(lastGen, d, "updatable")
            <4>1. Published(d) = Map(region[lastGen][d])
                BY <1>2, <1>6, <2>1, <3>2, Zenon DEF PublishedFacts
            <4>2. Published(d)' = Map(region[lastGen][d])'
                BY <1>2, <1>5, <1>6, <2>3, <3>2, Zenon DEF PublishedFacts
            <4> QED
                BY <2>2, <4>1, <4>2, Zenon
        <3> QED
            BY <3>1, <3>2, Zenon
<1>8. Published(ds)' = Map(region[lastGen][ds])'
    BY <1>2, <1>5, <1>6, ZenonT(30) DEF PublishedFacts, Find
<1>9. \A k \in Kinds : Published(ds)'[k] = shm'[region'[lastGen'][ds][k].key]
    BY <1>8, Zenon DEF Map
<1>10. \A k \in Kinds : Find(lastGen, ds, k)'
    BY <1>k, <1>2, ZenonT(30) DEF StaticFirst, Find
<1>11. \A k \in Kinds : Published(ds)'[k] # NoSegment /\ Published(ds)'[k].ds = ds
    <2>1. RegisteredIsMapped'
        BY Zenon DEF IInv
    <2>2. \A k \in Kinds : /\ shm'[region'[lastGen'][ds][k].key] # NoSegment
                           /\ shm'[region'[lastGen'][ds][k].key].ds = ds
        BY <1>2, <1>10, <2>1, ZenonT(30) DEF RegisteredIsMapped
    <2> QED
        BY <1>9, <2>2, Zenon
<1>12. Published(ds)' # NoFacade
    <2>1. region'[lastGen][ds] \in [Kinds -> Regions]
        <3>1. region' \in [Gens -> [Datasets -> [Kinds -> Regions]]]
            BY Zenon DEF IInv, TypeOK, SharedTypeOK
        <3> QED
            BY <1>2, <3>1, ZenonT(30)
    <2>2. \A k \in Kinds : shm'[region'[lastGen][ds][k].key] \in Segments
        <3> SUFFICES ASSUME NEW k \in Kinds PROVE shm'[region'[lastGen][ds][k].key] \in Segments
            BY Zenon
        <3>1. region'[lastGen][ds][k].key \in Keys
            BY <2>1, Zenon DEF Regions
        <3>2. shm'[region'[lastGen][ds][k].key] \in MaybeSegments
            BY <3>1, Zenon DEF IInv, TypeOK, SharedTypeOK
        <3> QED
            BY <1>2, <1>9, <1>11, <3>2, ConstantsTyped, ZenonT(30)
    <2>3. Published(ds)' = [k \in Kinds |-> shm'[region'[lastGen][ds][k].key]]
        BY <1>2, <1>8, Zenon DEF Map
    <2>4. Published(ds)' \in Facades
        BY <2>2, <2>3, Zenon DEF Facades
    <2> QED
        BY <2>4, NoFacadeAssumption, Zenon
<1>13. Published(ds)'["static"].extract = Published(ds)'["updatable"].extract
    <2>1. owner'[lastGen] = Free
        BY <1>2, PlacesTyped, Zenon DEF PublishRegion, Unlock, IInv
    <2>2. Matched(ds)'
        BY <1>2, <1>5, <2>1, OwnersDiffer, Zenon DEF IInv, Halves
    <2> QED
        BY <1>k, <1>9, <1>10, <2>2, ZenonT(30) DEF Matched
<1>14. (\A e \in Engines : Serving(e)' = Serving(e)) /\ eds' = eds
    BY <1>2, StoreActions, Zenon DEF Serving, Protected
<1> QED
    BY <1>k, <1>7, <1>11, <1>12, <1>13, <1>14, LivePublish, ZenonT(30)

(* A datastore's step is a step of LiveData. *)
LEMMA StoreLive ==
    ASSUME IInv, IInv', StaticFirst, StaticFirst', NEW s \in Stores,
           StoreNext(s) \/ (StoreDies(s) /\ \A d \in Datasets : ~HalfPublished(s, d))
    PROVE  LiveStep
<1>0. StoreNext(s) \/ StoreDies(s)
    BY Zenon
<1>1. UNCHANGED <<egen, facade, eds>>
    BY <1>0, StoreActions, Zenon
<1>2. ASSUME lastGen' = lastGen
      PROVE  \A e \in Engines : Serving(e)' = Serving(e)
    BY <1>1, <1>2, Zenon DEF Serving, Protected
<1>3. \A t \in Stores \ {s}, d \in Datasets :
          /\ HalfPublished(t, d)' <=> HalfPublished(t, d)
          /\ oldSeg'[t] = oldSeg[t]
    BY <1>0, ElsewhereAll, ZenonT(30) DEF Untouched, HalfPublished
<1>4. ASSUME UNCHANGED <<lastGen, region>>, Kept,
             \A d \in Datasets : \/ ~HalfPublished(s, d)' /\ ~HalfPublished(s, d)
                                 \/ ~Find(lastGen, d, "updatable")
      PROVE  LiveStep
    <2>1. \A d \in Datasets : Published(d)' = Published(d)
        BY <1>3, <1>4, PublishedFrame, Zenon
    <2> QED
        BY <1>1, <1>2, <1>4, <2>1, LiveStutter, Zenon
<1>5. CASE Start(s) \/ AcquireFileLock(s)
    <2>1. UNCHANGED <<lastGen, region>> /\ Kept
        BY <1>5, BeginStored, Zenon
    <2>2. spc[s] # "publish" /\ spc'[s] # "publish"
        BY <1>5, PlacesTyped, Zenon DEF Start, AcquireFileLock, Goto, IInv
    <2> QED
        BY <1>4, <2>1, <2>2, Zenon DEF HalfPublished
<1>6. CASE OpenMonitor(s)
    <2>1. CASE lastGen' = lastGen
        <3>1. UNCHANGED <<region>> /\ Kept
            BY <1>6, <2>1, OpenStored, Zenon DEF OpenMonitor, register
        <3>2. spc[s] # "publish" /\ spc'[s] # "publish"
            BY <1>6, PlacesTyped, Zenon DEF OpenMonitor, Goto, IInv
        <3> QED
            BY <1>4, <2>1, <3>1, <3>2, Zenon DEF HalfPublished
    <2>2. CASE lastGen' # lastGen
        <3>1. lastGen' > lastGen /\ lastGen' \in Gens /\ region' = region /\ lastGen' \in Nat
            BY <1>6, <2>2, OpenStored, ConstantsTyped, Zenon DEF OpenMonitor, register
        <3>2. \A d \in Datasets : ~Find(lastGen, d, "updatable")'
            <4>1. \A d \in Datasets, k \in Kinds : ~Find(lastGen', d, k)
                BY <3>1, Zenon DEF IInv, Serial
            <4> QED
                BY <3>1, <4>1, Zenon DEF Find, Kinds
        <3>3. PublishedFacts'
            BY PublishedIs, PTL
        <3>4. \A d \in Datasets : Published(d)' = NoFacade
            BY <3>2, <3>3, Zenon DEF PublishedFacts
        <3>5. \A e \in Engines : egen[e] = lastGen' => facade[e] = NoFacade
            BY <3>1, NewGeneration, Zenon
        <3>6. \A e \in Engines : Serving(e)' = NoFacade
            BY <1>1, <3>5, Zenon DEF Serving, Protected
        <3> QED
            BY <1>1, <3>4, <3>6, LiveReset, ZenonT(30)
    <2> QED
        BY <2>1, <2>2, Zenon
<1>7. CASE Inner(s) /\ ~PublishRegion(s)
    <2>1. UNCHANGED <<lastGen, region>> /\ Kept
        <3>1. lastGen' = lastGen /\ Kept
            BY <1>7, InnerFrame, InnerStored, Zenon
        <3>2. UNCHANGED region
            BY <1>7, Zenon DEF Inner, AttachStatic, SetupRegion, Populate, SwapLock, NotifyEngines,
                        NotifyReturns, SkipOld, RemoveOld, WaitForDetach, shared, register
        <3> QED
            BY <3>1, <3>2, Zenon
    <2>2. spc[s] # "publish"
        BY <1>7, Zenon DEF Inner, AttachStatic, SetupRegion, Populate, SwapLock, NotifyEngines,
                    NotifyReturns, SkipOld, RemoveOld, WaitForDetach
    <2>3. spc'[s] = "publish" => spc[s] = "swap" /\ UNCHANGED <<skind, job>>
        BY <1>7, PlacesTyped, <2>2, ZenonT(30)
           DEF Inner, AttachStatic, SetupRegion, Populate, SwapLock, NotifyEngines, NextHandle,
               NotifyReturns, SkipOld, RemoveOld, WaitForDetach, Goto, IInv, command
    <2>4. spc[s] = "swap" => skind[s] = FirstKind(s)
        BY Zenon DEF IInv, Handles, Work, LoopOK, Running
    <2>5. \A d \in Datasets : ~HalfPublished(s, d)' /\ ~HalfPublished(s, d)
        BY <2>2, <2>3, <2>4, Zenon DEF HalfPublished, FirstKind
    <2> QED
        BY <1>4, <2>1, <2>5, Zenon
<1>8. CASE PublishRegion(s)
    <2>1. StoreNext(s)
        BY <1>8, PublishEffect, PlacesTyped, Zenon DEF StoreDies, Killed, Signalled, Die, Leave, Goto, IInv
    <2>2. CASE skind[s] = "updatable"
        BY <1>8, <2>1, <2>2, PublishUpdatable, ZenonT(30)
    <2>3. CASE skind[s] = "static"
        <3>1. lastGen' = lastGen
            BY <1>8, PublishEffect, Zenon
        <3> QED
            BY <1>1, <1>2, <1>8, <2>1, <2>3, <3>1, PublishStatic, LiveStutter, ZenonT(30)
    <2> QED
        BY <2>2, <2>3, WorkTyped, Zenon
<1>9. CASE Ends(s)
    <2>1. UNCHANGED <<lastGen, region>> /\ Kept
        BY <1>9, EndsFrame, EndsStored, Zenon
    <2>2. spc'[s] = "idle"
        BY <1>9, EndsFrame, Zenon
    <2>3. ASSUME NEW d \in Datasets, HalfPublished(s, d) PROVE ~Find(lastGen, d, "updatable")
        <3>1. spc[s] = "publish" /\ job[s].ds = d /\ skind[s] = "updatable" /\ sgen[s] = lastGen
            BY <2>3, Zenon DEF HalfPublished, IInv, Serial, Running
        <3>2. ~PublishRegion(s)
            BY <2>2, PublishEffect, Zenon
        <3>3. Uncaught(s)
            BY <2>3, <3>1, <3>2, ZenonT(30)
               DEF StoreNext, OnlyStore, StoreStep, StoreProgress, Start, AcquireFileLock, OpenMonitor,
                   AttachStatic, SetupRegion, Populate, SwapLock, NotifyEngines, NotifyReturns, SkipOld,
                   RemoveOld, WaitForDetach, Exit, FileError, SwapTimeout
        <3> QED
            BY <3>1, <3>3, Zenon DEF Uncaught, Throws
    <2> QED
        BY <1>4, <2>1, <2>2, <2>3, Zenon DEF HalfPublished
<1> QED
    BY <1>5, <1>6, <1>7, <1>8, <1>9, <1>0, StoreActions, ZenonT(30)

(* An engine's step is a step of LiveData. *)
LEMMA EngineLive ==
    ASSUME IInv, IInv', StaticFirst, NEW e \in Engines, EngineNext(e) \/ EngineDies(e)
    PROVE  LiveStep
<1>0. /\ \A f \in Engines \ {e} : Aside(f)
      /\ UNCHANGED <<lastGen, region, shm, storeVars>>
    <2>1. CASE EngineNext(e)
        BY <2>1, EngineElsewhere, Zenon DEF EngineNext, OnlyEngine, block, register
    <2>2. CASE EngineDies(e)
        BY <2>2, GoneElsewhere, Zenon DEF EngineDies, EngineKilled, IInv, block, register
    <2> QED
        BY <2>1, <2>2, Zenon
<1>t. /\ wpc \in [Engines -> WatchLocations] /\ egen \in [Engines -> Gens]
      /\ eds \in [Engines -> Datasets] /\ copy \in [Engines -> [Kinds -> Regions]]
      /\ facade \in [Engines -> Facades \cup {NoFacade}]
    BY Zenon DEF IInv, TypeOK, EngineTypeOK
<1>1. \A d \in Datasets : Published(d)' = Published(d)
    <2>1. Kept
        BY <1>0, Zenon DEF Kept
    <2>2. \A s \in Stores, d \in Datasets : /\ HalfPublished(s, d)' <=> HalfPublished(s, d)
                                            /\ oldSeg'[s]["static"] = oldSeg[s]["static"]
        BY <1>0, Zenon DEF HalfPublished, storeVars
    <2> QED
        BY <1>0, <2>1, <2>2, PublishedFrame, Zenon
<1>2. \A f \in Engines \ {e} : Serving(f)' = Serving(f)
    BY <1>0, Zenon DEF Aside, Serving, Protected
<1>3. CASE UNCHANGED <<egen, eds, facade>>
    <2>1. \A f \in Engines : Serving(f)' = Serving(f)
        BY <1>0, <1>3, Zenon DEF Serving, Protected
    <2> QED
        BY <1>1, <1>3, <2>1, LiveStutter, ZenonT(30)
<1>4. CASE Gone(e)
    <2>1. Serving(e)' = NoFacade
        BY <1>4, <1>t, Zenon DEF Gone, Serving
    <2>2. eds' = [eds EXCEPT ![e] = AnyDataset] /\ AnyDataset \in Datasets
        BY <1>4, JobsTyped, Zenon DEF Gone
    <2> QED
        BY <1>1, <1>2, <2>1, <2>2, LiveEngine, ZenonT(30)
<1>5. CASE OpenBlock(e)
    <2>1. wpc[e] = "off" /\ facade' = facade
        BY <1>5, Zenon DEF OpenBlock, data
    <2>2. Serving(e)' = NoFacade
        BY <2>1, Zenon DEF Serving, IInv, Opened
    <2>3. PICK d \in Datasets : eds' = [eds EXCEPT ![e] = d]
        BY <1>5, Zenon DEF OpenBlock
    <2> QED
        BY <1>1, <1>2, <2>2, <2>3, LiveEngine, Zenon
<1>6. ASSUME owner[egen[e]] = Watch(e), UNCHANGED <<egen, eds>>,
             Protected(e) => /\ \A k \in Kinds : Find(lastGen, eds[e], k)
                             /\ facade'[e] = Map(region[lastGen][eds[e]])
                             /\ facade'[e] # NoFacade
      PROVE  LiveStep
    <2>1. CASE ~Protected(e)
        <3>1. \A f \in Engines : Serving(f)' = Serving(f)
            BY <1>0, <1>2, <1>6, <2>1, Zenon DEF Serving, Protected
        <3> QED
            BY <1>1, <1>6, <3>1, LiveStutter, Zenon
    <2>2. CASE Protected(e)
        <3>1. lastGen # 0 /\ owner[lastGen] = Watch(e) /\ eds[e] \in Datasets
            BY <1>6, <1>t, <2>2, SMTT(30) DEF Protected, Gens
        <3>2. \A s \in Stores, d \in Datasets : ~HalfPublished(s, d)
            BY <3>1, NobodyHalf, Zenon DEF HalfPublished
        <3>3. PublishedFacts
            BY PublishedIs, Zenon
        <3>4. Published(eds[e]) = Map(region[lastGen][eds[e]])
            BY <1>6, <2>2, <3>1, <3>2, <3>3, Zenon DEF PublishedFacts, Kinds
        <3>5. Serving(e)' = facade'[e]
            BY <1>0, <1>6, <2>2, Zenon DEF Serving, Protected
        <3> QED
            BY <1>1, <1>2, <1>6, <2>2, <3>1, <3>4, <3>5, LiveEngine, ZenonT(30)
    <2> QED
        BY <2>1, <2>2, Zenon
<1>7. CASE InitFacade(e)
    <2>1. wpc[e] = "init" /\ UNCHANGED <<egen, eds>>
        BY <1>7, Zenon DEF InitFacade
    <2>2. owner[egen[e]] = Watch(e)
        BY <2>1, Zenon DEF IInv, Mutex
    <2>3. /\ facade'[e] = Map(region[egen[e]][eds[e]])
          /\ CanMap(region[egen[e]][eds[e]]) /\ \A k \in Kinds : Find(egen[e], eds[e], k)
        BY <1>7, <1>t, Zenon DEF InitFacade, Registered
    <2>4. region[egen[e]][eds[e]] \in [Kinds -> Regions]
        BY <1>t DEF IInv, TypeOK, SharedTypeOK
    <2>5. facade'[e] # NoFacade
        BY <2>3, <2>4, MapTyped, NoFacadeAssumption, Zenon DEF IInv
    <2> QED
        BY <1>6, <2>1, <2>2, <2>3, <2>5, Zenon DEF Protected
<1>8. CASE SwapFacade(e)
    <2>1. wpc[e] = "swap" /\ UNCHANGED <<egen, eds>>
        BY <1>8, Zenon DEF SwapFacade
    <2>2. owner[egen[e]] = Watch(e) /\ facade[e] # NoFacade
        BY <2>1, Zenon DEF IInv, Mutex, Opened
    <2>3. facade'[e] = Map(copy[e]) /\ CanMap(copy[e]) /\ copy[e] \in [Kinds -> Regions]
        BY <1>8, <1>t, Zenon DEF SwapFacade
    <2>4. facade'[e] # NoFacade
        BY <2>3, MapTyped, NoFacadeAssumption, ZenonT(30) DEF IInv
    <2>5. ASSUME Protected(e)
          PROVE  (\A k \in Kinds : Find(lastGen, eds[e], k)) /\ copy[e] = region[lastGen][eds[e]]
        <3>1. \A k \in Kinds : /\ Find(lastGen, eds[e], k)
                               /\ copy[e][k] = region[lastGen][eds[e]][k]
            BY <2>1, <2>2, <2>5, ZenonT(30) DEF IInv, Copies
        <3>2. region[lastGen][eds[e]] \in [Kinds -> Regions]
            BY <1>t, <2>5, SMTT(30) DEF IInv, TypeOK, SharedTypeOK, Protected
        <3> QED
            BY <2>3, <3>1, <3>2, SMTT(30)
    <2> QED
        BY <1>6, <2>1, <2>2, <2>3, <2>4, <2>5, ZenonT(30)
<1>9. \/ UNCHANGED <<egen, eds, facade>> \/ Gone(e) \/ OpenBlock(e) \/ InitFacade(e) \/ SwapFacade(e)
    BY Zenon DEF EngineNext, OnlyEngine, EngineStep, EngineProgress, InitLock, WatchLock,
                WakeUp, Shutdown, DestructorNotify, QueryBegins, QueryEnds, InitThrows, Sleep,
                CopyRegions, SwapThrows, StopUnlocked, StopLocked, DestructorNotified, Join, data,
                EngineDies, EngineKilled
<1> QED
    BY <1>3, <1>4, <1>5, <1>7, <1>8, <1>9, ZenonT(30)

(* Every step is a step of LiveData or a stutter. *)
LEMMA LiveInvariance ==
    IInv /\ IInv' /\ StaticFirst /\ StaticFirst' /\ [Next]_vars /\ [~HalfPublisherDies]_vars => LiveStep
<1> SUFFICES ASSUME IInv, IInv', StaticFirst, StaticFirst', [Next]_vars, [~HalfPublisherDies]_vars
             PROVE  LiveStep
    BY Zenon
<1>1. CASE UNCHANGED <<lastGen, region, shm, storeVars, engineVars>>
    <2>1. Kept
        BY <1>1, Zenon DEF Kept
    <2>2. \A s \in Stores, d \in Datasets : /\ HalfPublished(s, d)' <=> HalfPublished(s, d)
                                            /\ oldSeg'[s]["static"] = oldSeg[s]["static"]
        BY <1>1, Zenon DEF HalfPublished, storeVars
    <2>3. \A d \in Datasets : Published(d)' = Published(d)
        BY <1>1, <2>1, <2>2, PublishedFrame, ZenonT(30)
    <2>4. (\A e \in Engines : Serving(e)' = Serving(e)) /\ eds' = eds
        BY <1>1, Zenon DEF Serving, Protected, engineVars
    <2> QED
        BY <2>3, <2>4, LiveStutter, Zenon
<1>2. CASE ListReads \/ ListOpens \/ ListThrows \/ RemoveLocks \/ UNCHANGED vars
    BY <1>1, <1>2, Zenon DEF ListReads, ListOpens, ListThrows, RemoveLocks, RemoveBlock, vars, shared,
                      block, register, storeVars, engineVars
<1>3. CASE UNCHANGED vars
    BY <1>2, <1>3, Zenon
<1>4. ASSUME NEW s \in Stores, StoreNext(s) PROVE LiveStep
    BY <1>4, StoreLive, Zenon
<1>5. ASSUME NEW s \in Stores, StoreDies(s), Fault PROVE LiveStep
    <2>1. CASE ~UNCHANGED vars
        BY <1>5, <2>1, StoreLive, Zenon DEF HalfPublisherDies
    <2> QED
        BY <1>3, <2>1, Zenon
<1> QED
    BY <1>2, <1>3, <1>4, <1>5, EngineLive, ZenonT(30) DEF Next, Fault

(* Datastores and watchdogs implement an atomic versioned register per       *)
(* dataset, whatever else dies: only a datastore that is killed between its  *)
(* two SetRegion calls leaves a torn dataset.                                *)
THEOREM LiveDataUnlessTorn == Spec /\ [][~HalfPublisherDies]_vars => ImplementsLiveData
<1>1. Init => Live!Init
    <2> SUFFICES ASSUME Init PROVE Live!Init
        BY Zenon
    <2>1. \A d \in Datasets : Published(d) = NoFacade
        BY Zenon DEF Init, SharedInit, Published
    <2>2. \A e \in Engines : (IF Protected(e) THEN facade[e] ELSE NoFacade) = NoFacade
        BY Zenon DEF Init, EngineInit
    <2>3. eds \in [Engines -> Datasets]
        BY JobsTyped, Zenon DEF Init, EngineInit
    <2> QED
        BY <2>1, <2>2, <2>3, Zenon DEF Live!Init
<1>2. Init => StaticFirst
    BY Zenon DEF Init, SharedInit, StaticFirst
<1>3. IInv /\ IInv' /\ StaticFirst /\ StaticFirst' /\ [Next]_vars /\ [~HalfPublisherDies]_vars
          => [Live!Next]_(Live!vars)
    BY LiveInvariance, Zenon DEF LiveStep
<1> QED
    BY <1>1, <1>2, <1>3, StaticFirstStays, SwapInvariant, PTL DEF Spec, ImplementsLiveData, Live!Spec

(* Without faults, what the run checks. *)
THEOREM LiveDataImplemented == ASSUME MaxFaults = 0 PROVE Spec => ImplementsLiveData
<1>1. IInv => [~HalfPublisherDies]_vars
    <2>1. IInv => ~Fault
        BY DEF IInv, TypeOK, Fault
    <2> QED
        BY <2>1, Zenon DEF HalfPublisherDies
<1> QED
    BY <1>1, SwapInvariant, LiveDataUnlessTorn, PTL
=============================================================================
