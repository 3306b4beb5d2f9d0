----------------------- MODULE SharedRegionRegister -----------------------
(* The state that osrm-datastore and osrm-routed processes share: the        *)
(* control block "osrm-region" (a SharedMonitor around a                     *)
(* SharedRegionRegister, which maps region names to segment keys) and the    *)
(* shared memory segments.  Removing the block's name leaves the processes   *)
(* that have mapped it with the old block, so there is one generation of the *)
(* block per creation.                                                       *)
EXTENDS Integers, FiniteSets

CONSTANTS Datasets,    \* dataset names
          Extracts,    \* which extraction a file on disk belongs to
          NumKeys,     \* MAX_SHM_KEYS, 1024 in the code
          MaxRegions,  \* MAX_SHARED_REGIONS, 512 in the code
          MaxGens,     \* bound: generations of the control block
          NoSegment    \* what a key without a segment leads to

ASSUME KeysAssumption == NumKeys \in Nat \ {0}
ASSUME RegionsAssumption == MaxRegions \in Nat
ASSUME GensAssumption == MaxGens \in Nat \ {0}

Kinds == {"static", "updatable"}
Keys == 0 .. NumKeys - 1
Gens == 1 .. MaxGens

(* A segment: run, the datastore run that made it, is its identity; ds, kind *)
(* and extract stand for its contents.                                       *)
Segments == [key : Keys, run : Nat, ds : Datasets, kind : Kinds, extract : Extracts]

ASSUME NoSegmentAssumption == NoSegment \notin Segments

(* SharedRegion.  Its name is its place in the register; timestamp 0 is      *)
(* IsEmpty().                                                                *)
EmptyRegion == [timestamp |-> 0, key |-> 0]

VARIABLES current,   \* the generation the block's name leads to, 0 if none
          lastGen,   \* generations created so far
          owner,     \* the owner of each generation's mutex
          waiting,   \* threads in wait() that no notify_all has reached
          region,    \* regions, by generation, dataset and kind
          used,      \* shm_key_in_use, by generation
          shm        \* the segment each key leads to

block == <<current, lastGen>>
monitor == <<owner, waiting>>
register == <<region, used>>
shared == <<current, lastGen, owner, waiting, region, used, shm>>

Free == <<"nobody", "nobody">>
Abandoned == <<"dead", "dead">>

SharedInit == /\ current = 0
              /\ lastGen = 0
              /\ owner = [g \in Gens |-> Free]
              /\ waiting = [g \in Gens |-> {}]
              /\ region = [g \in Gens |-> [d \in Datasets |-> [k \in Kinds |-> EmptyRegion]]]
              /\ used = [g \in Gens |-> {}]
              /\ shm = [k \in Keys |-> NoSegment]

(***************************************************************************)
(* SharedMonitor, as Monitor specifies it                                  *)
(***************************************************************************)
Lock(g, p) == /\ owner[g] = Free
              /\ owner' = [owner EXCEPT ![g] = p]

Unlock(g) == owner' = [owner EXCEPT ![g] = Free]

Wait(g, p) == /\ Unlock(g)
              /\ waiting' = [waiting EXCEPT ![g] = @ \cup {p}]

NotifyAll(g, p) == /\ Lock(g, p)
                   /\ waiting' = [waiting EXCEPT ![g] = {}]

AbandonUnlocks(ps) ==
    /\ owner' = [g \in Gens |-> IF owner[g] \in ps THEN Free ELSE owner[g]]
    /\ waiting' = [g \in Gens |-> waiting[g] \ ps]

(* Processes with the threads ps die: their mutex stays locked for good. *)
Abandon(ps) ==
    /\ owner' = [g \in Gens |-> IF owner[g] \in ps THEN Abandoned ELSE owner[g]]
    /\ waiting' = [g \in Gens |-> waiting[g] \ ps]

(* open_or_create, which constructs a fresh block if there is none *)
OpenOrCreate == IF current # 0
                THEN UNCHANGED block
                ELSE /\ lastGen < MaxGens
                     /\ lastGen' = lastGen + 1
                     /\ current' = lastGen + 1

(* SharedMonitor::remove() *)
RemoveBlock == /\ current' = 0
               /\ UNCHANGED lastGen

(***************************************************************************)
(* SharedRegionRegister                                                    *)
(***************************************************************************)
Find(g, d, k) == region[g][d][k].timestamp # 0

RegisteredNames(g) == {n \in Datasets \X Kinds : Find(g, n[1], n[2])}

CanRegister(g) == Cardinality(RegisteredNames(g)) < MaxRegions

(* Register starts a region at INITIAL_TIMESTAMP 1; an update increments it. *)
SetRegion(g, d, k, key) ==
    region' = [region EXCEPT ![g][d][k] = [timestamp |-> @.timestamp + 1, key |-> key]]

NoKeyLeft(g) == used[g] = Keys

FirstFree(g, key) == /\ key \in Keys \ used[g]
                     /\ \A j \in Keys : j < key => j \in used[g]

ReserveKey(g, key) == /\ FirstFree(g, key)
                      /\ used' = [used EXCEPT ![g] = @ \cup {key}]

ReleaseKey(g, key) == used' = [used EXCEPT ![g] = @ \ {key}]
=============================================================================
