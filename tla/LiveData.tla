------------------------------ MODULE LiveData ------------------------------
(* What replacing data under running engines promises: a dataset has one     *)
(* published version at a time, whose two halves come from the same          *)
(* extraction; an engine serves either nothing or a version that was         *)
(* published, and it changes its version only to the one that is published   *)
(* at that moment.                                                           *)
CONSTANTS Engines, Datasets, NoVersion

VARIABLES latest,  \* the published version of each dataset, or NoVersion
          view,    \* the version each engine serves, or NoVersion
          serves   \* the dataset of each engine

vars == <<latest, view, serves>>

Matches(v) == /\ v["static"].extract = v["updatable"].extract
              /\ v["static"].ds = v["updatable"].ds

Init == /\ latest = [d \in Datasets |-> NoVersion]
        /\ view = [e \in Engines |-> NoVersion]
        /\ serves \in [Engines -> Datasets]

Publish(d) == /\ latest'[d] # NoVersion
              /\ Matches(latest'[d])
              /\ latest'[d]["static"].ds = d
              /\ latest' = [latest EXCEPT ![d] = latest'[d]]
              /\ UNCHANGED <<view, serves>>

Connect(e) == /\ view[e] = NoVersion
              /\ \E d \in Datasets : serves' = [serves EXCEPT ![e] = d]
              /\ UNCHANGED <<latest, view>>

Load(e) == /\ latest[serves[e]] # NoVersion
           /\ view' = [view EXCEPT ![e] = latest[serves[e]]]
           /\ UNCHANGED <<latest, serves>>

Disconnect(e) == /\ view' = [view EXCEPT ![e] = NoVersion]
                 /\ \E d \in Datasets : serves' = [serves EXCEPT ![e] = d]
                 /\ UNCHANGED latest

(* The control block was removed and is created anew: what was published is  *)
(* forgotten, and the engines of the old block are on their own.             *)
Reset == /\ latest' = [d \in Datasets |-> NoVersion]
         /\ view' = [e \in Engines |-> NoVersion]
         /\ UNCHANGED serves

Next == \/ \E d \in Datasets : Publish(d)
        \/ \E e \in Engines : Connect(e) \/ Load(e) \/ Disconnect(e)
        \/ Reset

Spec == Init /\ [][Next]_vars
=============================================================================
