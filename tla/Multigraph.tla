----------------------------- MODULE Multigraph ------------------------------
(***************************************************************************)
(* What util::DynamicGraph promises: a directed graph with parallel edges. *)
(* out says how many copies of each edge leave each node. An edge is a     *)
(* pair of its target and its data.                                        *)
(***************************************************************************)
EXTENDS Integers

CONSTANTS Vertices, Labels

VARIABLE out

Arcs == Vertices \X Labels
Renamings == {f \in [Vertices -> Vertices] : \A m, n \in Vertices : f[m] = f[n] => m = n}

MultigraphInit == out \in [Vertices -> [Arcs -> Nat]]

Add(n, a) == out' = [out EXCEPT ![n][a] = @ + 1]

Remove(n, a) == out[n][a] > 0 /\ out' = [out EXCEPT ![n][a] = @ - 1]

RemoveTo(n, m) ==
  out' = [out EXCEPT ![n] = [a \in Arcs |-> IF a[1] = m THEN 0 ELSE out[n][a]]]

Restrict(keep) ==
  out' = [n \in Vertices |->
           [a \in Arcs |-> IF n \in keep /\ a[1] \in keep THEN out[n][a] ELSE 0]]

Rename(f) == \A n \in Vertices, a \in Arcs : out'[f[n]][<<f[a[1]], a[2]>>] = out[n][a]

MultigraphNext ==
  \/ \E n \in Vertices, a \in Arcs : Add(n, a) \/ Remove(n, a)
  \/ \E n, m \in Vertices : RemoveTo(n, m)
  \/ \E keep \in SUBSET Vertices : Restrict(keep)
  \/ \E f \in Renamings : Rename(f)

MultigraphSpec == MultigraphInit /\ [][MultigraphNext]_out
=============================================================================
