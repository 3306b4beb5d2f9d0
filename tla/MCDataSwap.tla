----------------------------- MODULE MCDataSwap -----------------------------
(* Small instances of DataSwap for TLC. *)
EXTENDS DataSwap, TLC

Full(x) == [ds : Datasets, onlyMetric : {FALSE}, extract : x, timed : {FALSE}, readable : {TRUE}]
Metric(x) == [ds : Datasets, onlyMetric : {TRUE}, extract : x, timed : {FALSE}, readable : {TRUE}]
Timed(x) == [ds : Datasets, onlyMetric : {FALSE}, extract : x, timed : {TRUE}, readable : {TRUE}]
Broken(x) == [ds : Datasets, onlyMetric : {FALSE}, extract : x, timed : {FALSE}, readable : {FALSE}]

FullJobs == Full(Extracts)
TimedJobs == Timed(Extracts)

(* full updates and metric updates, which may not fit the loaded data *)
UpdateJobs == Full(Extracts) \cup Metric(Extracts)

(* full updates that may give up, or find files they cannot read *)
TroubledJobs == Timed(Extracts) \cup Broken(Extracts)

(* one dataset is loaded, the other one never *)
FirstDatasetJobs == {j \in FullJobs : j.ds = AnyDataset}

Sym == Permutations(Stores) \cup Permutations(Engines)
=============================================================================
