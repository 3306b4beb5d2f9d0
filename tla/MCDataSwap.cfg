\* Two datastores and two engines on one control block.
CONSTANTS
    Stores = {s1, s2}
    Engines = {e1, e2}
    Datasets = {d1}
    Extracts = {x1, x2}
    NumKeys = 4
    MaxRegions = 2
    MaxGens = 1
    NoSegment = NoSegment
    Jobs <- UpdateJobs
    MaxRuns = 3
    Unwinding = {TRUE, FALSE}
    NoFacade = NoFacade
    WithListing = FALSE
    MaxFaults = 0
    NoKey = NoKey
SPECIFICATION Spec
SYMMETRY Sym
INVARIANTS
    KeysAccounted
PROPERTIES
    UsesMonitor
    NeverBackwards
    ImplementsLiveData
\* The system stops when all runs are used up and all engines sleep, or when
\* a process ended with the mutex.
CHECK_DEADLOCK FALSE
