\* Two datastores and an engine, without failures.
CONSTANTS
    Stores = {s1, s2}
    Engines = {e1}
    Datasets = {d1}
    Extracts = {x1}
    NumKeys = 4
    MaxRegions = 2
    MaxGens = 3
    NoSegment = NoSegment
    Jobs <- UpdateJobs
    MaxRuns = 3
    Unwinding = {TRUE}
    NoFacade = NoFacade
    WithListing = FALSE
    MaxFaults = 0
    NoKey = NoKey
SPECIFICATION FairSpec
PROPERTIES
    StoresFinish
    EnginesFollow
    ShutdownsEnd
\* The system stops when all runs are used up and all engines sleep.
CHECK_DEADLOCK FALSE
