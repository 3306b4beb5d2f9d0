\* One datastore and one engine, with one fault at any moment.
CONSTANTS
    Stores = {s1}
    Engines = {e1}
    Datasets = {d1}
    Extracts = {x1, x2}
    NumKeys = 4
    MaxRegions = 2
    MaxGens = 2
    NoSegment = NoSegment
    Jobs <- TroubledJobs
    MaxRuns = 3
    Unwinding = {TRUE, FALSE}
    NoFacade = NoFacade
    WithListing = TRUE
    MaxFaults = 1
    NoKey = NoKey
SPECIFICATION Spec
INVARIANTS
    FacadesConsistent
    RegisteredIsMapped
    MappedKeysReserved
    NoLostWakeup
\* A mutex whose owner died stops everybody.
CHECK_DEADLOCK FALSE
