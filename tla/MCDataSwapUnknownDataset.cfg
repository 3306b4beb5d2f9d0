\* An engine for a dataset that nobody has loaded.
CONSTANTS
    Stores = {s1}
    Engines = {e1}
    Datasets = {d1, d2}
    Extracts = {x1}
    NumKeys = 4
    MaxRegions = 4
    MaxGens = 1
    NoSegment = NoSegment
    Jobs <- FirstDatasetJobs
    MaxRuns = 2
    Unwinding = {FALSE}
    NoFacade = NoFacade
    WithListing = FALSE
    MaxFaults = 0
    NoKey = NoKey
SPECIFICATION FairSpec
PROPERTIES
    StoresFinish
CHECK_DEADLOCK FALSE
