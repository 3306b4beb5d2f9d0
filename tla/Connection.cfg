\* One connection kept for two requests after the first, and a client that
\* could send one more than the server answers.
SPECIFICATION FairSpec
CONSTANTS
    ProcessedRequests = 2
    MaxRequests = 4
INVARIANTS
    AnswersInOrder
    
    TimerOnlyBetweenRequests
    IdleIsWatched
PROPERTIES
    IdleEnds
    RequestsAnswered
    GoneIsFreed
\* A connection ends: once closed, nothing happens to it any more.
CHECK_DEADLOCK FALSE
