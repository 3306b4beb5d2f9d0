\* Three threads and a ring of four: the limit, the wrap, the reuse of a slot and
\* one death happen.  No symmetry, for the sake of NotifiedWake.
CONSTANTS
    Threads = {t1, t2, t3}
    NoThread = NoThread
    Abandoned = Abandoned
    BufferSize = 4
    MaxKills = 1
SPECIFICATION FairSpec
INVARIANTS
    SleepersQueued
PROPERTIES
    ImplementsMonitor
    NotifiedWake
\* A thread that dies with the mutex stops everybody.
CHECK_DEADLOCK FALSE
