CONSTANTS
    c1 = c1
    c2 = c2
    Changes = {c1, c2}
    MaxGenerations = 3
    MaxFailures = 2
    MaxProbes = 1
    MaxCrashes = 1
SPECIFICATION FairSpec
INVARIANTS
    TypeOK
    CleanMeansStored
    ShutdownFlushes
PROPERTIES
    DurableSpec
    EventuallyStored
    CallsEnd
CHECK_DEADLOCK FALSE
