SPECIFICATION FairSpec
CONSTANTS
    t1 = t1
    t2 = t2
    t3 = t3
    Threads <- ThreeThreads
    AutoReset = TRUE
INVARIANTS
    TypeOK
    NoSleepOnSet
    OnlyLateUsers
PROPERTIES
    GateSpec
    DeletionEnds
CHECK_DEADLOCK FALSE
