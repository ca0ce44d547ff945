SPECIFICATION Spec
CONSTANTS
    t1 = t1
    t2 = t2
    t3 = t3
    Threads <- ThreeThreads
    AutoReset = TRUE
INVARIANTS
    NoUseAfterFree
CHECK_DEADLOCK FALSE
