SPECIFICATION FairSpec
CONSTANTS
    e1 = e1
    e2 = e2
    e3 = e3
    r1 = r1
    r2 = r2
    Events <- MCEvents
    Priority <- MCPriority
    Receivers <- MCReceivers
    MaxLimit = 2
    SemValueMax = 3
INVARIANTS
    TypeOK
    NoLostWakeup
    CountIsLength
PROPERTIES
    BoxSpec
    TopPriorityIsTaken
