SPECIFICATION FairSpec
CONSTANTS
    e1 = e1
    e2 = e2
    c1 = c1
    c2 = c2
    m1 = m1
    m2 = m2
    q1 = q1
    q2 = q2
    s1 = s1
    s2 = s2
    Events <- TwoEvents
    Categories <- OneCategory
    Category <- SameCategory
    Managers <- OneManager
    Queues <- TwoQueues
    Senders <- TwoSenders
    MaxLimit = 1
    MaxManagers = 1
    MaxRegister = 1
    MemFails = TRUE
INVARIANTS
    TypeOK
    NoDanglingEvent
    FreedAfterLastUser
    NoRouteToFreedQueue
PROPERTIES
    DeletionCompletes
    DispatchedIsFreed
