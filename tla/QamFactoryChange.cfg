SPECIFICATION Spec
CONSTANTS
    c1 = c1
    c2 = c2
    c3 = c3
    u1 = u1
    u2 = u2
    u3 = u3
    i1 = i1
    i2 = i2
    i3 = i3
    Clients <- ThreeClients
    Anonymous <- NoClient
    Unreserved <- NoClient
    Wants <- TwoLive
    Uris <- ThreeUris
    Frequency <- CarrierOfU3
    Instances <- TwoInstances
    numberOfTuners = 2
    Caching <- Either
    Callbacks <- JustAd
    livePreemptionEnabled = FALSE
    CallbackFails = TRUE
    Changing <- JustU3
SYMMETRY SymLive
INVARIANTS
    ChangeKeepsAccounts
