SPECIFICATION Spec
CONSTANTS
    c1 = c1
    c2 = c2
    c3 = c3
    u1 = u1
    u2 = u2
    u3 = u3
    i1 = i1
    i2 = i2
    i3 = i3
    Clients <- ThreeClients
    Anonymous <- NoClient
    Unreserved <- JustC3
    Wants <- MixedWants
    Uris <- ThreeUris
    Frequency <- MixedFrequency
    Instances <- ThreeInstances
    numberOfTuners = 2
    Caching <- Enabled
    Callbacks <- LiveRecordAd
    livePreemptionEnabled = FALSE
    CallbackFails = TRUE
    Changing <- NoUri
SYMMETRY SymInstances
INVARIANTS
    TypeOK
    TunersAccounted
    RefcountIsUsers
    OneTunerPerService
    UsagesAreUsers
PROPERTIES
    PreemptsLowerOnly
