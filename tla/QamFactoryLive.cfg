SPECIFICATION FairSpec
CONSTANTS
    c1 = c1
    c2 = c2
    c3 = c3
    u1 = u1
    u2 = u2
    u3 = u3
    i1 = i1
    i2 = i2
    i3 = i3
    Clients <- ThreeClients
    Anonymous <- JustC2
    Unreserved <- JustC3
    Wants <- AllLive
    Uris <- TwoUris
    Frequency <- TwoFrequencies
    Instances <- TwoInstances
    numberOfTuners = 1
    Caching <- Enabled
    Callbacks <- LiveAndAd
    livePreemptionEnabled = TRUE
    CallbackFails = FALSE
    Changing <- NoUri
PROPERTIES
    RequestsAreAnswered
