SPECIFICATION Spec
CONSTANTS
    PmtPid <- OnePid
    Streams <- OneStream
    video = video
    audio = audio
    MaxFilters = 1
    NegativeFilters = FALSE
    Refuses = {}
    StopCaWhenPaused = TRUE
    ClosesFailedOpen = FALSE
    MaxOpens = 1
    MaxCalls = 0
INVARIANT PatFilterSurvives
CHECK_DEADLOCK FALSE
