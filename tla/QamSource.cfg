SPECIFICATION FairSpec
CONSTANTS
    PmtPid <- Moves
    Streams <- Loses
    video = video
    audio = audio
    MaxFilters = 2
    NegativeFilters = FALSE
    Refuses = {"PAT"}
    StopCaWhenPaused = TRUE
    ClosesFailedOpen = FALSE
    MaxOpens = 1
    MaxCalls = 2
INVARIANTS TypeOK SourceFollowsTables SessionServesMedia
PROPERTY SourceSettles
CHECK_DEADLOCK FALSE
