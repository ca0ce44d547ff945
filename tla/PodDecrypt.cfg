SPECIFICATION Spec
CONSTANTS
    s1 = s1
    s2 = s2
    a1 = a1
    a2 = a2
    Sources <- TwoSources
    Requests <- TwoRequests
    MaxPrograms = 2
    MaxElemStreams = 2
    Streams <- OneStream
    Querying <- JustS1
    Failing <- StartAndEnable
    TransactionIds = 255
    MaxCards = 1
    MaxStarts = 3
    MaxUpdates = 1
SYMMETRY SymRequests
INVARIANTS
    TypeOK
    TablesAgree
    AnswerReachesItsSession
    LossIsTold
    NobodyIsLeft
CHECK_DEADLOCK FALSE
