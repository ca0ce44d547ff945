SPECIFICATION Spec
CONSTANTS
    h1 = h1
    h2 = h2
    Helpers <- TwoHelpers
    MaxRetry = 1
    MaxId = 2
    MaxCancel = 0
INVARIANTS
    TypeOK
    NoLostResponse
    TokenIsOwn
PROPERTIES
    AnswerIsOwn
SYMMETRY HelperSymmetry
CHECK_DEADLOCK FALSE
