SPECIFICATION FairSpec
CONSTANTS
    h1 = h1
    h2 = h2
    Helpers <- OneHelper
    MaxRetry = 2
    MaxId = 2
    MaxCancel = 1
PROPERTIES
    CallsReturn
    Reconnects
CHECK_DEADLOCK FALSE
