SPECIFICATION FairSpec
CONSTANTS
    Calls = {c1}
    MaxMessages = 1
    AckBatch = 2
    MaxRetries = 1
    MaxBind = 2
    MaxPings = 1
    MaxForgets = 0
    GivesUp = TRUE
PROPERTY BlocksUntilDisconnection
CHECK_DEADLOCK FALSE
