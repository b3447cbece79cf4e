SPECIFICATION FairSpec
CONSTANTS
    Calls = {}
    MaxMessages = 2
    AckBatch = 2
    MaxRetries = 1
    MaxBind = 1
    MaxPings = 1
    MaxForgets = 1
    GivesUp = TRUE
PROPERTY AcksWritten
CHECK_DEADLOCK FALSE
