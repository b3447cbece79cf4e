SPECIFICATION FairSpec
CONSTANTS
    Calls = {c1}
    MaxMessages = 1
    AckBatch = 1
    MaxRetries = 1
    MaxBind = 2
    MaxPings = 1
    MaxForgets = 1
    GivesUp = TRUE
INVARIANT NoStaleFrame
PROPERTIES ShutdownEnds LostPeerEndsRun
CHECK_DEADLOCK FALSE
