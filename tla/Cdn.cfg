SPECIFICATION FairSpec
CHECK_DEADLOCK FALSE
CONSTANTS
    Callers = {c1, c2}
    Pools = {1, 2, 3}
    Maxes = {0, 3}
    MaxCalls = 2
    Cached = {1}
    Versions = {1, 2}
    Lacking = {2}
    Flights = {1, 2, 3}
    Retries = 2
    RefreshAttempts = 2
    MaxCloseWorkers = 2
    MaxCloseQueue = 2
INVARIANTS HandlesCounted PoolClosedOnce NoHeadOfLine
PROPERTIES StaleClosed CallReturns
