SPECIFICATION Spec
CHECK_DEADLOCK FALSE
CONSTANTS
    Callers = {c1, c2}
    Pools = {1, 2, 3}
    Maxes = {1}
    MaxCalls = 4
    Cached = {1}
    Versions = {1, 2}
    Lacking = {}
    Flights = {1, 2, 3}
    Retries = 2
    RefreshAttempts = 2
    MaxCloseWorkers = 2
    MaxCloseQueue = 2
INVARIANT NoStaleKeys
