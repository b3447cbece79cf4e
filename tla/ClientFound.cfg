SPECIFICATION Spec
CHECK_DEADLOCK FALSE
CONSTANTS
    Calls = {r1, r2}
    Movers = {}
    DCs = {dc1, dc2}
    Start = dc1
    Home = dc2
    MaxFaults = 2
INVARIANT AlreadyMigrated
