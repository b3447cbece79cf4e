SPECIFICATION FairSpec
CHECK_DEADLOCK FALSE
CONSTANTS
    Calls = {}
    Movers = {m1}
    DCs = {dc1, dc2}
    Start = dc1
    Home = dc2
    MaxFaults = 1
PROPERTY MigrateEnds
