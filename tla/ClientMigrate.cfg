SPECIFICATION Spec
CHECK_DEADLOCK FALSE
CONSTANTS
    Calls = {r1}
    Movers = {m1}
    DCs = {dc1, dc2}
    Start = dc1
    Home = dc2
    MaxFaults = 2
PROPERTY MigrateLands
