SPECIFICATION FairSpec
CONSTANTS
  Requests = {r1}
  Again = TRUE
  Conns = {1, 2}
  Max = 1
PROPERTY StuckSignalled
CHECK_DEADLOCK FALSE
