SPECIFICATION Spec
CONSTANTS
  Requests = {r1, r2}
  Again = TRUE
  Conns = {1, 2}
  Max = 1
INVARIANT WaitForFree
CHECK_DEADLOCK FALSE
