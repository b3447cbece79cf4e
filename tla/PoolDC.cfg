SPECIFICATION FairSpec
CONSTANTS
  Requests = {r1, r2}
  Again = FALSE
  Conns = {1, 2}
  Max = 1
INVARIANTS
  TotalCounts
  OneOwner
  FreeNoWaiters
PROPERTIES
  CancelledReturns
  CloseEnds
CHECK_DEADLOCK FALSE
