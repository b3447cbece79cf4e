SPECIFICATION Spec
CONSTANTS
  CommonLog <- Log
  ChannelLog <- Log
  QueueLen = 1
  Wipes = TRUE
  ReadsFail = FALSE
  MaxArrivals = 2
  MaxFaults = 1
INVARIANT
  GapsTold
CHECK_DEADLOCK FALSE
