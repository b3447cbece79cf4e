SPECIFICATION FairSpec
CONSTANTS
  CommonLog <- Log
  ChannelLog <- Log
  QueueLen = 1
  Wipes = FALSE
  ReadsFail = TRUE
  MaxArrivals = 2
  MaxFaults = 2
PROPERTIES
  CommonAtLeastOnce
  ChannelAtLeastOnce
  CatchesUp
CHECK_DEADLOCK FALSE
