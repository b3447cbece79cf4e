SPECIFICATION FairSpec
CONSTANTS
  CommonLog <- Log
  ChannelLog <- Log
  QueueLen = 1
  Wipes = FALSE
  ReadsFail = FALSE
  MaxArrivals = 2
  MaxFaults = 0
PROPERTY
  Restored
CHECK_DEADLOCK FALSE
