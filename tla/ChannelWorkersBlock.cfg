SPECIFICATION FairSpec
CONSTANTS
  Channels = {c1, c2}
  QueueSize = 1
  OutSize = 1
  RemoveSize = 1
  Slots = 1
  MaxStimuli = 4
PROPERTY
  DropsInaccessible
CHECK_DEADLOCK FALSE
