SPECIFICATION FairSpec
CONSTANTS
  Channels = {c1, c2}
  QueueSize = 1
  OutSize = 1
  RemoveSize = 1
  Slots = 1
  MaxStimuli = 4
INVARIANTS
  SlotsKept
  ForgetsTheLost
PROPERTIES
  RoutingGoesOn
  ShutdownEnds
CHECK_DEADLOCK FALSE
