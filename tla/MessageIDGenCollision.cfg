SPECIFICATION GenSpec
CONSTANTS
  Second = 12
  Shift = 16
  Clock <- Readings
  MaxCalls = 3
INVARIANT
  NoCollision
CHECK_DEADLOCK FALSE
