SPECIFICATION GenSpec
CONSTANTS
  Second = 12
  Shift = 16
  Clock <- Readings
  MaxCalls = 3
INVARIANTS
  TypeRecovered
  Ordered
CHECK_DEADLOCK FALSE
