SPECIFICATION FairSpec
CONSTANTS
  Updates <- Log
  InitialState = 0
  MaxHandled = 4
INVARIANTS
  InOrder
  HolesTracked
  NoEmptyBuffer
  GapHasTimer
PROPERTIES
  ImplementsUpdateOrder
  GapCloses
CHECK_DEADLOCK FALSE
