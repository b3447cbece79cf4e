SPECIFICATION FairSpec
CONSTANTS
  Requests = {r1}
  Attempts = {1, 2}
  Readers = {n1, n2}
  Answers = {"result", "badSalt"}
  MaxRetries = 1
INVARIANTS
  NothingLeft
  CloseWaits
  AckedNotRetried
  ClosedOnce
  ResultIsStored
PROPERTIES
  ForceCloseEnds
  CallEnds
CHECK_DEADLOCK FALSE
