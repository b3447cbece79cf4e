SPECIFICATION Spec
CONSTANTS
  Requests = {r1}
  Attempts = {1}
  Readers = {n1}
  Answers = {"result", "badSalt"}
  MaxRetries = 1
PROPERTY ResultPreferred
CHECK_DEADLOCK FALSE
