SPECIFICATION Spec
CONSTANTS
  Client = {c1, c2}
  RetryCounts = 3
  Buffer = 2
PROPERTY EndsOnlyAfterRetries
CHECK_DEADLOCK FALSE
