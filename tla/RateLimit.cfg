SPECIFICATION Spec
CONSTANTS
  Clients = {k1, k2}
  MaxRequests = 2
  WindowMs = 3
  Second = 2
  MaxTime = 5
  MaxCount = 4
  None = None
INVARIANTS
  TypeOK
  WindowIsSpentExactly
  RetryAfterSuffices
PROPERTIES
  WindowIsFixed
CHECK_DEADLOCK FALSE
