SPECIFICATION Spec
CONSTANTS
  Workers = {w1, w2}
  Clients = {c1, c2}
  MaxRequests = 1
  MaxAttempts = 3
  MaxActive = 3
  MaxCrashes = 0
  SerialRetries = FALSE
  TimelyCalls = TRUE
INVARIANTS
  AttemptsBounded
