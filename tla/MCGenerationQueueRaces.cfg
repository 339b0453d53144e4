SPECIFICATION Spec
CONSTANTS
  Workers = {w1, w2}
  Clients = {c1, c2}
  MaxRequests = 2
  MaxAttempts = 2
  MaxActive = 1
  MaxCrashes = 0
  SerialRetries = FALSE
  TimelyCalls = FALSE
SYMMETRY Symmetry
INVARIANTS
  LifecycleHolds
  AttemptsOverrunBounded
