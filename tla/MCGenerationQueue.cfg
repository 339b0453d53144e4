SPECIFICATION FairSpec
CONSTANTS
  Workers = {w1, w2}
  Clients = {c1, c2}
  MaxRequests = 2
  MaxAttempts = 2
  MaxActive = 2
  MaxCrashes = 2
  SerialRetries = TRUE
  TimelyCalls = TRUE
INVARIANTS
  OneWorkerPerRequest
  OneStoryPerSuccess
  OnePayloadPerOutcome
  OutcomeNeverRejected
PROPERTIES
  SucceededIsFinal
  ImplementsLifecycle
  EveryRequestFinishes
