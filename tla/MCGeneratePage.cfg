SPECIFICATION FairSpec
CONSTANTS
  Ids = {1, 2}
  AttemptLimit = 2
  MaxFailures = 2
  MaxMounts = 2
  MaxFaults = 1
CHECK_DEADLOCK FALSE
INVARIANTS
  FailedIsTrue
  OneRequestPerPage
PROPERTIES
  TakenToOwnStory
  GivesUpOnlyWhenLost
  PollingEnds
