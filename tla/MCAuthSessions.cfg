SPECIFICATION Spec
CONSTANTS
  Tabs = {t1, t2}
  OutOfDate = {TRUE}
  Lifetime = 1
  Retention = 1
  MaxSessions = 2
  MaxChanges = 1
  MaxTime = 2
  MaxCalls = 2
SYMMETRY Symmetry
INVARIANT TrailMatches
INVARIANT ChangeTakesHold
PROPERTY SignOutIsTrue
CHECK_DEADLOCK FALSE
