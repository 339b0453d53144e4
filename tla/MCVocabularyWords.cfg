SPECIFICATION Spec
CONSTANTS
  Clients = {c1, c2}
  Workers = {v1, v2}
  SkritterIds = {1, 2}
  Writings = {1, 2}
  FirstItems <- MCFirstItems
  MaxWords = 2
  MaxEdits = 1
INVARIANT WordsResolve
INVARIANT SnapshotsSound
PROPERTY ReadingKept
PROPERTY CreateEnds
CHECK_DEADLOCK FALSE
