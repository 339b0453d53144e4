SPECIFICATION Spec
CONSTANTS
  Procs = {p1, p2}
  Lists = {l1, l2}
  Words = {w1, w2}
  NoList = NoList
  RunsKept = 1
  Refresh = FALSE
  MaxRuns = 3
  MaxEdits = 1
  MaxFaults = 1
SYMMETRY Symmetry
CHECK_DEADLOCK FALSE
INVARIANTS
  RunsTellTheTruth
  NoHalfImport
  ArchivedOnlyIfLostOrMissed
PROPERTIES
  SuccessMirrorsListing
