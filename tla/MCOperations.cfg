SPECIFICATION Spec
CONSTANTS
  HeadRev <- MCHeadRev
  Stamps = {k1, k2}
  MaxDatabases = 3
  MaxDeploys = 2
  MaxFaults = 2
SYMMETRY Symmetry
INVARIANT ServedDataKept
INVARIANT NewCodeNeedsNewSchema
CHECK_DEADLOCK FALSE
