SPECIFICATION ThrottleSpec
CONSTANTS
  Threads = {t1, t2}
  Addresses = {a1, a2}
  ClientLimit = 1
  SharedLimit = 4
  Window = 2
  MaxSkew = 1
  LastTime = 4
SYMMETRY Symmetry
INVARIANTS
  LimitsKept
  RefusedOnlyAtLimit
  OneClientLeavesRoom
PROPERTIES
  MemoryBounded
