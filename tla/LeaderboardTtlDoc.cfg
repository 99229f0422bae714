SPECIFICATION Spec
CONSTANTS
  Message = {m1}
  Reader = {r1, r2}
  MaxFaults = 1
  MaxTurns = 1
  Prefetch = 2
  MaxLosses = 0
INVARIANT CacheHasTtl
CHECK_DEADLOCK FALSE
