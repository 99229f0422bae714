SPECIFICATION Spec
CONSTANTS
  Message = {m1, m2}
  Reader = {r1}
  MaxFaults = 1
  MaxTurns = 1
  Prefetch = 2
  MaxLosses = 1
INVARIANTS
  TypeOK
  CountedPerDelivery
  BoardsAgree
  StaleCacheIsExplained
PROPERTIES
  KeepsContract
SYMMETRY BoardSymmetry
CHECK_DEADLOCK FALSE
