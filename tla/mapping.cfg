SPECIFICATION FairSpec
CONSTANTS
  a1 = a1
  a2 = a2
  x1 = x1
  x2 = x2
  Names = {m1, m2}
  Pairs = {a1, a2}
  Pools = {x1, x2}
  Specs <- TwoSpecs
  NoObj = NoObj
  Lag <- LagAll
  MaxUid = 2
  MaxOps = 3
  MaxCrashes = 1
  MaxFaults = 1
INVARIANTS TypeOK NoDuplicates
PROPERTIES SharesConfigMap Converges
CHECK_DEADLOCK FALSE
