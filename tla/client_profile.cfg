SPECIFICATION Spec
CONSTANTS
  Profiles = {p1, p2}
  Conns = {c1}
  Replications = {r1}
  Specs = {s1}
  Monitors = {m1}
  Dests = {d1}
  NoObj = NoObj
  Lag <- LagShared
  MaxUid = 2
  MaxOps = 4
  MaxCrashes = 1
  MaxFaults = 1
INVARIANTS
  TypeOK
  UniqueIds
PROPERTIES
  SharesConfigMap
SYMMETRY Symmetry
CHECK_DEADLOCK FALSE
