SPECIFICATION Spec
CONSTANTS
  Profiles = {p1, p2}
  Conns = {c1}
  Replications = {r1}
  Specs = {s1}
  Monitors = {m1}
  Dests = {d1}
  NoObj = NoObj
  Lag <- LagConfigMap
  MaxUid = 1
  MaxOps = 3
  MaxCrashes = 0
  MaxFaults = 0
INVARIANTS
  RecordHasFinalizer
CHECK_DEADLOCK FALSE
