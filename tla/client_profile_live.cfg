SPECIFICATION FairSpec
CONSTANTS
  Profiles = {p1}
  Conns = {c1, c2}
  Replications = {r1, r2}
  Specs = {s1}
  Monitors = {m1, m2}
  Dests = {d1}
  NoObj = NoObj
  Lag <- LagCRs
  MaxUid = 1
  MaxOps = 3
  MaxCrashes = 1
  MaxFaults = 0
INVARIANTS
  RecordHasFinalizer
PROPERTIES
  ReleaseIsClean
  DeletionProtection
  Converges
CHECK_DEADLOCK FALSE
