SPECIFICATION FairSpec
CONSTANTS
  Profiles = {p1}
  Conns = {c1}
  Replications = {r1}
  Specs = {s1}
  Monitors = {m1}
  Dests = {d1}
  NoObj = NoObj
  Lag <- LagNone
  MaxUid = 1
  MaxOps = 3
  MaxCrashes = 0
  MaxFaults = 0
PROPERTIES
  DeletionCompletes
CHECK_DEADLOCK FALSE
