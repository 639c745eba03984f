SPECIFICATION FairSpec
CONSTANTS
  Names = {1, 2}
  Profiles = {p1, p2}
  NoObj = NoObj
  MaxOps = 3
  MaxCrashes = 1
  MaxFaults = 1
INVARIANTS TypeOK OldestReady
PROPERTIES EventuallyAgrees
CHECK_DEADLOCK FALSE
