SPECIFICATION Spec
CONSTANTS
  Names = {1, 2}
  Profiles = {p1}
  NoObj = NoObj
  MaxOps = 3
  MaxCrashes = 0
  MaxFaults = 0
INVARIANT OnlyOldestReady
CHECK_DEADLOCK FALSE
