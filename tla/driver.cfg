SPECIFICATION FairSpec
CONSTANTS
  Namespaces = {n1}
  Owned = {o1}
  Optional = {o1}
  Specs <- TwoSpecs
  NoObj = NoObj
  Unset = Unset
  Lags <- LagsMixed
  MaxUid = 2
  MaxOps = 3
  MaxFaults = 1
INVARIANTS TypeOK SuccessorsTakeOver
PROPERTIES SharesConfigMap Converges
CHECK_DEADLOCK FALSE
