SPECIFICATION Spec
CONSTANTS
  Namespaces = {n1, n2}
  Owned = {o1}
  Optional = {o1}
  Specs <- TwoSpecs
  NoObj = NoObj
  Unset = Unset
  Lags <- LagsClaim
  MaxUid = 2
  MaxOps = 3
  MaxFaults = 1
PROPERTY ClaimKept
CHECK_DEADLOCK FALSE
