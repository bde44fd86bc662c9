SPECIFICATION Spec
CONSTANTS
  Value = {v1, v2}
  Outlier = v2
  NoValue = noValue
  NoData = noData
  Torn = torn
  GroupSize = 2
  MaxSize = 4
  Encode <- MCEncode
  Decode <- MCDecode
  FindIn <- MCFindIn
  Patched <- MCPatched
  Faults = {"seal"}
INVARIANT EveryGroupIsFull
