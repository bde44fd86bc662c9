SPECIFICATION Spec
CONSTANTS
  Value = {v1, v2}
  Outlier = v2
  NoValue = noValue
  NoData = noData
  Torn = torn
  GroupSize = 3
  MaxSize = 9
  Encode <- MCEncode
  Decode <- MCDecode
  FindIn <- MCFindIn
  Patched <- MCPatched
  Faults <- BenignFaults
INVARIANTS
  TypeOK
  FindsFirst
  AtReadsContents
PROPERTIES
  ImplementsSequence
