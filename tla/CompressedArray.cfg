\* Groups of 3 signed integers of 12 bits, bytes of 4 bits and words of 12.
SPECIFICATION Spec
CONSTANTS
  Width = 12
  IsSigned = TRUE
  ByteBits = 4
  WordBits = 12
  Alignment = 4
  Value <- Values
  NoValue = noValue
  NoData = noData
  Torn = torn
  GroupSize = 3
  MaxSize = 8
  Encode <- MCEncode
  Decode <- MCDecode
  FindIn <- MCFindIn
  Patched <- MCPatched
  Faults = {"shift", "tail"}
INVARIANTS
  TailIsShort
  FindsFirst
PROPERTY
  ImplementsSequence
