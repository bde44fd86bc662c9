\* Signed integers of 8 bits in bytes of 4 bits and words of 8.
SPECIFICATION Spec
CONSTANTS
  Width = 8
  IsSigned = TRUE
  ByteBits = 4
  WordBits = 8
  Alignment = 4
  MaxEncodings = 1
  Inputs <- SmallInputs
  Sought <- SomeOfThem
  Junk <- SomeJunk
INVARIANTS
  TypeOK
  FillsItsMemory
  DecodesWhatWasEncoded
  FindsFirstIndex
  FetchAgrees
  NeverExpands
\* The model stops at the last call of encode() it follows.
CHECK_DEADLOCK FALSE
