\* uint16_t, in bytes of 8 bits and words of 64.
SPECIFICATION Spec
CONSTANTS
  Width = 16
  IsSigned = FALSE
  ByteBits = 8
  WordBits = 64
  Alignment = 8
  MaxEncodings = 1
  Inputs <- LargeInputs
  Sought <- SomeOfThem
  Junk <- SomeJunk
INVARIANTS
  FillsItsMemory
  DecodesWhatWasEncoded
  FindsFirstIndex
  NeverExpands
\* The model stops at the last call of encode() it follows.
CHECK_DEADLOCK FALSE
