\* int16_t, in bytes of 8 bits and words of 64.
SPECIFICATION Spec
CONSTANTS
  Width = 16
  IsSigned = TRUE
  ByteBits = 8
  WordBits = 64
  Alignment = 8
  MaxEncodings = 1
  Inputs <- WholeGroups
  Sought <- SomeOfThem
  Junk <- SomeJunk
INVARIANT DropsOnlyTooLarge
\* The model stops at the last call of encode() it follows.
CHECK_DEADLOCK FALSE
