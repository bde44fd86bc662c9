\* The words of the code, every number of bits an integer can have, and its types.
SPECIFICATION StreamSpec
CONSTANTS
  WordBits = 64
  ByteBits = 8
  IntBits = 32
  MaxSent = 2
  Widths <- AllWidths
  Lists <- MCLists
  Messages <- MCMessages
INVARIANTS
  TypeOK
  FitsInWord
  DecodesInOrder
  ReadsWhatWasWritten
  BlocksAreAsDescribed
  PatchedTypeOK
  PatchesInside
  PatchRestores
  ExceptionsAreAsDescribed
  VarintTypeOK
  MovesBySpace
  NoBitIsLost
  DeliversInOrder
  BytesAreAsDescribed
PROPERTY
  ImplementsChannel
