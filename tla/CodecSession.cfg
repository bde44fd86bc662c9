SPECIFICATION SessionSpec
CONSTANTS
  Width = 8
  IsSigned = TRUE
  ByteBits = 4
  WordBits = 8
  Sent <- MCSent
INVARIANTS
  SessionTypeOK
  ReceivesWhatWasSent
  NeverOverflows
  ExactWhenCleared
