CONSTANTS
  ValidAddresses = {a1, a2}
  InvalidAddresses = {bad}
  HalfWord = 4
SPECIFICATION LedgerSpec
INVARIANTS
  LedgerTypeOK
  NoReceiverExceedsSpent
  Conserved
  SendNeverOverflows
PROPERTY
  PaymentsOnlyGrow
