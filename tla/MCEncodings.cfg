SPECIFICATION Spec
CONSTANTS
  Byte = 4
  Radix = 3
  Word = 32
  KeyType = 3
  Component <- MCComponent
  MaxLength <- MCMaxLength
INVARIANTS
  Base58Bijective
  DIDIdentifiesKey
  DerivesAsWritten
CHECK_DEADLOCK FALSE
