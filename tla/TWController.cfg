\* A buffer of two bytes, one slave that answers, one address without any.
SPECIFICATION FairSpec
CONSTANTS
  TW_BUFFER_LENGTH = 2
  Slaves = {s}
  Address = {s, t}
  Byte = {x, y}
  Nothing = Nothing
  CALLS = 3
  ERRORS = 1
CHECK_DEADLOCK FALSE
INVARIANTS
  TypeOK
  BetweenTransactions
PROPERTIES
  TransmitHonest
  ReadFaithful
  CallsReturn
