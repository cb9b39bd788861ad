\* A ring of three places that wraps, five bytes each way; a block with one
\* connected face of the two that have a key, two keys.
SPECIFICATION MCSpec
CONSTANTS
  x = x
  y = y
  Byte <- TwoBytes
  Empty = Empty
  SERIAL_BUFFER_SIZE = 3
  LIMIT = 5
  Connected = {"NORTH"}
  KEYS = 2
  Nobody = Nobody
CHECK_DEADLOCK FALSE
INVARIANTS
  BothTypesOK
  ToldTheTruth
PROPERTIES
  InOrder
  FlushMeansSent
  EverythingSent
  ReceiveInOrder
  ReceiverDrained
  ComesRound
