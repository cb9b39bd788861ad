\* Does Flush() return?
SPECIFICATION FairSpec
CONSTANTS
  Byte = {x, y}
  Empty = Empty
  SERIAL_BUFFER_SIZE = 3
  LIMIT = 3
CHECK_DEADLOCK FALSE
PROPERTY
  FlushReturns
