SPECIFICATION FairSpec
CONSTANTS
  a = a
  b = b
  writer = writer
  reader = reader
  resizer = resizer
  Thread = {writer, reader, resizer}
  NULL = NULL
  Junk = Junk
  PageSize = 3
  MaxSize = 6
  UNSIGNED = 12
  Byte <- MCByte
  Payload <- MCShort
  Writes <- MCWrites
  Counts = {1, 2}
  Sizes = {3}
  Resizes = 0
  timed = FALSE
CHECK_DEADLOCK FALSE
PROPERTY WrittenIsRead
