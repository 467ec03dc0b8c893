SPECIFICATION FairSpec
CONSTANTS
  a = a
  b = b
  writer = writer
  reader = reader
  resizer = resizer
  Thread = {writer, reader, resizer}
  NULL = NULL
  Junk = Junk
  PageSize = 3
  MaxSize = 6
  UNSIGNED = 12
  Byte <- MCByte
  Payload <- MCPayload
  Writes <- MCWrites
  Counts = {1, 2}
  Sizes = {3, 6}
  Resizes = 2
  timed = TRUE
CHECK_DEADLOCK FALSE
INVARIANTS ReaderTold WriterTold BytesInOrder
PROPERTY AllArrives
