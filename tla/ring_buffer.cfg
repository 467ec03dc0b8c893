SPECIFICATION Spec
CONSTANTS
  a = a
  b = b
  Junk = Junk
  PageSize = 2
  MaxSize = 6
  UNSIGNED = 16
  Byte <- MCByte
  Writes <- MCWrites
  Counts = {0, 1, 2, 3, 6}
  Sizes = {1, 3, 6, 15}
CHECK_DEADLOCK FALSE
INVARIANT InBounds
PROPERTIES ShrinksFully ImplementsByteQueue
