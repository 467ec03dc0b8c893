SPECIFICATION Spec
CONSTANTS
  a = a
  b = b
  Junk = Junk
  PageSize = 2
  MaxSize = 6
  UNSIGNED = 16
  Byte <- MCByte
  Writes <- MCPairs
  Counts = {1}
  Sizes = {3}
CHECK_DEADLOCK FALSE
PROPERTY ReadTakesFront
