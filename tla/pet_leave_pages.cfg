SPECIFICATION Spec
CONSTANTS
  UnitAddr = {u1, u2}
  PageAddr = {p1, p2}
  NULL = NULL
  UNIT_SIZE = 2
  sys_page_size = 8
  max_data_units = 3
  UNSIGNED = 64
  Sizes = {1, 3, 9}
CHECK_DEADLOCK FALSE
INVARIANT ReleasesUnitsOnly
