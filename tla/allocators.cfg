SPECIFICATION AllocatorsSpec
CONSTANTS
  UnitAddr = {u1, u2}
  PageAddr = {p1, p2}
  HeapAddr = {u1, u2}
  NULL = NULL
  UNIT_SIZE = 2
  sys_page_size = 8
  max_data_units = 3
  UNSIGNED = 64
  BUBBLEWRAP = 2
  SizeofInfo = 1
  Sizes = {0, 1, 2, 3, 5, 9, 16, 61}
  HeapSizes = {0, 1, 3, 61}
SYMMETRY Symmetry
CHECK_DEADLOCK FALSE
INVARIANTS
  
  LedgerBalances
  NoAbort
PROPERTIES
  ImplementsContract
  DamageFound
