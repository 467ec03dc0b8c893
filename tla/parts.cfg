SPECIFICATION PartsSpec
CONSTANTS
  Page = {p1, p2, p3, p4}
  NULL = NULL
  blocks_per_page = 2
  bitmap_bits = 3
  WORD_WIDTH = 4
  NumWords = 3
  bm_page_header_size_in_units = 3
  UINT_MAX = 15
  nullptr = nullptr
  UNSIGNED = 256
  sys_page_size = 16
  ARENA_HEADER_SIZE = 8
  REGION_HEADER_SIZE = 4
  Alignments = {1, 4}
  Sizes = {5, 20}
  Capacities = {0, 20}
  MaxRegions = 3
  SizeofHeader = 4
  Lengths = {0, 1, 4, 13}
  ItemSizes = {1, 2, 3, 4, 5, 7, 8, 11, 12, 13, 16, 17, 24, 31, 33}
  Increments = {0, 1, 3, 7}
  MaxLength = 40
  NSEC = 5
  SUB = 2
  Wholes = {0, 1, 2}
  Fractions = {0, 1, 2, 5, 8, 9, 10}
  Seconds = {0, 1, 3}
  MaxSec = 6
  SizeofWord = 4
  MaxBytes = 14
  Rows = {0, 1}
  MaxRows = 8
  ROW = 3
  Bytes = {0, 1}
  MaxBitmap = 9
  Address = {1, 2, 3, 4}
SYMMETRY Symmetry
CHECK_DEADLOCK FALSE
INVARIANTS
  BooksKept BlocksMapped LinksSafe
  PageDivided RegionsSound ItemsKept TimeRight ClearsRange
  RowsTold StarsTold ScansExact MadeOrUndone
PROPERTIES
  VisitsOnce NewRegionServes
