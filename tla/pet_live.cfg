SPECIFICATION FairSpec
CONSTANTS
  Thread = {t1, t2}
  Page = {p1, p2}
  NULL = NULL
  LRU = LRU
  units_per_page = 4
  bm_page_header_size_in_units = 1
  MaxCalls = 2
PROPERTY CallsReturn
CHECK_DEADLOCK FALSE
