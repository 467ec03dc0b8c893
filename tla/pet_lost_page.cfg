SPECIFICATION Spec
CONSTANTS
  Thread = {t1}
  Page = {p1, p2, p3}
  NULL = NULL
  LRU = LRU
  units_per_page = 3
  bm_page_header_size_in_units = 1
INVARIANT NoPageLost
