SPECIFICATION Spec
CONSTANTS
  Thread = {t1, t2}
  Page = {p1, p2}
  NULL = NULL
  LRU = LRU
  units_per_page = 4
  bm_page_header_size_in_units = 1
SYMMETRY Symmetry
INVARIANTS
  TypeOK
  PagesExclusive
  BlocksDisjoint
  BlocksMapped
  BitmapExact
  SuperblockClassified
  NoAbort
  CountsSettle
  IInv
PROPERTY ImplementsBlockStore
