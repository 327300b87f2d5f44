SPECIFICATION Spec
CONSTANTS
  t1 = t1
  t2 = t2
  Threads = {t1, t2}
  Requests = {1, 4, 30}
  MaxBlocks = 4
  Sizeof <- Sizes
  ALIGNMENT = 2
  ALIGN_INFO = 2
  l_pageSize = 16
  l_pageCount = 2
  highest_page = 14
  Guard = 0
  Reused = TRUE
SYMMETRY Symmetry
INVARIANTS PagesExclusive
CHECK_DEADLOCK FALSE
