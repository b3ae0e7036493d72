SPECIFICATION Spec
CONSTANTS
  HEAP_SIZE = 24
  MIN_BLOCK_SIZE = 4
  MIN_FL = 2
  FL_COUNT = 3
  SL_COUNT = 2
  Sizes = {1, 4, 6, 40}
  Aligns = {1, 2}
  NULL = NULL
  Junk = Junk
INVARIANT FreeFindsHeader
