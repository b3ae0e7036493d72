SPECIFICATION HeapSpec
CONSTANTS
  HEAP_SIZE = 24
  MIN_BLOCK_SIZE = 4
  MIN_FL = 2
  FL_COUNT = 3
  SL_COUNT = 2
  Sizes = {1, 4, 6, 40}
  Aligns = {1}
  OtherSizes = {1, 3, 40}
  OtherAligns = {1, 4}
  MaxLive = 3
  PAGE_SIZE = 4
  OTHER_HEAP_SIZE = 12
  Left = {3, 7}
  Tables = {0, 3}
  NULL = NULL
  Junk = Junk
INVARIANTS BoundaryTags ListsHoldFreeBlocks RefusalJustified HeapMapped SpaceAccounted
PROPERTY ImplementsHeapContract
