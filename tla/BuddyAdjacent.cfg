SPECIFICATION Spec
CONSTANTS
  Regions <- AdjacentRegions
  MAX_ORDER = 2
  MAX_TRACKED_FRAMES = 8
  NULL_LINK = NULL_LINK
  Junk = Junk
INVARIANT ListsMatchBitmap
