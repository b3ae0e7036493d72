SPECIFICATION Spec
CONSTANTS
  Regions <- HoledRegions
  MAX_ORDER = 2
  MAX_TRACKED_FRAMES = 9
  NULL_LINK = NULL_LINK
  Junk = Junk
INVARIANTS ListsMatchBitmap NoFrameSharedOrLost FullyCoalesced
PROPERTIES ImplementsFrameStore
