CONSTANTS
  Names = {"f", "g"}
  Writes = {w}
  None = None
  Torn = Torn
  MaxFaults = 1
  Dirs = {"d", "e"}
  Files = {"f", "g"}
  Root = "root"
  NoPath = "none"
  Parent <- SmallParent
  Above <- SmallAbove
  Clients = {c1, c2}
SPECIFICATION MCSpec
INVARIANTS PromotionInv TreeInv CreatedFilesKept
PROPERTIES PromotionInvisible SnapshotPublished QuietFilesPromoted QuietTreesPromoted
