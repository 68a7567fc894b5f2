CONSTANTS
  Docs = {a, b}
  CheckAs <- CheckSecondOnSave
  Kinds = {"fine", "several", "placed", "unplaced"}
  Methods <- AllMethods
  MaxSent = 3
SPECIFICATION Spec
INVARIANTS TypeOK SnapshotTypesLive ClosedIsCleared SavedIsSeen
PROPERTIES PublishedForward Settles
CHECK_DEADLOCK FALSE
