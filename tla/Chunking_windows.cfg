CONSTANTS
  Letters = {"a", "b"}
  MaxLength = 6
  MaxTarget = 4
  MaxOverlap = 5
SPECIFICATION ChunkSpec
CHECK_DEADLOCK FALSE
INVARIANTS NothingLost
PROPERTIES WindowsAdvance Ends
