SPECIFICATION FairSpec
CONSTANTS
  Sizes = {2, 4, 5}
  BufferSize = 7
  ChunkSize = 4
  MaxSent = 4
INVARIANT HandledAtOnce
INVARIANT OnlyLongMessagesOverflow
PROPERTY EverythingHandled
CHECK_DEADLOCK FALSE
