SPECIFICATION FairSpec
CONSTANTS
  Base = 2
  MaxFrameLen = 2
  LocalBytes = 1
  ServiceBytes = 1
  SockCap = 1
  WireCap = 4
  QueueCap = 1
  ChunkSizes <- MCChunkSizes
CHECK_DEADLOCK FALSE
PROPERTY
  EitherEofCloses
