SPECIFICATION MCSpec
CONSTANTS
  Base = 2
  MaxFrameLen = 2
  LocalBytes = 2
  ServiceBytes = 2
  SockCap = 1
  WireCap = 4
  QueueCap = 1
  ChunkSizes <- MCChunkSizes
  c1 = c1
  c2 = c2
  Conns = {c1, c2}
  Rogues = {c2}
  ConnOf <- MCConnOf
  MaxParked = 2
  MaxRefs = 3
CHECK_DEADLOCK FALSE
INVARIANTS
  InOrder
  EofAfterAll
  OneHolder
PROPERTIES
  ForwardEnds
  SocketSettles
