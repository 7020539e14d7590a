SPECIFICATION DownloadSpec
CONSTANTS
  c1 = c1
  c2 = c2
  Clients = {c1, c2}
  NoFile = NoFile
  OldFile = OldFile
  RemoteLen = 2
  QueueCap = 1
  StreamCap = 1
CHECK_DEADLOCK FALSE
INVARIANT
  SuccessMeansWhole
