SPECIFICATION MCSpec
CONSTANTS
  c1 = c1
  c2 = c2
  Outputs = {"out", "err"}
  MaxInput = 2
  MaxSignals = 1
  FrameCap = 1
  StdinCap = 1
  OutCap = 1
  DownCap = 1
  SigCap = 1
  Clients = {c1, c2}
  NoFile = NoFile
  OldFile = OldFile
  RemoteLen = 2
  QueueCap = 1
  StreamCap = 1
  FileLen = 2
  UpCap = 1
  InCap = 1
  Root = "root"
  Children <- MCChildren
  Files <- MCFiles
  Skipped <- MCSkipped
  ReadOnly <- MCReadOnly
  MaxRuns = 2
CHECK_DEADLOCK FALSE
INVARIANTS
  OutputComplete
  EofAfterInput
  ExitCodeReturned
  NoSilentSuccess
  PartOwned
  UploadExact
  RerunSucceeds
PROPERTIES
  EndsAfterExit
  DownloadEnds
  UploadEnds
  RefinesTreeCopy
