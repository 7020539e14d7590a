SPECIFICATION ChannelFairSpec
CONSTANTS
  Outputs = {"out", "err"}
  MaxInput = 4
  MaxSignals = 0
  FrameCap = 1
  StdinCap = 1
  OutCap = 1
  DownCap = 1
  SigCap = 1
CHECK_DEADLOCK FALSE
PROPERTY
  ChannelEnds
