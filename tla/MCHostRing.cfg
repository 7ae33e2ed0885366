SPECIFICATION HostSpec
CONSTANTS
  SendDepth = 3
  SignalEvery = 4
  RecvDepth = 3
  Values = {0}
  Imms = {0, 1}
  RingLen = 5
  Frames = 3
  RdmaBatch = 2
  SeriesCount = 2
  Cuts = {0, 2, 3}
  SenderDepth = 3
  ImmMod = 4
INVARIANTS ReceivesAccounted NoWedge FramesExact
CHECK_DEADLOCK FALSE
