SPECIFICATION FairSpec
CONSTANTS
  Plans <- AllPlans
  RingLen = 5
  ControlCells = 1
  StartCells = 1
  ImageCells = 1
  BatchSize = 2
  MaxBatch = 2
  MaxDeficit = 1
  WindowCap = 1
  ImmMod = 4
  Streams = {1, 2}
  MayStop = TRUE
  SendDepth = 2
  SignalEvery = 2
  RecvDepth = 3
INVARIANTS NoOverwrite NeverRejects CreditChain ShutdownSafe
PROPERTIES ImplementsFeed EndsWell
CHECK_DEADLOCK FALSE
