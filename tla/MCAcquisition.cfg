SPECIFICATION AcquisitionSpec
CONSTANTS
  Plans <- AllPlans
  BatchSize = 2
  WindowCap = 1
  MayStop = TRUE
  Calls <- SomeCalls
  Setups <- SomeSetups
  Meddling <- Meddles
  MaxCalls = 2
  Scan = 2
  Readout = 1
PROPERTIES ImplementsFeed AllDelivered ScanReported
CHECK_DEADLOCK FALSE
