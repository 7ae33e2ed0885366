SPECIFICATION PlaySpec
CONSTANTS
  DetectorStreams <- MCStreams
  Setups <- MCSetups
  ScanHeight = 2
  ScanWidth = 2
  BatchFrames = 3
  Hwm = 2
  MaxReceive = 3
INVARIANTS InOrder
PROPERTIES PlaysThrough
CHECK_DEADLOCK FALSE
