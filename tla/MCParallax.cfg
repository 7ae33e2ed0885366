SPECIFICATION FairSpec
CONSTANTS
  Rows = 2
  Width = 2
  Up = 1
  Shifts <- TwoShifts
  Writers = {"main", "http"}
  History = 2
  SndHwm = 2
  Setups <- SomeSetups
  Series <- SomeSeries
  Changes <- SomeChanges
  BatchSize = 2
  PendingCap = 1
  MaxSeries = 2
  MaxUpdates = 1
  MaxPreviews = 1
  MaxSaveErrors = 1
INVARIANTS ImagesExact RowsShownComplete ArgsMatchImage ScanSaved SavedIsTuned StoreOrdered
PROPERTIES ViewCatchesUp CloseEnds
CHECK_DEADLOCK FALSE
