SPECIFICATION FairSpec
CONSTANTS
  Slots = 2
  ImagesPerFile = 2
  Series <- SomeSeries
  Plans <- SomePlans
  MayFail = TRUE
  MayStop = TRUE
INVARIANTS
  StagingConserved
  QueuedBatchesWritten
PROPERTIES
  EndMeansStored
  ThreadExits
