SPECIFICATION ConsumersSpec
CONSTANTS
  Streams = {s1, s2, s3}
  Feeds <- SomeFeeds
  Chunk = 2
  Keep = 1
  ConfiguredScan <- Configured1x2
  MaxInt = 2147483647
  PositionsDepth = 2
INVARIANTS KeptExact ResultsExact ConsumersAgree
CHECK_DEADLOCK FALSE
