SPECIFICATION MainSpec
CONSTANTS
  Decoders = {d1, d2}
  Streams <- SomeStreams
  Masks <- SomeMasks
  Backends = {"cpu", "gpu"}
  Headless = {TRUE, FALSE}
  ChunkSize = 2
  QueueMax = 1
  Positions = 9
  ByteValues = 4
  Detector <- SomeDetector
  Centre <- SomeCentre
  Radius = 1
INVARIANTS EndIsLast SavedWhole
PROPERTIES Ends
CHECK_DEADLOCK FALSE
