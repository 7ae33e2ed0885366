CONSTANTS
  QueueDepth = 2
  Config = {"writer", "encoder"}
  Setups <- BothGraphs
  LastBatch <- Longest
SPECIFICATION FairSpec
INVARIANTS NoEdgeOverflows CompletionAfterEveryEnd
PROPERTIES DecodedFlows Drains StopEnds
CHECK_DEADLOCK FALSE
