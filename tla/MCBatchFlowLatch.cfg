CONSTANTS
  QueueDepth = 4
  Config = {"writer"}
  Setups <- FiniteSeveral
  LastBatch <- Longest
SPECIFICATION FairSpec
INVARIANT CompletionAfterEveryEnd
CHECK_DEADLOCK FALSE
