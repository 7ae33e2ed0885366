SPECIFICATION FairSession
CONSTANTS
  Parties = 2
  Seconds = TRUE
  MaxFrames = 2
INVARIANTS RingReachable DrainIsFinal
PROPERTIES EndsTogether
CHECK_DEADLOCK FALSE
