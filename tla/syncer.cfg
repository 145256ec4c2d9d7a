CONSTANTS
  P1 = P1
  Peers = {P1}
  None = None
  Span = 1
  Slots = 2
  MaxEnqueue = 2
  MaxLosses = 1
  Blocks <- Fork
  Starts <- Heads
SPECIFICATION FairSpec
CHECK_DEADLOCK FALSE
INVARIANTS
  NoPanic
  DeadPeersLeave
  LatestCommon
PROPERTIES
  CatchesUp
  CatchUpSpec
