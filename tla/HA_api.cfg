SPECIFICATION Spec
CONSTANTS
  NumIDs = 13
  IDs <- MCIDs
  Mint <- LeastFree
  Blocking <- AllBlocking
  CPCounts = {2, 3}
  WPCounts = {0, 1, 2}
  MaxRetry = 2
  MaxStrays = 0
  Faults = {"api", "ssh"}
INVARIANTS RecordedAreAttached WorkersAreNumbered CreatedIsComplete
PROPERTIES CreatedAsAsked NeverForgetsLive RemovesNewestFirst CallsCountDown
