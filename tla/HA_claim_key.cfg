SPECIFICATION Spec
CONSTANTS
  NumIDs = 13
  IDs <- MCIDs
  Mint <- LeastFree
  Blocking <- AllBlocking
  CPCounts = {2, 3}
  WPCounts = {0, 1}
  MaxRetry = 2
  MaxStrays = 0
  Faults = {}
INVARIANTS WorkersHaveKey
