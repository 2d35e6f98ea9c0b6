SPECIFICATION FairSpec
CONSTANTS
  NumIDs = 12
  IDs <- MCIDs
  Mint <- LeastFree
  Blocking <- AllBlocking
  CPCounts = {3}
  WPCounts = {0, 1}
  MaxRetry = 2
  MaxStrays = 1
  Faults = {"disk", "torn", "lost", "crash"}
PROPERTIES CommandsEnd
