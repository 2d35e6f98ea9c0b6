SPECIFICATION Spec
CONSTANTS
  CPCounts = {3}
  WPCounts = {0}
  MaxWorkers = 1
  MaxFaults = 1
  Faults = {"api"}
PROPERTIES
  CleanupLeavesNothing
