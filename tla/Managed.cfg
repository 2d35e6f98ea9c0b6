SPECIFICATION FairSpec
CONSTANTS
  NodeCounts = {0, 1, 3}
  MaxFaults = 3
  Faults = {"api", "lost", "disk", "crash"}
INVARIANTS
  TypeOK
  SuccessIsComplete
PROPERTIES
  CivoLifecycle
  AzureLifecycle
  LocalLifecycle
  CommandsEnd
