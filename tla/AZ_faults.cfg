SPECIFICATION Spec
CONSTANTS
  CPCounts = {3}
  WPCounts = {0, 2}
  MaxWorkers = 3
  MaxFaults = 2
  Faults = {"api", "lost", "disk", "crash"}
INVARIANTS
  TypeOK
  MachinesRemembered
  EverythingNamed
  NeverInUse
  ListsAligned
  CreateSparesLive
  CreatedIsComplete
PROPERTIES
  CreatedAsAsked
  LifecycleSpec
  CallsCountDown
  RetriedDeleteSucceeds
