CONSTANT MaxProcesses = 2
SPECIFICATION FairSpec
INVARIANTS
  WaitsOnlyWhileRunning
  InterruptIsKnown
PROPERTY
  GroupStops
CHECK_DEADLOCK FALSE
