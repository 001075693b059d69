SPECIFICATION FairSpec
CONSTANTS
  MaxConns = 2
  MaxInterrupts = 3
INVARIANTS
  LifecycleTypeOK
  CountIsWhole
  SaneUntilDeleted
PROPERTY StopEndsRun
CHECK_DEADLOCK FALSE
