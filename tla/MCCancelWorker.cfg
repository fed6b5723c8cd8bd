SPECIFICATION CancelFairSpec
CONSTANTS
  MaxProgress = 4
  MaxNested = 2
INVARIANTS
  TellsOnlyTheLiving
  SheetFollowsOperations
PROPERTIES
  CancelEnds
  StopEnds
CHECK_DEADLOCK FALSE
