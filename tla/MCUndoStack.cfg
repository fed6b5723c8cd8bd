SPECIFICATION Spec
CONSTANTS
  Command <- MCCommand
  NULL = NULL
  HardLimit = 3
  SoftLimit = 3
  PersistResults = {TRUE}
INVARIANTS SlotsAreLive DocumentAtCursor NoLeak DirtyIsExact
PROPERTY ImplementsEditHistory
CHECK_DEADLOCK FALSE
