SPECIFICATION Spec
CONSTANTS
  MaxClose = 2
  MaxQueue = 1
  MaxDialog = 1
  Records = 1
  Semaphore = FALSE
  Happens <- MCAll
INVARIANT TerminatesAfterDestroy
CHECK_DEADLOCK FALSE
