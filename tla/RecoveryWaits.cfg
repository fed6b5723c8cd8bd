SPECIFICATION FairSpec
CONSTANTS
  MaxClose = 0
  MaxQueue = 2
  MaxDialog = 2
  Records = 1
  Semaphore = FALSE
  Happens <- MCCrashed
PROPERTY RecoveryFinishes
CHECK_DEADLOCK FALSE
