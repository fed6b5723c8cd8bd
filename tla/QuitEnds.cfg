SPECIFICATION FairSpec
CONSTANTS
  MaxClose = 1
  MaxQueue = 3
  MaxDialog = 2
  Records = 1
  Semaphore = TRUE
  Happens <- MCAsk
INVARIANT DiscardsByChoice
PROPERTY QuitCompletesUnlessMinimized
CHECK_DEADLOCK FALSE
