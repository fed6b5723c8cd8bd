SPECIFICATION BatchSpec
CONSTANTS
  Motion <- MCMotion
  ModelMotion = "model"
  MaxVersion = 8
  BatchOperations <- MCAll
INVARIANT ListRestoresOperation
CHECK_DEADLOCK FALSE
