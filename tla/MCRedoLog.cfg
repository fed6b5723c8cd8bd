SPECIFICATION Spec
CONSTANTS
  MaxCommand = 3
  MaxSequence = 4
  MaxProject = 3
  Rewrites = TRUE
  Events <- MCSession
INVARIANT LogReproducesDocument
PROPERTY RecoveryRestoresDocument
CHECK_DEADLOCK FALSE
