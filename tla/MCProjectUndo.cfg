SPECIFICATION Spec
CONSTANTS
  Command <- MCCommand
  NULL = NULL
  HardLimit = 2
  mA = mA
  mB = mB
  Model = {mA, mB}
  Project = Project
  Frame = {0, 1}
  SoftLimit = 2
  CameraShared = TRUE
  Operations <- MCAll
SYMMETRY MCSymmetry
INVARIANT MotionAtCursor
PROPERTIES   SeekTakesTransformBack
CHECK_DEADLOCK FALSE
