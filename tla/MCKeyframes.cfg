SPECIFICATION Spec
CONSTANTS
  Key = {k1, k2, k3, k4}
  None = None
  Pose = {"rest", "bent"}
  Rest = "rest"
  Loaded <- MCLoaded
  MaxFrame = 2
  Limit = 2
  MaxEdit = 3
SYMMETRY MCSymmetry
INVARIANTS TrackMatchesArray OwnedOnce UndoRestoresTrack
PROPERTIES SelectionFollows
CHECK_DEADLOCK FALSE
