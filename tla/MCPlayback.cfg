SPECIFICATION FairSpec
CONSTANTS
  Models = {m1}
  NoModel = NoModel
  NoState = NoState
  Duration = 1
  MaxMessages = 1
  MaxDialogs = 2
  AllowedCrossings = {"replayed", "deleted", "hidden", "looped", "asked twice"}
  MaxCrossings = 1
INVARIANTS
  PointersAlive
  SelectionSurvives
  EditingExcludesPlayback
  MenuFollowsPlayback
PROPERTIES
  ShowingResumesWhatHidingStopped
  PlaybackEnds
CHECK_DEADLOCK FALSE
