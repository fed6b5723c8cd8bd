SPECIFICATION FairSpec
CONSTANTS
  Start = 0
  End = 1
  Scale = 2
  MaxExports = 2
  MaxFaults = 2
  MaxInFlight = 2
  Crossings = {}
INVARIANTS EncodedInOrder ReadsOutliveNothing SettingsComeBack EveryFrameIsRead OneFrameIsLate
PROPERTIES CaptureEnds
CHECK_DEADLOCK FALSE
