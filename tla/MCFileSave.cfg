SPECIFICATION Spec
CONSTANTS
  NoFile = NoFile
  NoPath = NoPath
  ProjectPaths = {"nma", "nmm"}
  MaxFaults = 2
  MaxVersion = 1
  ShortWrites = FALSE
INVARIANTS
  SavePointAgrees
  NoTemporaryLeft
PROPERTIES
  FilesAreReplacedWhole
  BackupComesFirst
