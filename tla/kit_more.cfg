SPECIFICATION Spec
CONSTANTS
  Files <- FilesAndOwn
  FileOrder <- OwnOrder
  Releases <- MCBrokenReleases
  Own <- OwnFiles
  MaxCommands = 2
  MaxEdits = 1
  MaxFaults = 1
INVARIANTS
  TypeOK
  KitInv
  ReportPhase
  VersionPhase
  UpdatePhase
  PathPhase
  InstalledAtBindings
CHECK_DEADLOCK FALSE
