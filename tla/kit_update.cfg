SPECIFICATION Spec
CONSTANTS
  Files <- SmallFiles
  FileOrder <- SmallOrder
  Releases <- SmallReleases
  Own <- SmallOwn
  MaxCommands = 3
  MaxEdits = 1
  MaxFaults = 1
INVARIANTS
  EditsSurvive
  AcceptAllConverges
  UpdatedAtRegisteredPath
  InterruptedIsRetried
CHECK_DEADLOCK FALSE
