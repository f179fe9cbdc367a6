SPECIFICATION Spec
CONSTANTS
  Kits = {"sdlc", "mine"}
  DefaultKit = "sdlc"
  CacheHasKit = TRUE
  Projects <- AllProjects
  MaxRuns = 2
  MaxFaults = 1
INVARIANTS
  NothingLost
  RollbackKeepsItsWord
  PassIsComplete
PROPERTIES
  BackupsAreFrozen
CHECK_DEADLOCK FALSE
