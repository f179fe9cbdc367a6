SPECIFICATION Spec
CONSTANTS
  SlugOrder <- SortedSlugs
  CoreOrder <- TwoCoreDirs
  CacheDirs = {"workflows", "skills"}
  CacheKits = {"sdlc"}
  Manifests = {"sdlc"}
  Projects <- AllProjects
  Faults = {"kill", "copy", "backup", "restore", "tear", "rmtree", "write", "remove"}
  MaxVersion = 2
  MaxCommands = 3
  MaxEdits = 1
  MaxFaults = 1
INVARIANTS
  UpdateCompletes
  OldKitsSurvive
PROPERTIES
  UpdateIsIdempotent
CHECK_DEADLOCK FALSE
