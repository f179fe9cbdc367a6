SPECIFICATION Spec
CONSTANTS
  SlugOrder <- SortedSlugs
  CoreOrder <- TwoCoreDirs
  CacheDirs = {"workflows", "skills"}
  CacheKits = {"sdlc"}
  Manifests = {"sdlc"}
  Projects <- OldLayouts
  Faults = {"backup"}
  MaxVersion = 1
  MaxCommands = 2
  MaxEdits = 0
  MaxFaults = 1
INVARIANTS
  LayoutNothingLost
CHECK_DEADLOCK FALSE
