SPECIFICATION Spec
CONSTANTS
  SlugOrder <- SortedSlugs
  CoreOrder <- TwoCoreDirs
  CacheDirs = {"workflows", "skills"}
  CacheKits = {"sdlc"}
  Manifests = {"sdlc"}
  Projects <- AllProjects
  Faults = {"kill", "copy", "backup", "restore", "tear", "rmtree", "write", "remove"}
  MaxVersion = 2
  MaxCommands = 3
  MaxEdits = 1
  MaxFaults = 1
INVARIANTS
  TypeOK
  TodoThere
  UpdatePhase
  InitPhase
  ReportPhase
  PathPhase
  OldKitsPhase
  SettledPhase
  BackupPhase
PROPERTIES
  UserConfigKept
  OverwrittenIsBackedUp
\* What the documents say: TLC refutes each (with MaxVersion = 1 and MaxCommands = 2).
\* PROPERTY LayoutKeepsEdits
\* INVARIANT LayoutNothingLost       with Faults = {"restore"}
\* INVARIANT SystemRemoved
\* INVARIANT LayoutFailureReported
\* INVARIANT KitRefsResolve
\* INVARIANT CoreReplacedAtomically
\* PROPERTY CoreTomlKept
CHECK_DEADLOCK FALSE
