SPECIFICATION Spec
CONSTANTS
  Kits = {"sdlc", "mine"}
  DefaultKit = "sdlc"
  CacheHasKit = TRUE
  Projects <- AllProjects
  MaxRuns = 2
  MaxFaults = 1
INVARIANTS
  TypeOK
  SafetyInv
\* What the documents say, refuted by TLC:
\* INVARIANT RollbackRestoresState
\* INVARIANT PassMeansRulesMigrated
CHECK_DEADLOCK FALSE
