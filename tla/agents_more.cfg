SPECIFICATION Spec
CONSTANTS
  CoreNames <- MCCore
  KitNames <- MCKit
  OwnFiles <- MCOwn
  MaxVersion = 2
  MaxRuns = 2
  MaxEdits = 2
  MaxFaults = 1
INVARIANTS
  TypeOK
  RunPhase
  SettledPhase
PROPERTIES
  NoProxyForForeignKit
\* What the documents say: TLC refutes each.
\* PROPERTY QuietMeansNoChange
\* PROPERTY AgentsIsReadOnly
\* INVARIANT LocalCopyIsWhole
CHECK_DEADLOCK FALSE
