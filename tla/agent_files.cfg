SPECIFICATION Spec
CONSTANTS
  CoreNames <- MCCore
  KitNames <- MCKit
  OwnFiles <- MCOwn
  MaxVersion = 2
  MaxRuns = 2
  MaxEdits = 2
  MaxFaults = 1
INVARIANTS
  GenerateConverges
PROPERTIES
  BystandersKept
  GenerateIsIdempotent
CHECK_DEADLOCK FALSE
