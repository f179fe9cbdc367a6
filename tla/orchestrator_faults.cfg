SPECIFICATION Spec
CONSTANTS
  Transfers = {t1}
  NoTransfer = none
  Handlers = {h1, h2}
  Requests <- AllRequests
  S3Configured = TRUE
  DefaultRetryMax = 1
  DBFaults = {"lost", "unacked"}
  CallFaults = {"lost", "unacked"}
  CrashAllowed = TRUE
SYMMETRY HandlerSymmetry
INVARIANTS
  TypeOK
  StrategyOnRecord
  StartedBeforeWork
  AgentFailureExhaustsRetries
  RetryOvershootBounded
PROPERTIES
  NonTerminalMovesLegal
  SettledIsFinal
CHECK_DEADLOCK FALSE
