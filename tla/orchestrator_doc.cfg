\* What the documents say, one claim at a time: TLC refutes each.
SPECIFICATION FairSpec
CONSTANTS
  Transfers = {t1}
  NoTransfer = none
  Handlers = {h1, h2}
  Requests <- RetriedRequest
  S3Configured = TRUE
  DefaultRetryMax = 1
  DBFaults = {}
  CallFaults = {"lost"}
  CrashAllowed = FALSE
PROPERTY TerminalIsFinal
\* PROPERTY RetryResendsCommand
\* INVARIANT RetryBudgetRespected
\* INVARIANT EndedTransferHasNoAgents
\* INVARIANT CancelDeletesStagedData
CHECK_DEADLOCK FALSE
