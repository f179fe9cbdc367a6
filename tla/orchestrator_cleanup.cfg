SPECIFICATION FairSpec
CONSTANTS
  Transfers = {t1}
  NoTransfer = none
  Handlers = {h1, h2}
  Requests <- AllRequests
  S3Configured = TRUE
  DefaultRetryMax = 1
  DBFaults = {}
  CallFaults = {}
  CrashAllowed = FALSE
PROPERTIES
  CompletionCleansUp
CHECK_DEADLOCK FALSE
