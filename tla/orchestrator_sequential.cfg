SPECIFICATION Spec
CONSTANTS
  Transfers = {t1}
  NoTransfer = none
  Handlers = {h1}
  Requests <- AllRequests
  S3Configured = FALSE
  DefaultRetryMax = 1
  DBFaults = {"lost", "unacked"}
  CallFaults = {"lost", "unacked"}
  CrashAllowed = TRUE
INVARIANTS
  TimelineMatchesRow
PROPERTIES
  LifecycleSpec
CHECK_DEADLOCK FALSE
