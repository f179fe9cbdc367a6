SPECIFICATION FairSpec
CONSTANTS
  Transfers = {t1}
  NoTransfer = NoTransfer
  Handlers = {h1, h2}
  Streams = {s1}
  BufferSize = 1
  MaxReports = 2
  CallsFail = TRUE
CHECK_DEADLOCK FALSE
INVARIANTS
  NoPanic
  SubscribersAreLive
  StreamKeepsOrder
PROPERTIES
  ClosedStreamEnds
