\* What the documents say, one claim at a time: TLC refutes each.
SPECIFICATION FairSpec
CONSTANTS
  Transfers = {t1}
  NoTransfer = NoTransfer
  Handlers = {h1}
  Streams = {s1}
  BufferSize = 2
  MaxReports = 2
  CallsFail = FALSE
PROPERTY SettledStreamEnds
\* INVARIANT FinalEventSent
\* INVARIANT NothingMissed
\* INVARIANT GaugeNotNegative
CHECK_DEADLOCK FALSE
