\* What the documents say, one claim at a time: TLC refutes each.
SPECIFICATION Spec
CONSTANTS
  Files <- ClaimFiles
  FileOrder <- ClaimOrder
  Releases <- ClaimReleases
  Own <- NoFiles
  MaxCommands = 2
  MaxEdits = 1
  MaxFaults = 0
INVARIANT NotDeletedUpstream
\* INVARIANT EditsPreserved
\* INVARIANT ForceOverwrites
\* INVARIANT VariablesResolved
\* INVARIANT EveryChangeDecided
\* INVARIANT UpdatedAtRegisteredPath
\* INVARIANT InterruptedIsRetried     with MaxFaults = 1: a kit that was moved
CHECK_DEADLOCK FALSE
