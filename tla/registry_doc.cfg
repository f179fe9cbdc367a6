\* What the documents say, one claim at a time: TLC refutes each.
SPECIFICATION Spec
CONSTANTS
  p1 = p1
  p2 = p2
  Nodes = {n1}
  AgentIDs = {i1, i2}
  NoID = NoID
  Handlers = {h1, h2}
  NoHandler = NoHandler
  Namespaces = {""}
  NoNamespace = ""
  Reports <- TwoInventories
  AuthEnabled = FALSE
  UnhealthyTimeout = 1
  DisconnectedTimeout = 2
  MaxLag = 1
  MaxAge = 4
  MaxAttempts = 2
  CallsFail = FALSE
  CallsLost = TRUE
  ProcessesExit = TRUE
INVARIANT UpsertKeepsForeignKey
\* INVARIANT InventoryIsOneReport
\* PROPERTY DisconnectedNeedsRegistration
CHECK_DEADLOCK FALSE
