\* What the documents say, one claim at a time: TLC refutes each.
SPECIFICATION FairSpec
CONSTANTS
  p1 = p1
  p2 = p2
  Nodes = {n1}
  AgentIDs = {i1}
  NoID = NoID
  Handlers = {h1}
  NoHandler = NoHandler
  Namespaces = {"", "teamA", "teamB"}
  NoNamespace = ""
  Reports <- OneInventory
  AuthEnabled = TRUE
  UnhealthyTimeout = 1
  DisconnectedTimeout = 2
  MaxLag = 1
  MaxAge = 4
  MaxAttempts = 2
  CallsFail = FALSE
  CallsLost = FALSE
  ProcessesExit = TRUE
PROPERTY RunningAgentIsHealthyAgain
\* INVARIANT IdentityKeepsNamespace
CHECK_DEADLOCK FALSE
