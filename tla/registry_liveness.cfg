SPECIFICATION FairSpec
CONSTANTS
  p1 = p1
  p2 = p2
  Nodes = {n1}
  AgentIDs = {i1}
  NoID = NoID
  Handlers = {h1}
  NoHandler = NoHandler
  Namespaces = {""}
  NoNamespace = ""
  Reports <- OneInventory
  AuthEnabled = FALSE
  UnhealthyTimeout = 1
  DisconnectedTimeout = 2
  MaxLag = 1
  MaxAge = 4
  MaxAttempts = 2
  CallsFail = FALSE
  CallsLost = FALSE
  ProcessesExit = TRUE
INVARIANTS
  HealthyFlagMatchesState
  NeverMarkedEarly
PROPERTIES
  SilentAgentIsDisconnected
  RunningAgentIsHealthyAgain
