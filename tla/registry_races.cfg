SPECIFICATION Spec
CONSTANTS
  p1 = p1
  p2 = p2
  Nodes = {n1}
  AgentIDs = {i1, i2}
  NoID = NoID
  Handlers = {h1, h2}
  NoHandler = NoHandler
  Namespaces = {""}
  NoNamespace = ""
  Reports <- OneInventory
  AuthEnabled = FALSE
  UnhealthyTimeout = 1
  DisconnectedTimeout = 2
  MaxLag = 1
  MaxAge = 4
  MaxAttempts = 2
  CallsFail = TRUE
  CallsLost = TRUE
  ProcessesExit = TRUE
INVARIANTS
  TypeOK
  HealthyFlagMatchesState
  NeverMarkedEarly
  BindingInv
SYMMETRY Symmetry
