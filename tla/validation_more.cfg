SPECIFICATION TraceSpec
CONSTANTS
    DocOrder <- MCDocOrder
    KindOf <- MCKindOf
    TraceOf <- MCTraceOf
    Ids <- MCIds
    Systems <- MCSystems
    Constrained = {"prd", "feature"}
    IdRules <- MCIdRules
    RefRules <- MCRefRules
    Files = {"app.py"}
    InitialText <- MCText
    InitialCode <- MCCode
    Optimist = TRUE
    Edits = {"tick", "drop", "code"}
    MaxChanges = 1
INVARIANTS
  TraceTypeOK
  VerdictTrue
  ReferencesResolve
CHECK_DEADLOCK FALSE
