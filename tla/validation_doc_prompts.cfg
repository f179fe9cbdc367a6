SPECIFICATION FairSpec
CONSTANTS
    DocOrder <- MCDocOrder
    KindOf <- MCKindOf
    TraceOf <- MCTraceOf
    Ids <- MCIds
    Systems <- MCSystems
    Constrained = {"prd", "feature"}
    IdRules <- MCIdRules
    RefRules <- MCRefRules
    Files = {"app.py"}
    InitialText <- MCText
    InitialCode <- MCCode
    Optimist = FALSE
    Edits = {}
    MaxChanges = 0
PROPERTY
    PromptsConverge
CHECK_DEADLOCK FALSE
