SPECIFICATION TraceSpec
CONSTANTS
    DocOrder <- MCDocOrder
    KindOf <- MCKindOf
    TraceOf <- MCTraceOf
    Ids <- MCIds
    Systems <- MCSystems
    Constrained = {"prd", "feature"}
    IdRules <- MCIdRules
    RefRules <- MCRefRules
    Files = {}
    InitialText <- MCTextDone
    InitialCode <- MCEmptyCode
    Optimist = TRUE
    Edits = {}
    MaxChanges = 0
INVARIANT
    FinishedIdsAreInCode
CHECK_DEADLOCK FALSE
