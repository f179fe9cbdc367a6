\* What the documents say, one claim at a time: TLC refutes each.
SPECIFICATION TraceSpec
CONSTANTS
    DocOrder <- MCDocOrder
    KindOf <- MCKindOf
    TraceOf <- MCTraceDocs
    Ids <- MCIds
    Systems <- MCSystems
    Constrained = {"prd", "feature"}
    IdRules <- MCIdRules
    RefRules <- MCRefRules
    Files = {"app.py"}
    InitialText <- ClaimText
    InitialCode <- ClaimCode
    Optimist = TRUE
    Edits = {}
    MaxChanges = 0
INVARIANT PassingIdsAreUnique
\* INVARIANT StepsBindToDefinitionAbove
\* INVARIANT DocsOnlyHasNoMarkers
\* INVARIANT StepsHaveCode
\* INVARIANT BlocksNest
CHECK_DEADLOCK FALSE
