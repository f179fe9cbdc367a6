\* What the documents say, one claim at a time: TLC refutes each.
SPECIFICATION Spec
CONSTANTS
    Alias <- MCAlias
    Bracketed <- MCBracketed
    Contract <- WildcardContract
    MaxHeading = 4
    InitialDocs <- DocDocs
    NewHeadings <- MCNewHeadings
    MaxEdits = 1
    MaxLines = 20
INVARIANT MatchersAgree
\* INVARIANT MultipleProhibited
\* INVARIANT ScansOutsideFences
\* INVARIANT TocAnchorsLead
\* INVARIANT TocReadsBack
\* INVARIANT TocEntriesLead
\* PROPERTY ProseSurvives
CHECK_DEADLOCK FALSE
