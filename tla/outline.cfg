SPECIFICATION Spec
CONSTANTS
    Alias <- MCAlias
    Bracketed <- MCBracketed
    Contract <- MCContract
    MaxHeading = 4
    InitialDocs <- MCDocs
    NewHeadings <- MCNewHeadings
    MaxEdits = 1
    MaxLines = 20
INVARIANTS
  MatchesFollowContract
  ValidTocLeads
PROPERTIES
  TocSettles
  TocKeepsProse
