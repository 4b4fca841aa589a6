SPECIFICATION Spec
CONSTANTS
  Generation = {g1, g2}
  Proc = {p1, p2}
  Path = {here}
  Document = {doc, other}
  InitialSource <- OneSource
  EditInput <- FewEdits
  ForeignTraces = TRUE
  TornWrites = FALSE
  MaxCrashes = 0
PROPERTIES
  LateCompletionIsDiscarded
SYMMETRY Symmetry
CHECK_DEADLOCK FALSE
