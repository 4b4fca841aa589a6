SPECIFICATION Spec
CONSTANTS
  Generation = {g1, g2, g3}
  Proc = {p1, p2}
  Path = {here, there}
  Document = {doc}
  InitialSource <- OneSource
  EditInput <- FewEdits
  ForeignTraces = FALSE
  TornWrites = TRUE
  MaxCrashes = 1
INVARIANTS
  NamedFilesAreDurable
  CurrentMeansAdmitted
SYMMETRY Symmetry
CHECK_DEADLOCK FALSE
