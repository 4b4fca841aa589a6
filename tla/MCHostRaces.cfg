SPECIFICATION Spec
CONSTANTS
  Generation = {g1, g2, g3}
  Proc = {p1, p2}
  Path = {here}
  Document = {doc}
  InitialSource <- Sources
  EditInput <- Edits
  ForeignTraces = FALSE
  TornWrites = FALSE
  MaxCrashes = 1
INVARIANTS
  TypeOK
  EvidenceIsFresh
  CurrentMeansAdmitted
  HostStateLoads
  OrphanTraceIsTolerated
  RunsKeepTheirRequest
PROPERTIES
  OutcomeIsFinal
  OnlyCurrentIsAdmitted
  ImplementsDisplayedEvidence
SYMMETRY Symmetry
CHECK_DEADLOCK FALSE
