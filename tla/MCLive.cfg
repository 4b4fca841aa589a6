SPECIFICATION LiveSpec
CONSTANTS
  Generation = {g1, g2, g3}
  Proc = {g1, g2, g3}
  Path = {here}
  Document = {doc}
  InitialSource <- Sources
  EditInput <- Edits
  Submission <- Texts
  ForeignTraces = FALSE
  TornWrites = FALSE
  MaxCrashes = 1
  ExternalEdits = TRUE
INVARIANTS
  LiveTypeOK
PROPERTIES
  SubmittedIsDisplayed
  EveryRunIsAnswered
CHECK_DEADLOCK FALSE
