SPECIFICATION Spec
CONSTANTS
  Point <- BothPoints
  IntSymbol <- Ints
  Result = {0, 1}
  Declaration <- Both
  NoHole = NoHole
  MaxSize = 3
  SolverGivesUp = TRUE
INVARIANTS
  TypeOK
  AssemblyIsSound
  DroppedAreUseless
  SelectionsEarnTheirPlace
  OnlySourceArmsAreRefuted
CHECK_DEADLOCK FALSE
