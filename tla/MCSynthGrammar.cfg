SPECIFICATION Spec
CONSTANTS
  Point <- MatchPoints
  IntSymbol <- Ints
  Result = {0, 1}
  Declaration <- Matches
  NoHole = NoHole
  MaxSize = 1
  SolverGivesUp = FALSE
INVARIANTS
  GrammarIsAsDeclared
CHECK_DEADLOCK FALSE
