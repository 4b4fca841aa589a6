SPECIFICATION FairSpec
CONSTANTS
  Point <- UnaryPoints
  IntSymbol <- Ints
  Result = {3, 6}
  Declaration <- Unary
  NoHole = NoHole
  MaxSize = 5
  SolverGivesUp = FALSE
INVARIANTS
  StrataAreTheGrammar
PROPERTIES
  RealizableIsFound
CHECK_DEADLOCK FALSE
