SPECIFICATION Spec
CONSTANTS
  Pred <- Names
  Index <- Numbers
  Context <- Contexts
  Data = "Nat"
  Theories <- Tabled
  Document <- Documents
  Nothing = Nothing
INVARIANTS
  VerifiedIsTrue
  FixedpointIsExact
  SuccessIsTheQuerysAnswer
  WitnessIsABisimulation
  UnsatisfiableMeansDistinguishable
  WitnessesSurviveTheRoundTrip
CHECK_DEADLOCK FALSE
