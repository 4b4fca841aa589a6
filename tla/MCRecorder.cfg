SPECIFICATION Spec
CONSTANTS
    quant = quant
    plain = plain
    negation = negation
    lit = lit
    thm = thm
    all = all
    Term <- MCTerm
    Quantifier = {quant}
    Instance = {plain, negation}
    Literal = {lit}
    Negated = {negation}
    Node = {1, 2}
    Document <- MCDocument
    Unliftable <- MCUnliftable
    MaxCallbacks = 5
CHECK_DEADLOCK FALSE
INVARIANT CompletedRunReplays
INVARIANT TornTraceIsRefused
INVARIANT EventsNameDeclaredTerms
INVARIANT InstancesJoinTheirOwnQuery
INVARIANT NoInstanceIsLeftPending
