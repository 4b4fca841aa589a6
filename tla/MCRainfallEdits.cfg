SPECIFICATION Spec
CONSTANTS
  MaxEdits = 3
  MaxChars = 3
INVARIANTS
  EditsArePlaced
  TransportFollowsBytes
  MinimalEditReachesText
  MinimalEditIsMinimal
CHECK_DEADLOCK FALSE
