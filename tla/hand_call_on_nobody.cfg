SPECIFICATION Spec
CONSTANTS
  N = 2
  HandSize = 1
  StartCards <- FiveCards
  ChosenColors <- MCColors
  MaxCalls = 1
INVARIANTS
  PenaltyHasPlayer
