SPECIFICATION Spec
CONSTANTS
  N = 3
  HandSize = 1
  StartCards <- SixCards
  ChosenColors <- MCColors
  MaxCalls = 0
INVARIANTS
  SoleWinner
  ScoreIsTheRest
  WildHasColor
  NumbersAreFaces
