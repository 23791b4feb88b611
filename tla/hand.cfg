SPECIFICATION Spec
CONSTANTS
  N = 2
  HandSize = 2
  StartCards <- FiveCards
  ChosenColors <- MCColors
  MaxCalls = 1
INVARIANTS
  TypeOK
  Conservation
  WindowMeansOneLeft
  NoStaleCall
  PanicExplained
  BlameIsCulpritElsewhere
PROPERTIES
  ImplementsCardTable
  TurnEnds
