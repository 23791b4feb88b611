SPECIFICATION Spec
CONSTANTS
  N = 3
  MaxHands = 2
  MaxDeals = 1
  Mended = {"newDeck", "ownKey", "deckKeys", "typedNil"}
INVARIANTS
  TypeOK
  BlameIsDeserved
  OneRequestEach
  MissingIsExcused
  PanicExplained
PROPERTIES
  RoundSettles
