SPECIFICATION Spec
CONSTANTS
  N = 2
  StartCards = {0, 1, 19, 23, 104}
  ChosenColors = {0, 1}
  HandSize = 1
  Goal = 50
  MaxShuffles = 2
  MaxLate = 1
  Mended = {"dealer", "newDeck", "ownKey", "cardCount", "deckKeys", "handEndSigs"}
INVARIANTS
  TypeOK
  RefusalsExplained
  FaultsExplained
