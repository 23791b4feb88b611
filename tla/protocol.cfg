SPECIFICATION Spec
CONSTANTS
  N = 2
  StartCards = {1, 23, 24, 100, 104}
  ChosenColors = {0, 1}
  HandSize = 1
  Goal = 50
  MaxShuffles = 3
  MaxLate = 1
  Mended = {"dealer", "newDeck", "ownKey", "cardCount", "deckKeys", "handEndSigs"}
INVARIANTS
  TablesAgree
  DeckOpens
  CardsStayHidden
  RefusalsExplained
  FaultsExplained
PROPERTIES
  ImplementsCardTable
