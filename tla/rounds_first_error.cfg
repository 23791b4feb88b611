SPECIFICATION Spec
CONSTANTS
  N = 2
  MaxHands = 1
  MaxDeals = 1
  Mended = {}
INVARIANTS
  FirstErrorFails
