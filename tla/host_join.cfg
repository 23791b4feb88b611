SPECIFICATION Spec
CONSTANTS
  Clients = {c, d, e}
  Identities <- FourIdentities
  Joins = {i, j, k}
  Chats = {}
  Games = {"g"}
  MaxPlayers = 2
  MaxKept = 1
  MaxEvents = 0
SYMMETRY Symmetric
CHECK_DEADLOCK FALSE
INVARIANTS
  AtMostMaxPlayers
  PlayersAreDistinct
  PlacesAgree
  TableIsFixed
PROPERTIES
  MembersRemain
