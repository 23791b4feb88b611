SPECIFICATION Spec
CONSTANTS
  Clients = {"c", "d"}
  Identities <- OneIdentity
  Joins = {"i"}
  Chats = {"k", "l"}
  Games = {"g"}
  MaxPlayers = 1
  MaxKept = 1
  MaxEvents = 1
CHECK_DEADLOCK FALSE
INVARIANTS
  TypeOK
  NothingIsMissed
