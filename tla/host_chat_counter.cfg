SPECIFICATION Spec
CONSTANTS
  Clients = {"c"}
  Identities <- OneIdentity
  Joins = {"i"}
  Chats = {"k", "l"}
  Games = {}
  MaxPlayers = 1
  MaxKept = 1
  MaxEvents = 0
CHECK_DEADLOCK FALSE
INVARIANTS
  HonestChatIsAccepted
