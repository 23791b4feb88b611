SPECIFICATION Spec
CONSTANTS
  Calls = {"a"}
  Kind <- Plays
  Notices = {"n"}
  MaxFails = 0
  MaxAsks = 0
CHECK_DEADLOCK FALSE
INVARIANTS
  LateSendIsRefused
