SPECIFICATION Spec
CONSTANTS
  Calls = {"a", "b"}
  Kind <- Plays
  Notices = {"n"}
  MaxFails = 1
  MaxAsks = 1
CHECK_DEADLOCK FALSE
INVARIANTS
  TypeOK
  OneCallAtATime
  CallIsSomewhere
  NobodyLeftWaiting
PROPERTIES
  FailIsServed
