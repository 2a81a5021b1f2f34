SPECIFICATION FairSpec
CONSTANTS
  SEND_Q = 1
  EVENTS = 1
  Setups <- MCSetups
INVARIANTS
  Permits
  DeadAnnounced
PROPERTIES
  DeadIsFinal
  CallsReturn
  HalfOpenEnds
CHECK_DEADLOCK FALSE
