SPECIFICATION Spec
CONSTANTS
  Launches = {l1, l2, l3}
  Kills = {k1}
  NoPid = NoPid
  Serialised = TRUE
  GivesUp = FALSE
  Failures = {"signals", "sockets"}
  MaxPending = 2
INVARIANTS
  AtMostOneServing
  ServerHasPidFile
  StatusIsTrue
PROPERTY KillStops
CHECK_DEADLOCK FALSE
