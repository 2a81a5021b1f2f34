SPECIFICATION FairSpec
CONSTANTS
  Launches = {l1, l2}
  Kills = {k1}
  NoPid = NoPid
  Serialised = FALSE
  GivesUp = FALSE
  Failures = {"close_all", "pid_file", "signals", "sockets"}
  MaxPending = 2
PROPERTIES
  StartReturns
  TermEnds
CHECK_DEADLOCK FALSE
