SPECIFICATION FairSpec
CONSTANTS
  Apps <- Deployment
  Flow <- Chain
  EVENTS = 1
  Threaded = {"switches"}
  Mains = {"ofp_event"}
  Closers = {c1, c2}
  MaxEvents = 2
INVARIANTS
  StoppedOnce
  NothingDropped
PROPERTY CloseEnds
CHECK_DEADLOCK FALSE
