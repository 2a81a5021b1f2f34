SPECIFICATION MCSpec
CONSTANTS
  Keys = {k1}
  NUMBEROFPATHS = 2
  NUMBEROFGROUPS = 1
  TIMEOUT = 2
  MinDelay = 0
  MaxDelay = 1
  Jump = 0
  Reuse = 0
  RestartTime = 5
  MaxPackets = 3
  MaxRestarts = 0
  MaxTime = 8
INVARIANT DropsOnlySeen
