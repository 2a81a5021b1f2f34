SPECIFICATION MCFairSpec
CONSTANTS
  Keys = {k1}
  NUMBEROFPATHS = 2
  NUMBEROFGROUPS = 1
  TIMEOUT = 2
  MinDelay = 0
  MaxDelay = 1
  Jump = 1
  Reuse = 5
  RestartTime = 5
  MaxPackets = 3
  MaxRestarts = 1
  MaxTime = 8
INVARIANTS
  TypeOK
  TagsInTable
  WindowDistinct
  AtMostOnce
  DropsOnlySeen
PROPERTIES ImplementsChannel EventuallyPassedOn
