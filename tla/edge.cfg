SPECIFICATION MCFairSpec
CONSTANTS
  a = a
  b = b
  Daemons <- MCDaemons
  Keys <- MCKeys
  NUMBEROFPATHS = 2
  NUMBEROFGROUPS = 1
  Installed = 2
  TIMEOUT = 0
  MaxPackets = 3
  MaxRestarts = 0
  MaxFrames = 3
  MaxMixed = 2
  MaxInFlight = 2
  MaxClock = 2
INVARIANTS
  Transparent
  TaggedOnce
  TaggedHaveRules
PROPERTY Arrives
