SPECIFICATION FairSpec
CONSTANTS
  A = A
  B = B
  C = C
  D = D
  ha = ha
  hb = hb
  hc = hc
  Networks <- MCPair
  MAX_PATHS = 2
  MAX_GROUP = 1
  MaxWire = 4
  MaxChan = 0
PROPERTY Resolves
CHECK_DEADLOCK FALSE
