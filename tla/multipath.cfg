SPECIFICATION Spec
CONSTANTS
  A = A
  B = B
  C = C
  D = D
  ha = ha
  hb = hb
  hc = hc
  Networks <- MCNetworks
  MAX_PATHS = 2
  MAX_GROUP = 1
  MaxWire = 1
  MaxChan = 0
INVARIANTS
  NodesHaveDatapaths
  DiscoveredLinksAreUsable
  HostsAtHome
  RoutesWork
CHECK_DEADLOCK FALSE
