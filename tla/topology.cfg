SPECIFICATION FairSpec
CONSTANTS
  A = A
  B = B
  C = C
  Switches = {A, B}
  Ports <- TwoPorts
  Cabling <- Pulled
  Host = h
  HostPorts <- OnePort
  LINK_LLDP_DROP = 1
  Blind = FALSE
  Drops = TRUE
  MaxChanges = 2
  MaxQueue = 1
INVARIANTS
  MapMatchesLinks
  PortsTracked
  EventsTellAll
  HostsAtEdge
PROPERTIES
  FeedSpec
  LinksNotified
CHECK_DEADLOCK FALSE
