SPECIFICATION LldpSpec
CONSTANTS
  Ports = {p1, p2, p3}
  PERIOD = 2
  MaxChanges = 5
INVARIANT ServedInOrder
PROPERTY KeepsServing
CHECK_DEADLOCK FALSE
