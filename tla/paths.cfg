SPECIFICATION SearchSpec
CONSTANTS
  Nodes = {s1, s2, s3, s4}
  Cached = {s1, s2}
  Speeds = {5, 10}
  REFERENCE_BW = 10
  MAX_PATHS = 2
INVARIANTS PathsFound CheapestChosen
CHECK_DEADLOCK FALSE
