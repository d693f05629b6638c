SPECIFICATION Spec
CONSTANTS
  Hosts = {h1, h2}
  Inodes = {1, 2, 3, 4}
  Parallel = TRUE
  MaxKey = 3
  MaxStops = 0
SYMMETRY Symmetry
INVARIANTS EndsReachable
CHECK_DEADLOCK FALSE
