SPECIFICATION Spec
CONSTANTS
  Names = {w1}
  Addrs = {1}
  IPs = {i1, i2}
  Built = {}
  Procs = {p1, p2}
  MaxKeys = 3
  MaxStops = 1
  MaxRestarts = 0
SYMMETRY Symmetry
PROPERTIES DestroysPlanned
CHECK_DEADLOCK FALSE
