SPECIFICATION FairSpec
CONSTANTS
  Names = {w1, w2}
  Addrs = {1, 2}
  IPs = {i1, i2}
  Built = {w1, w2}
  Procs = {p1}
  MaxKeys = 3
  MaxStops = 2
  MaxRestarts = 2
CONSTRAINT OneNumbering
INVARIANTS AddressHolders
PROPERTIES LeaseSpec UndeclaredIsDeleted
CHECK_DEADLOCK FALSE
