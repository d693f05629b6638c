SPECIFICATION Spec
CONSTANTS
  N = 2
  a = a
  b = b
  c = c
  Instances <- MCInstances
  DatabaseOf <- MCDatabaseOf
  IPs = {i1, i2, i3}
  MaxKeys = 5
  MaxStops = 1
  MaxFaults = 1
  MaxRestarts = 1
SYMMETRY Symmetry
INVARIANTS LosesOnlyItsOwn PinsOfServers
PROPERTIES NeverTheLast ReportHolds
