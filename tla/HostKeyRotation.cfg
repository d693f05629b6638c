SPECIFICATION FairSpec
CONSTANTS
  Hosts = {h1, h2}
  Inodes = {1, 2, 3}
  Parallel = FALSE
  MaxKey = 4
  MaxStops = 2
INVARIANTS Reachable LastIsInstalled RotatedAlone
PROPERTIES SeedNeverReturns TrustSpec Rotates
CHECK_DEADLOCK FALSE
