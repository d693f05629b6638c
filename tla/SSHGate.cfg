SPECIFICATION FairSpec
CONSTANTS
  Runs = {r1, r2}
  OnlyRule = {"worker"}
  MaxFaults = 1
INVARIANTS NoSilentOpen
PROPERTIES OpenClosesNothing Closes
CHECK_DEADLOCK FALSE
