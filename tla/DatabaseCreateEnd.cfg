CONSTANTS
  Projects = {TRUE}
  MaxGen = 3
  MaxPos = 3
  MaxTl = 3
  MaxIds = 2
  MaxStops = 2
SPECIFICATION Spec
PROPERTIES RecoveredToEnd
CHECK_DEADLOCK FALSE
