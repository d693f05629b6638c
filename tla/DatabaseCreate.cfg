CONSTANTS
  Projects = {TRUE, FALSE}
  MaxGen = 4
  MaxPos = 3
  MaxTl = 2
  MaxIds = 3
  MaxStops = 2
SPECIFICATION FairSpec
INVARIANTS PathIsOwn ReadsNewest LockedFirst SurvivesSwitchover Proven
PROPERTIES LedgerSpec Resumes
CHECK_DEADLOCK FALSE
