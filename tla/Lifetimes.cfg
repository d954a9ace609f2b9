SPECIFICATION FairSpec
CONSTANTS
  Link = {1, 2}
  MaxTimers = 2
INVARIANTS
  TimersHaveLayers
  UnicastKeepsLink
PROPERTIES
  ZombiesGo
CHECK_DEADLOCK FALSE
