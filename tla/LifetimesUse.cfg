SPECIFICATION Spec
CONSTANTS
  Link = {1, 2}
  MaxTimers = 2
INVARIANTS
  NoUseAfterDelete
CHECK_DEADLOCK FALSE
