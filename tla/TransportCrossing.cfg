SPECIFICATION Spec
CONSTANTS
  Node = {1, 2}
  AppSocket <- TwoEach
  MaxPort = 1
  MAX_LISTEN_QUEUE = 1
  SND_BUFFER = 1
  Time = {1}
  Length = {0}
  Named = {1}
  Calls <- Anything
  MaxCalls <- FourEach
  MaxExits = 0
  MaxRestarts = 0
  MaxLosses = 0
INVARIANTS
  TimersHaveConnections
CHECK_DEADLOCK FALSE
