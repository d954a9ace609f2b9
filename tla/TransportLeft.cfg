SPECIFICATION Spec
CONSTANTS
  Node = {1, 2}
  AppSocket <- TwoOne
  MaxPort = 1
  MAX_LISTEN_QUEUE = 2
  SND_BUFFER = 1
  Time = {1}
  Length = {0}
  Named = {0}
  Calls <- Roles
  MaxCalls <- ThreeOne
  MaxExits = 1
  MaxRestarts = 0
  MaxLosses = 0
PROPERTIES
  FreePortsAreGiven
CHECK_DEADLOCK FALSE
