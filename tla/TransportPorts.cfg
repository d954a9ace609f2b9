SPECIFICATION Spec
CONSTANTS
  Node = {1, 2}
  AppSocket <- TwoOne
  MaxPort = 1
  MAX_LISTEN_QUEUE = 2
  SND_BUFFER = 1
  Time = {1}
  Length = {0}
  Named = {0, 1}
  Calls <- Roles
  MaxCalls <- FourOne
  MaxExits = 1
  MaxRestarts = 1
  MaxLosses = 1
INVARIANTS
  TypeOK
  WaitsAreKnown
  AcceptedInOrder
  ListenersAreFound
  ServersHaveClients
CHECK_DEADLOCK FALSE
