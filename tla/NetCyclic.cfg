SPECIFICATION FairSpec
CONSTANTS
  Node = {1, 2, 3, 4, 5}
  BROADCAST_IP = 255
  Wire <- Cyclic5
  Asking = {}
  BROADCAST_TTL = 2
  Awaited <- AllAwaited
  MaxStamp = 0
  Sending = {1, 2, 3, 4, 5}
  MaxPackets = 0
  MaxStops = 0
PROPERTIES
  Settles
