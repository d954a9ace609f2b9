SPECIFICATION FairSpec
CONSTANTS
  Node = {1, 2, 3}
  BROADCAST_IP = 255
  Wire <- Triangle
  Asking = {}
  BROADCAST_TTL = 2
  Awaited <- OwnAwaited
  MaxStamp = 0
  Sending = {1, 2, 3}
  MaxPackets = 0
  MaxStops = 1
PROPERTIES
  Settles
