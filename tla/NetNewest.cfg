SPECIFICATION Spec
CONSTANTS
  Node = {1, 2, 3}
  BROADCAST_IP = 255
  Wire <- Triangle
  Asking = {}
  BROADCAST_TTL = 3
  Awaited <- NoneAwaited
  MaxStamp = 2
  Sending = {1, 2, 3}
  MaxPackets = 0
  MaxStops = 0
PROPERTIES
  NewestCounts
