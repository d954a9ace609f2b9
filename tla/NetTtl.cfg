SPECIFICATION Spec
CONSTANTS
  Node = {1, 2, 3, 4, 5}
  BROADCAST_IP = 255
  Wire <- Ring5
  Asking = {}
  BROADCAST_TTL = 3
  Awaited <- AllAwaited
  MaxStamp = 0
  Sending = {1, 2, 3, 4, 5}
  MaxPackets = 1
  MaxStops = 0
PROPERTIES
  TtlFalls
