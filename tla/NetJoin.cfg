SPECIFICATION FairSpec
CONSTANTS
  Node = {1, 2, 3}
  BROADCAST_IP = 255
  Wire <- Line3
  Asking = {1, 2}
  BROADCAST_TTL = 255
  Awaited <- AllAwaited
  MaxStamp = 0
  Sending = {1}
  MaxPackets = 1
  MaxStops = 1
INVARIANTS
  NoneComesBack
PROPERTIES
  Settles
