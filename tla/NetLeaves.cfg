SPECIFICATION Spec
CONSTANTS
  Node = {1, 2, 3, 4}
  BROADCAST_IP = 255
  Wire <- Line4
  Asking = {}
  BROADCAST_TTL = 1
  Awaited <- AllAwaited
  MaxStamp = 0
  Sending = {1, 2, 3, 4}
  MaxPackets = 1
  MaxStops = 1
INVARIANTS
  TypeOK
  NoneComesBack
