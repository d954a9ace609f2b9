SPECIFICATION Spec
CONSTANTS
  n1 = n1
  n2 = n2
  Node = {n1, n2}
  MAX_FRAME_QUEUE_SIZE = 2
  MAX_RETRIES = 2
  MaxPackets <- TwoEach
  MaxReplugs = 0
  WireCapacity = 2
INVARIANTS
  AttemptsBounded
\* the link is quiet for ever once every packet is done with
CHECK_DEADLOCK FALSE
