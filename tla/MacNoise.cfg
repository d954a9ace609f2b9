SPECIFICATION Spec
CONSTANTS
  MAC_ADDRESS_LENGTH = 2
  LENGTH_LENGTH = 2
  MIN_DATA_LENGTH = 2
  CHECKSUM_LENGTH = 5
  OwnAddress <- Own
  BROADCAST_MAC <- All
  Frame <- FewFrames
  MaxFrames = 3
  MaxDisturbances = 2
INVARIANTS
  HandedWasSent
  InStepAgain
\* every frame has been sent
CHECK_DEADLOCK FALSE
