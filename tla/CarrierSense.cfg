SPECIFICATION FairSpec
CONSTANTS
  Node = {1, 2}
  Size = 2
  MaxFrames = 2
  MaxCuts = 1
  MaxLeaves = 1
INVARIANTS
  TimersCounted
  FramesDoNotCross
PROPERTIES
  NoneInterrupts
  MuteEnds
CHECK_DEADLOCK FALSE
