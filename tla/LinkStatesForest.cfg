SPECIFICATION Spec
CONSTANTS
  Node = {1, 2, 3, 4, 5}
  BROADCAST_IP = 255
  Root = 1
  Avoided = {1, 2}
  CONSTANT_WEIGTH = 1
  Delay = {0, 3}
  Graph <- Lists
INVARIANTS
  AcceptedIsForest
\* the priority queue is empty
CHECK_DEADLOCK FALSE
