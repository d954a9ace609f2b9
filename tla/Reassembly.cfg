SPECIFICATION Spec
CONSTANTS
  a = a
  b = b
  c = c
  d = d
  Garbage = Garbage
  Unit <- UnitSet
  Packet <- MixedPackets
  ID_MOD = 3
  Stream = {"unicast", "broadcast"}
  Hops = {1, 2}
  Refusing = TRUE
  MaxPackets = 3
  MaxMishaps = 1
INVARIANTS
  IntervalsInside
  HandedWhole
  WholeOnesArrive
\* everything has been sent and received
CHECK_DEADLOCK FALSE
