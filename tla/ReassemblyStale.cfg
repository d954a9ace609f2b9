SPECIFICATION Spec
CONSTANTS
  a = a
  b = b
  c = c
  d = d
  Garbage = Garbage
  Unit <- UnitSet
  Packet <- AlikePackets
  ID_MOD = 2
  Stream = {"unicast", "broadcast"}
  Hops = {1}
  Refusing = TRUE
  MaxPackets = 3
  MaxMishaps = 0
INVARIANTS
  AlwaysWhole
\* everything has been sent and received
CHECK_DEADLOCK FALSE
