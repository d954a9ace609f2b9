SPECIFICATION Spec
CONSTANTS
  a = a
  b = b
  c = c
  d = d
  Garbage = Garbage
  Unit <- UnitSet
  Packet <- AlikePackets
  ID_MOD = 4
  Stream = {"broadcast"}
  Hops = {2}
  Refusing = FALSE
  MaxPackets = 2
  MaxMishaps = 1
INVARIANTS
  AlwaysWhole
\* everything has been sent and received
CHECK_DEADLOCK FALSE
