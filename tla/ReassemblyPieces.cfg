SPECIFICATION Spec
CONSTANTS
  a = a
  b = b
  c = c
  d = d
  Garbage = Garbage
  Unit <- UnitSet
  Packet <- AlikePackets
  ID_MOD = 4
  Stream = {"unicast"}
  Hops = {2}
  Refusing = FALSE
  MaxPackets = 3
  MaxMishaps = 0
INVARIANTS
  FragmentsFit
\* everything has been sent and received
CHECK_DEADLOCK FALSE
