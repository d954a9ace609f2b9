SPECIFICATION Spec
CONSTANTS
  CHECKSUM_LENGTH = 3
  Polynomial <- AllPolynomials
  MaxLength = 6
INVARIANTS
  ValidIsMultiple
  BurstsAreCaught
\* the frame has arrived
CHECK_DEADLOCK FALSE
