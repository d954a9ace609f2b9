------------------------------ MODULE MCChecksum ------------------------------
(***************************************************************************)
(* All polynomials of CHECKSUM_LENGTH bits, for Checksum.                  *)
(***************************************************************************)
EXTENDS Checksum

AllPolynomials == {p \in Bits(CHECKSUM_LENGTH) : p[CHECKSUM_LENGTH] = 1}
===============================================================================
