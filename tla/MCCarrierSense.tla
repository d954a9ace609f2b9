----------------------------- MODULE MCCarrierSense -----------------------------
(***************************************************************************)
(* Small instances of CarrierSense.                                        *)
(***************************************************************************)
EXTENDS CarrierSense
===============================================================================
