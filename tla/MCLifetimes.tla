------------------------------- MODULE MCLifetimes -------------------------------
(***************************************************************************)
(* Small instances of Lifetimes.                                           *)
(***************************************************************************)
EXTENDS Lifetimes
===============================================================================
