----------------------------- MODULE MCCabWriter -----------------------------
(***************************************************************************)
(* CabWriter with a folder of three blocks of two bytes, and with fields as  *)
(* narrow as its assumptions allow.                                         *)
(***************************************************************************)
EXTENDS CabWriter

\* Up to a block and a byte more than a folder holds.
MCInputs == 0..9
=============================================================================
