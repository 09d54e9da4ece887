------------------------------ MODULE MCMetering ------------------------------
(* Finite instances of Metering for TLC. *)
EXTENDS Metering, TLC
=============================================================================
