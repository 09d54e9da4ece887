---------------------------- MODULE MCSandboxFleet ----------------------------
(* Finite instances of SandboxFleet for TLC. *)
EXTENDS SandboxFleet, TLC
=============================================================================
