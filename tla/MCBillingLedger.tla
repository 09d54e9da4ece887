--------------------------- MODULE MCBillingLedger ---------------------------
(* Finite instances of BillingLedger for TLC. *)
EXTENDS BillingLedger, TLC

Interchangeable == Permutations(Requests)
=============================================================================
