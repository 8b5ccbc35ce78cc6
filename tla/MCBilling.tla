------------------------------ MODULE MCBilling ------------------------------
(* Small instance of Billing for TLC. *)
EXTENDS Billing, TLC

Symmetry == Permutations(Payments)

(* The UPI address of a payment is well formed or not.                     *)
SomeMetadata == {{}, {"UPI"}}
=============================================================================
