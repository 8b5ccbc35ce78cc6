----------------------------- MODULE MCTransfers -----------------------------
(* Small instances of Transfers for TLC. *)
EXTENDS Transfers, TLC

Symmetry ==
    Permutations(Copies) \cup Permutations(Users) \cup Permutations(Branches)
        \cup Permutations(Moves) \cup Permutations(Arrivals) \cup Permutations(Adds)
=============================================================================
