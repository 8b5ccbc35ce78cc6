---------------------------- MODULE MCCirculation ----------------------------
(* Small instances of Circulation for TLC: all copies are of one title, so *)
(* that they share a waiting list.                                         *)
EXTENDS Circulation, TLC

OneTitle == [c \in Copies |-> CHOOSE t \in Titles : TRUE]

Symmetry ==
    Permutations(Copies) \cup Permutations(Users) \cup Permutations(Issues)
        \cup Permutations(Returns) \cup Permutations(Reserves)
=============================================================================
