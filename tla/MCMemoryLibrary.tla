--------------------------- MODULE MCMemoryLibrary ---------------------------
(* Two students, one of them close to an exam, and a few copies.  The one  *)
(* close to the exam asks before and after the other.                      *)
EXTENDS MemoryLibrary, TLC

CONSTANTS u1, u2

SameClerks == Permutations(Clerks)

TwoStudents ==
    [u \in {u1, u2} |-> [student |-> TRUE, year |-> 3,
                         exam |-> IF u = u1 THEN 20 ELSE 3]]

NearFarNear == <<u2, u1, u2>>
=============================================================================
