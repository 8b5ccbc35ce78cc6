----------------------------- MODULE MCRebalancer -----------------------------
(* Two copies of every title, all in one of two branches.                  *)
EXTENDS Rebalancer, TLC

CONSTANTS b1, b2

Pairs == [c \in 1 .. NCopies |-> IF c <= 2 THEN "t1" ELSE "t2"]
OneShelf == [c \in 1 .. NCopies |-> b1]
Km == [x \in {b1, b2} \X {b1, b2} |-> IF x[1] = x[2] THEN 0 ELSE 1400]
SameThreads == Permutations(Runners) \cup Permutations(Completers)
=============================================================================
