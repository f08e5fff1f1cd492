--------------------------- MODULE MCDeadlockTest ---------------------------
(* Both resources of every name; clients and names are interchangeable.    *)
EXTENDS DeadlockTest, TLC

Resources == Name \X {"A", "B"}
Symmetry == Permutations(Tester) \cup Permutations(Name)
=============================================================================
