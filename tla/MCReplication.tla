--------------------------- MODULE MCReplication ---------------------------
(* Crash bounds and symmetry for the model-checking runs of Replication. *)
EXTENDS Replication, TLC

NoCrash == [n \in Node |-> 0]
NodeTwoCrashes == [n \in Node |-> IF n = 2 THEN 1 ELSE 0]
EachCrashes == [n \in Node |-> 1]

Symmetry == Permutations(Client)   \* for runs without temporal properties
=============================================================================
