------------------------------ MODULE MCMutexPut ------------------------------
(* Homes, owners and crash bounds for the model-checking runs of MutexPut. *)
EXTENDS MutexPut, TLC

CONSTANTS c1, c2

HomesApart == (c1 :> 1 @@ c2 :> 2)
OwnersTwoOne == <<2, 1>>
NodeOneCrashes == [n \in Node |-> IF n = 1 THEN 1 ELSE 0]
=============================================================================
