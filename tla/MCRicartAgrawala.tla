-------------------------- MODULE MCRicartAgrawala --------------------------
(* Homes of the callers for the model-checking runs of RicartAgrawala. *)
EXTENDS RicartAgrawala, TLC

CONSTANTS c1, c2, c3

HomesApart == (c1 :> 1 @@ c2 :> 2)
HomeShared == (c1 :> 1 @@ c2 :> 1)
TwoAtNodeOne == (c1 :> 1 @@ c2 :> 1 @@ c3 :> 2)

NoCrash == [n \in Node |-> 0]
NodeTwoCrashes == [n \in Node |-> IF n = 2 THEN 1 ELSE 0]
=============================================================================
