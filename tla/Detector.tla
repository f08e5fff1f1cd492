------------------------------ MODULE Detector ------------------------------
(***************************************************************************)
(* What DetectCycle of src/deadlock/dag.go promises its callers: that it   *)
(* looks at the whole graph at one moment, and answers whether there is a  *)
(* cycle in it.  CycleDetection, where the graph is searched node by node, *)
(* implements this; DeadlockTest uses it as one step.                      *)
(***************************************************************************)
CONSTANT Node

VARIABLES edges,  \* edges[n]: the nodes n waits for
          phase   \* idle, search, or the answer: cycle or clear

detectorVars == <<edges, phase>>

Init ==
  /\ edges = [n \in Node |-> {}]
  /\ phase = "idle"

(* Nodes from each of which an edge leads back among them.                 *)
Cyclic == \E S \in SUBSET Node : S # {} /\ \A n \in S : edges[n] \cap S # {}

Change ==
  /\ phase = "idle"
  /\ edges' \in [Node -> SUBSET Node]
  /\ UNCHANGED phase

Ask == phase = "idle" /\ phase' = "search" /\ UNCHANGED edges

Answer ==
  /\ phase = "search"
  /\ phase' = IF Cyclic THEN "cycle" ELSE "clear"
  /\ UNCHANGED edges

Deliver == phase \in {"cycle", "clear"} /\ phase' = "idle" /\ UNCHANGED edges

Next == Change \/ Ask \/ Answer \/ Deliver

Spec == Init /\ [][Next]_detectorVars
=============================================================================
