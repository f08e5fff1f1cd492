---------------------------- MODULE WaitForGraph ----------------------------
(***************************************************************************)
(* The deadlock manager of src/deadlock/dag.go: one DAGManager, its maps   *)
(* heldResources, waitingFor and waitingResource, each method one step     *)
(* (the methods hold dm.mu throughout).                                    *)
(*                                                                         *)
(* A map entry that is absent is None or the empty set.  waitingFor is a   *)
(* list in the code; every use of it is indifferent to the order and to    *)
(* repeated entries, so it is a set here.  The operation log is left out.  *)
(*                                                                         *)
(* Lock never blocks: a refused node is told whom it waits for and may ask *)
(* for anything next.  SingleWait restricts the clients to asking again    *)
(* for the resource they wait for, as one run of the deadlock test does.   *)
(*                                                                         *)
(* The manager keeps one resource per waiting node.  What every node was   *)
(* really refused, all of it, is in the history variable refused.          *)
(***************************************************************************)
EXTENDS FiniteSets

CONSTANTS Node, Resource,
          None,        \* no node, no resource
          SingleWait   \* a waiting node asks only for what it waits for

ASSUME NoneAssumption == None \notin Node /\ None \notin Resource
ASSUME SingleWaitAssumption == SingleWait \in BOOLEAN

VARIABLES held,            \* heldResources
          waitingFor,      \* waitingFor
          waitingResource, \* waitingResource
          refused          \* history: what a node was refused and is still waiting
                           \* for: neither given up since, nor the node aborted

vars == <<held, waitingFor, waitingResource, refused>>

TypeOK ==
  /\ held \in [Resource -> Node \cup {None}]
  /\ waitingFor \in [Node -> SUBSET Node]
  /\ waitingResource \in [Node -> Resource \cup {None}]
  /\ refused \in [Node -> SUBSET Resource]

Init ==
  /\ held = [r \in Resource |-> None]
  /\ waitingFor = [n \in Node |-> {}]
  /\ waitingResource = [n \in Node |-> None]
  /\ refused = [n \in Node |-> {}]

-----------------------------------------------------------------------------
MayAsk(n, r) == SingleWait => waitingFor[n] = {} \/ waitingResource[n] = r

(* Free: grant.  Own: granted already.  Held by another: add a wait edge,  *)
(* and remember the resource (only the last one).                          *)
Refuses_OwnToo(n, r) == held[r] # None
Refuses_FreeToo(n, r) == held[r] # n
Refuses(n, r) == held[r] \notin {None, n}

Lock(n, r) ==
  /\ MayAsk(n, r)
  /\ \/ /\ held[r] = None
        /\ held' = [held EXCEPT ![r] = n]
        /\ UNCHANGED <<waitingFor, waitingResource, refused>>
     \/ held[r] = n /\ UNCHANGED vars
     \/ /\ Refuses(n, r)
        /\ waitingFor' = [waitingFor EXCEPT ![n] = @ \cup {held[r]}]
        /\ waitingResource' = [waitingResource EXCEPT ![n] = r]
        /\ refused' = [refused EXCEPT ![n] = @ \cup {r}]
        /\ UNCHANGED held

(* Only the holder releases; whoever is recorded as waiting for the        *)
(* resource loses all its wait edges.                                      *)
ClearedBy_None(n, r) == {}
ClearedBy_Holder(n, r) == {w \in Node : n \in waitingFor[w]}
ClearedBy(n, r) == {w \in Node : waitingResource[w] = r}

Unlock(n, r) ==
  /\ held[r] = n
  /\ held' = [held EXCEPT ![r] = None]
  /\ waitingFor' =
       [w \in Node |-> IF w \in ClearedBy(n, r) THEN {} ELSE waitingFor[w]]
  /\ waitingResource' =
       [w \in Node |-> IF w \in ClearedBy(n, r) THEN None ELSE waitingResource[w]]
  /\ refused' = [w \in Node |-> refused[w] \ {r}]

(* Abort a node: free its locks, drop the edges from it and to it.  What   *)
(* the other nodes wait for stays recorded.                                *)
HeldAfterAbort_Same(a) == held
HeldAfterAbort(a) == [r \in Resource |-> IF held[r] = a THEN None ELSE held[r]]

EdgesAfterAbort_To(a) == [waitingFor EXCEPT ![a] = {}]
EdgesAfterAbort(a) == [n \in Node |-> IF n = a THEN {} ELSE waitingFor[n] \ {a}]

Resolve(a) ==
  /\ held' = HeldAfterAbort(a)
  /\ waitingFor' = EdgesAfterAbort(a)
  /\ waitingResource' = [waitingResource EXCEPT ![a] = None]
  /\ refused' =
       [n \in Node |-> IF n = a THEN {} ELSE {r \in refused[n] : held[r] # a}]

Reset ==
  /\ held' = [r \in Resource |-> None]
  /\ waitingFor' = [n \in Node |-> {}]
  /\ waitingResource' = [n \in Node |-> None]
  /\ refused' = [n \in Node |-> {}]

Next ==
  \/ \E n \in Node, r \in Resource : Lock(n, r) \/ Unlock(n, r)
  \/ \E a \in Node : Resolve(a)
  \/ Reset

Spec == Init /\ [][Next]_vars

-----------------------------------------------------------------------------
(* An edge names the node that holds what the waiter was refused last, at  *)
(* every moment, after releases and aborts of whatever else.               *)
EdgesSound ==
  \A n \in Node : \A m \in waitingFor[n] :
    waitingResource[n] # None /\ held[waitingResource[n]] = m

(* A wait edge disappears only when the resource waited for changes hands, *)
(* when the waiter itself is aborted, or when everything is cleared; the   *)
(* release of another resource never hides a deadlock.                     *)
EdgeLostForCause ==
  \A n \in Node :
    \/ waitingFor[n] \subseteq waitingFor'[n]
    \/ held'[waitingResource[n]] # held[waitingResource[n]]
    \/ waitingResource'[n] = None /\ \A r \in Resource : held'[r] # n
NoLostEdge == [][EdgeLostForCause]_vars

(* A cycle of the graph: from every node of some set an edge leads back    *)
(* into the set.                                                           *)
HasCycle ==
  \E S \in SUBSET Node : S # {} /\ \A n \in S : waitingFor[n] \cap S # {}

(* The lock table with every wait there really is, in the graph or not.    *)
Locks == INSTANCE LockTable WITH
  owner <- held, waiters <- [r \in Resource |-> {n \in Node : r \in refused[n]}]

(* README.md:206, "If DFS finds a cycle -> that's a deadlock!": each node  *)
(* of a cycle was refused a lock that another node of the cycle holds.     *)
CyclesAreDeadlocks == HasCycle => Locks!Deadlocked

(* The lock table, with the waits read off the graph. *)
Table == INSTANCE LockTable WITH
  owner <- held,
  waiters <- [r \in Resource |->
                {n \in Node : waitingFor[n] # {} /\ waitingResource[n] = r}]
ImplementsLockTable == Table!Spec
=============================================================================
