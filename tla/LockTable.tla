----------------------------- MODULE LockTable -----------------------------
(***************************************************************************)
(* What the deadlock manager of src/deadlock/dag.go promises its clients:  *)
(* a table of locks, each with one owner and the set of nodes registered   *)
(* as waiting for it.  A wait is registered against a resource; it ends    *)
(* when the resource is given up, when the waiter is aborted, or when the  *)
(* table is cleared.  WaitForGraph, which keeps waits per node instead,    *)
(* implements this.                                                        *)
(***************************************************************************)
CONSTANTS Node, Resource, None

VARIABLES owner,    \* owner[r]: the node holding r, or None
          waiters   \* waiters[r]: the nodes registered as waiting for r

lockVars == <<owner, waiters>>

Init ==
  /\ owner = [r \in Resource |-> None]
  /\ waiters = [r \in Resource |-> {}]

Grant(n, r) ==
  /\ owner[r] = None
  /\ owner' = [owner EXCEPT ![r] = n]
  /\ UNCHANGED waiters

Wait(n, r) ==
  /\ owner[r] \notin {None, n}
  /\ \A q \in Resource : n \in waiters[q] => q = r
  /\ waiters' = [waiters EXCEPT ![r] = @ \cup {n}]
  /\ UNCHANGED owner

GiveUp(n, r) ==
  /\ owner[r] = n
  /\ owner' = [owner EXCEPT ![r] = None]
  /\ waiters' = [waiters EXCEPT ![r] = {}]

(* Abort n: its locks are free, nobody waits for them, and it waits for    *)
(* nothing.                                                                *)
Abort(n) ==
  /\ owner' = [r \in Resource |-> IF owner[r] = n THEN None ELSE owner[r]]
  /\ waiters' = [r \in Resource |-> IF owner[r] = n THEN {} ELSE waiters[r] \ {n}]

Clear == owner' = [r \in Resource |-> None] /\ waiters' = [r \in Resource |-> {}]

Next ==
  \/ \E n \in Node, r \in Resource : Grant(n, r) \/ Wait(n, r) \/ GiveUp(n, r)
  \/ \E n \in Node : Abort(n)
  \/ Clear

Spec == Init /\ [][Next]_lockVars

-----------------------------------------------------------------------------
(* Deadlock: some nodes each wait for a lock that one of them owns. *)
Deadlocked ==
  \E S \in SUBSET Node :
    S # {} /\ \A n \in S : \E r \in Resource : n \in waiters[r] /\ owner[r] \in S
=============================================================================
