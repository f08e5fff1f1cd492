------------------------- MODULE WaitForGraph_proofs -------------------------
(***************************************************************************)
(* Theorems about WaitForGraph for all nodes and resources.  Type          *)
(* correctness holds for any clients; sound edges, the reasons an edge may *)
(* disappear, and the refinement of LockTable need clients that ask again  *)
(* only for what they wait for.                                            *)
(***************************************************************************)
EXTENDS WaitForGraph, TLAPS

LEMMA TypeNext == TypeOK /\ [Next]_vars => TypeOK'
<1> SUFFICES ASSUME TypeOK, [Next]_vars PROVE TypeOK'
  OBVIOUS
<1> USE DEF TypeOK
<1>1. ASSUME NEW n \in Node, NEW r \in Resource, Lock(n, r) PROVE TypeOK'
  BY <1>1 DEF Lock, Refuses, vars
<1>2. ASSUME NEW n \in Node, NEW r \in Resource, Unlock(n, r) PROVE TypeOK'
  BY <1>2 DEF Unlock
<1>3. ASSUME NEW a \in Node, Resolve(a) PROVE TypeOK'
  BY <1>3 DEF Resolve, HeldAfterAbort, EdgesAfterAbort
<1>4. CASE Reset
  BY <1>4 DEF Reset
<1>5. CASE UNCHANGED vars
  BY <1>5 DEF vars
<1>6. QED
  BY <1>1, <1>2, <1>3, <1>4, <1>5 DEF Next

(* The holders, the edges and the records of waiting stay well typed,      *)
(* whatever the clients ask for.                                           *)
THEOREM TypeCorrect == Spec => []TypeOK
<1>1. Init => TypeOK
  BY DEF Init, TypeOK
<1>2. QED
  BY <1>1, TypeNext, PTL DEF Spec

-----------------------------------------------------------------------------
(* EdgesSound is inductive once the types are known. *)
LEMMA SoundNext ==
  ASSUME SingleWait, TypeOK, EdgesSound, [Next]_vars
  PROVE  EdgesSound'
<1> USE NoneAssumption DEF TypeOK, EdgesSound
<1>1. ASSUME NEW n \in Node, NEW r \in Resource, Lock(n, r) PROVE EdgesSound'
  <2>1. CASE held[r] = None /\ held' = [held EXCEPT ![r] = n]
             /\ UNCHANGED <<waitingFor, waitingResource>>
    BY <2>1
  <2>2. CASE UNCHANGED vars
    BY <2>2 DEF vars
  <2>3. CASE /\ Refuses(n, r)
             /\ waitingFor' = [waitingFor EXCEPT ![n] = @ \cup {held[r]}]
             /\ waitingResource' = [waitingResource EXCEPT ![n] = r]
             /\ UNCHANGED held
    <3>1. waitingFor[n] = {} \/ waitingResource[n] = r
      BY <1>1 DEF Lock, MayAsk
    <3>2. ASSUME NEW w \in Node, NEW m \in waitingFor'[w]
          PROVE  waitingResource'[w] # None /\ held'[waitingResource'[w]] = m
      <4>1. CASE w = n
        BY <2>3, <3>1, <3>2, <4>1 DEF Refuses
      <4>2. CASE w # n
        BY <2>3, <3>2, <4>2
      <4>3. QED
        BY <4>1, <4>2
    <3>3. QED
      BY <3>2
  <2>4. QED
    BY <1>1, <2>1, <2>2, <2>3 DEF Lock
<1>2. ASSUME NEW n \in Node, NEW r \in Resource, Unlock(n, r) PROVE EdgesSound'
  <2>1. ASSUME NEW w \in Node, NEW m \in waitingFor'[w]
        PROVE  waitingResource'[w] # None /\ held'[waitingResource'[w]] = m
    <3>1. /\ w \notin ClearedBy(n, r)
          /\ waitingFor'[w] = waitingFor[w] /\ waitingResource'[w] = waitingResource[w]
      BY <1>2, <2>1 DEF Unlock
    <3>2. waitingResource[w] # r
      BY <3>1 DEF ClearedBy
    <3>3. QED
      BY <1>2, <2>1, <3>1, <3>2 DEF Unlock
  <2>2. QED
    BY <2>1
<1>3. ASSUME NEW a \in Node, Resolve(a) PROVE EdgesSound'
  <2>1. ASSUME NEW w \in Node, NEW m \in waitingFor'[w]
        PROVE  waitingResource'[w] # None /\ held'[waitingResource'[w]] = m
    <3>1. w # a /\ m # a /\ m \in waitingFor[w] /\ waitingResource'[w] = waitingResource[w]
      BY <1>3, <2>1 DEF Resolve, HeldAfterAbort, EdgesAfterAbort
    <3>2. QED
      BY <1>3, <3>1 DEF Resolve, HeldAfterAbort, EdgesAfterAbort
  <2>2. QED
    BY <2>1
<1>4. CASE Reset
  BY <1>4 DEF Reset
<1>5. CASE UNCHANGED vars
  BY <1>5 DEF vars
<1>6. QED
  BY <1>1, <1>2, <1>3, <1>4, <1>5 DEF Next

(* With clients that do not pile up waits, every edge of the graph leads   *)
(* to the present holder of what the waiter was refused.                   *)
THEOREM Soundness ==
  ASSUME SingleWait
  PROVE  Spec => []EdgesSound
<1>1. Init => EdgesSound
  BY DEF Init, EdgesSound
<1>2. TypeOK /\ EdgesSound /\ [Next]_vars => EdgesSound'
  BY SoundNext
<1>3. QED
  BY <1>1, <1>2, TypeCorrect, PTL DEF Spec

(* Such clients lose an edge only when the resource changes hands, they    *)
(* are aborted, or everything is cleared.                                  *)
THEOREM EdgesKept ==
  ASSUME SingleWait
  PROVE  Spec => NoLostEdge
<1>1. TypeOK /\ EdgesSound /\ [Next]_vars => [EdgeLostForCause]_vars
  <2> SUFFICES ASSUME TypeOK, EdgesSound, Next, NEW w \in Node,
                      ~(waitingFor[w] \subseteq waitingFor'[w])
               PROVE  \/ held'[waitingResource[w]] # held[waitingResource[w]]
                      \/ waitingResource'[w] = None /\ \A r \in Resource : held'[r] # w
    BY DEF EdgeLostForCause
  <2> USE NoneAssumption DEF TypeOK, EdgesSound
  <2>1. ASSUME NEW n \in Node, NEW r \in Resource, Lock(n, r)
        PROVE  waitingFor[w] \subseteq waitingFor'[w]
    BY <2>1 DEF Lock, vars
  <2>2. ASSUME NEW n \in Node, NEW r \in Resource, Unlock(n, r)
        PROVE  held'[waitingResource[w]] # held[waitingResource[w]]
    <3>1. waitingResource[w] = r
      BY <2>2 DEF Unlock, ClearedBy
    <3>2. QED
      BY <2>2, <3>1 DEF Unlock
  <2>3. ASSUME NEW a \in Node, Resolve(a)
        PROVE  \/ held'[waitingResource[w]] # held[waitingResource[w]]
               \/ waitingResource'[w] = None /\ \A r \in Resource : held'[r] # w
    <3>1. CASE w = a
      BY <2>3, <3>1 DEF Resolve, HeldAfterAbort, EdgesAfterAbort
    <3>2. CASE w # a
      <4>1. a \in waitingFor[w]
        BY <2>3, <3>2 DEF Resolve, HeldAfterAbort, EdgesAfterAbort
      <4>2. waitingResource[w] \in Resource /\ held[waitingResource[w]] = a
        BY <4>1
      <4>3. QED
        BY <2>3, <4>2 DEF Resolve, HeldAfterAbort, EdgesAfterAbort
    <3>3. QED
      BY <3>1, <3>2
  <2>4. CASE Reset
    BY <2>4 DEF Reset
  <2>5. QED
    BY <2>1, <2>2, <2>3, <2>4 DEF Next
<1>2. QED
  BY <1>1, TypeCorrect, Soundness, PTL DEF Spec, NoLostEdge

-----------------------------------------------------------------------------
(* With two nodes nothing is asked of the clients: both edges that a node  *)
(* piles up name the same holder.                                          *)
NoSelfEdge == \A n \in Node : n \notin waitingFor[n]

LEMMA SoundNextOfTwo ==
  ASSUME NEW a, NEW b, Node = {a, b},
         TypeOK, EdgesSound, NoSelfEdge, [Next]_vars
  PROVE  EdgesSound' /\ NoSelfEdge'
<1> USE NoneAssumption DEF TypeOK, EdgesSound, NoSelfEdge
<1> DEFINE Sound(w, m) == /\ m # w
                          /\ waitingResource'[w] # None
                          /\ held'[waitingResource'[w]] = m
<1> SUFFICES ASSUME NEW w \in Node, NEW m \in waitingFor'[w]
             PROVE  Sound(w, m)
  OBVIOUS
<1>1. ASSUME NEW n \in Node, NEW r \in Resource, Lock(n, r) PROVE Sound(w, m)
  <2>1. CASE held[r] = None /\ held' = [held EXCEPT ![r] = n]
             /\ UNCHANGED <<waitingFor, waitingResource>>
    BY <2>1
  <2>2. CASE UNCHANGED vars
    BY <2>2 DEF vars
  <2>3. CASE /\ Refuses(n, r)
             /\ waitingFor' = [waitingFor EXCEPT ![n] = @ \cup {held[r]}]
             /\ waitingResource' = [waitingResource EXCEPT ![n] = r]
             /\ UNCHANGED held
    <3>1. held[r] \in Node /\ held[r] # n
      BY <2>3 DEF Refuses
    <3>2. CASE w = n
      <4>1. m # n /\ m \in Node
        BY <2>3, <3>1, <3>2
      <4>2. m = held[r]
        BY <3>1, <4>1
      <4>3. QED
        BY <2>3, <3>1, <3>2, <4>2
    <3>3. CASE w # n
      BY <2>3, <3>3
    <3>4. QED
      BY <3>2, <3>3
  <2>4. QED
    BY <1>1, <2>1, <2>2, <2>3 DEF Lock
<1>2. ASSUME NEW n \in Node, NEW r \in Resource, Unlock(n, r) PROVE Sound(w, m)
  <2>1. /\ w \notin ClearedBy(n, r)
        /\ waitingFor'[w] = waitingFor[w] /\ waitingResource'[w] = waitingResource[w]
    BY <1>2 DEF Unlock
  <2>2. waitingResource[w] # r
    BY <2>1 DEF ClearedBy
  <2>3. QED
    BY <1>2, <2>1, <2>2 DEF Unlock
<1>3. ASSUME NEW n \in Node, Resolve(n) PROVE Sound(w, m)
  <2>1. w # n /\ m # n /\ m \in waitingFor[w] /\ waitingResource'[w] = waitingResource[w]
    BY <1>3 DEF Resolve, HeldAfterAbort, EdgesAfterAbort
  <2>2. QED
    BY <1>3, <2>1 DEF Resolve, HeldAfterAbort, EdgesAfterAbort
<1>4. CASE Reset
  BY <1>4 DEF Reset
<1>5. CASE UNCHANGED vars
  BY <1>5 DEF vars
<1>6. QED
  BY <1>1, <1>2, <1>3, <1>4, <1>5 DEF Next

(* A manager that serves two nodes keeps every edge sound whatever they    *)
(* ask for; with three nodes it takes clients that do not pile up waits.   *)
THEOREM SoundnessOfTwo ==
  ASSUME NEW a, NEW b, Node = {a, b}
  PROVE  Spec => [](EdgesSound /\ NoSelfEdge)
<1>1. Init => EdgesSound /\ NoSelfEdge
  BY DEF Init, EdgesSound, NoSelfEdge
<1>2. TypeOK /\ EdgesSound /\ NoSelfEdge /\ [Next]_vars => EdgesSound' /\ NoSelfEdge'
  BY SoundNextOfTwo
<1>3. QED
  BY <1>1, <1>2, TypeCorrect, PTL DEF Spec

-----------------------------------------------------------------------------
(* What an edge is worth: the resource recorded for a waiting node is one  *)
(* that it was refused and that has not been given up since.               *)
RecordRefused == \A n \in Node : waitingFor[n] # {} => waitingResource[n] \in refused[n]

LEMMA RecordNext ==
  ASSUME TypeOK, EdgesSound, RecordRefused, [Next]_vars
  PROVE  RecordRefused'
<1> USE NoneAssumption DEF TypeOK, EdgesSound, RecordRefused
<1> SUFFICES ASSUME NEW w \in Node, waitingFor'[w] # {}
             PROVE  waitingResource'[w] \in refused'[w]
  OBVIOUS
<1>1. ASSUME NEW n \in Node, NEW r \in Resource, Lock(n, r)
      PROVE  waitingResource'[w] \in refused'[w]
  BY <1>1 DEF Lock, vars
<1>2. ASSUME NEW n \in Node, NEW r \in Resource, Unlock(n, r)
      PROVE  waitingResource'[w] \in refused'[w]
  BY <1>2 DEF Unlock, ClearedBy
<1>3. ASSUME NEW a \in Node, Resolve(a)
      PROVE  waitingResource'[w] \in refused'[w]
  <2>1. w # a /\ waitingResource'[w] = waitingResource[w]
    BY <1>3 DEF Resolve, EdgesAfterAbort
  <2>2. PICK m \in waitingFor[w] : m # a
    BY <1>3, <2>1 DEF Resolve, EdgesAfterAbort
  <2>3. waitingResource[w] \in refused[w] /\ held[waitingResource[w]] # a
    BY <2>2
  <2>4. QED
    BY <1>3, <2>1, <2>3 DEF Resolve
<1>4. CASE Reset
  BY <1>4 DEF Reset
<1>5. CASE UNCHANGED vars
  BY <1>5 DEF vars
<1>6. QED
  BY <1>1, <1>2, <1>3, <1>4, <1>5 DEF Next

LEMMA RecordsReal == Spec /\ []EdgesSound => []RecordRefused
<1>1. Init => RecordRefused
  BY DEF Init, RecordRefused
<1>2. TypeOK /\ EdgesSound /\ RecordRefused /\ [Next]_vars => RecordRefused'
  BY RecordNext
<1>3. QED
  BY <1>1, <1>2, TypeCorrect, PTL DEF Spec

(* Nodes that each were refused a lock another of them holds. *)
RefusedWithin(S, n) == \E r \in Resource : r \in refused[n] /\ held[r] \in S

LEMMA DeadlockedUnfolded ==
  Locks!Deadlocked <=> \E S \in SUBSET Node : S # {} /\ \A n \in S : RefusedWithin(S, n)
<1> DEFINE Queues == [r \in Resource |-> {n \in Node : r \in refused[n]}]
<1>1. ASSUME NEW S \in SUBSET Node, NEW n \in S
      PROVE  RefusedWithin(S, n) <=> \E r \in Resource : n \in Queues[r] /\ held[r] \in S
  BY DEF RefusedWithin
<1>2. Locks!Deadlocked <=>
        \E S \in SUBSET Node :
          S # {} /\ \A n \in S : \E r \in Resource : n \in Queues[r] /\ held[r] \in S
  BY DEF Locks!Deadlocked
<1> HIDE DEF Queues
<1>3. QED
  BY <1>1, <1>2

LEMMA CycleIsDeadlock ==
  ASSUME TypeOK, EdgesSound, RecordRefused
  PROVE  CyclesAreDeadlocks
<1> SUFFICES ASSUME NEW S \in SUBSET Node, S # {},
                    \A n \in S : waitingFor[n] \cap S # {}
             PROVE  \A n \in S : RefusedWithin(S, n)
  BY DeadlockedUnfolded DEF CyclesAreDeadlocks, HasCycle
<1> SUFFICES ASSUME NEW n \in S PROVE RefusedWithin(S, n)
  OBVIOUS
<1>1. PICK m \in S : m \in waitingFor[n]
  OBVIOUS
<1>2. /\ waitingResource[n] \in refused[n] /\ refused[n] \subseteq Resource
      /\ held[waitingResource[n]] = m
  BY <1>1 DEF TypeOK, EdgesSound, RecordRefused
<1>3. QED
  BY <1>2 DEF RefusedWithin

(* Between two nodes a cycle is a deadlock of the locks as they really     *)
(* are, whatever the nodes ask for, and although the graph keeps only one  *)
(* resource for each: no report is false.  (Deadlocks may go unreported,   *)
(* see EveryDeadlockFound of DeadlockTest.)                                *)
THEOREM CyclesRealOfTwo ==
  ASSUME NEW a, NEW b, Node = {a, b}
  PROVE  Spec => []CyclesAreDeadlocks
<1>1. TypeOK /\ EdgesSound /\ RecordRefused => CyclesAreDeadlocks
  BY CycleIsDeadlock
<1>2. QED
  BY <1>1, TypeCorrect, SoundnessOfTwo, RecordsReal, PTL

(* With clients that do not pile up waits the record is complete as well:  *)
(* a node has been refused nothing but what is recorded.                   *)
OnlyRecorded ==
  \A n \in Node : \A r \in refused[n] : waitingFor[n] # {} /\ waitingResource[n] = r

LEMMA OnlyRecordedNext ==
  ASSUME SingleWait, TypeOK, EdgesSound, OnlyRecorded, [Next]_vars
  PROVE  OnlyRecorded'
<1> USE NoneAssumption DEF TypeOK, EdgesSound, OnlyRecorded
<1> SUFFICES ASSUME NEW w \in Node, NEW q \in refused'[w]
             PROVE  waitingFor'[w] # {} /\ waitingResource'[w] = q
  OBVIOUS
<1>1. ASSUME NEW n \in Node, NEW r \in Resource, Lock(n, r)
      PROVE  waitingFor'[w] # {} /\ waitingResource'[w] = q
  <2>1. CASE w # n
    BY <1>1, <2>1 DEF Lock, vars
  <2>2. CASE w = n
    BY <1>1, <2>2 DEF Lock, MayAsk, vars
  <2>3. QED
    BY <2>1, <2>2
<1>2. ASSUME NEW n \in Node, NEW r \in Resource, Unlock(n, r)
      PROVE  waitingFor'[w] # {} /\ waitingResource'[w] = q
  BY <1>2 DEF Unlock, ClearedBy
<1>3. ASSUME NEW a \in Node, Resolve(a)
      PROVE  waitingFor'[w] # {} /\ waitingResource'[w] = q
  <2>1. w # a /\ q \in refused[w] /\ held[q] # a
    BY <1>3 DEF Resolve
  <2>2. waitingFor[w] # {} /\ waitingResource[w] = q /\ a \notin waitingFor[w]
    BY <2>1
  <2>3. QED
    BY <1>3, <2>1, <2>2 DEF Resolve, EdgesAfterAbort
<1>4. CASE Reset
  BY <1>4 DEF Reset
<1>5. CASE UNCHANGED vars
  BY <1>5 DEF vars
<1>6. QED
  BY <1>1, <1>2, <1>3, <1>4, <1>5 DEF Next

LEMMA DeadlockIsCycle ==
  ASSUME TypeOK, EdgesSound, OnlyRecorded, Locks!Deadlocked
  PROVE  HasCycle
<1>1. PICK S \in SUBSET Node : S # {} /\ \A n \in S : RefusedWithin(S, n)
  BY DeadlockedUnfolded
<1>2. ASSUME NEW n \in S PROVE waitingFor[n] \cap S # {}
  <2>1. PICK r \in Resource : r \in refused[n] /\ held[r] \in S
    BY <1>1 DEF RefusedWithin
  <2>2. PICK m \in waitingFor[n] : held[r] = m
    BY <2>1 DEF EdgesSound, OnlyRecorded
  <2>3. QED
    BY <2>1, <2>2
<1>3. QED
  BY <1>1, <1>2 DEF HasCycle

(* With such clients the graph has a cycle exactly if the locks are        *)
(* deadlocked.                                                             *)
THEOREM CyclesExact ==
  ASSUME SingleWait
  PROVE  Spec => [](HasCycle <=> Locks!Deadlocked)
<1>1. Init => OnlyRecorded
  BY DEF Init, OnlyRecorded
<1>2. TypeOK /\ EdgesSound /\ OnlyRecorded /\ [Next]_vars => OnlyRecorded'
  BY OnlyRecordedNext
<1>3. TypeOK /\ EdgesSound /\ RecordRefused /\ OnlyRecorded
        => (HasCycle <=> Locks!Deadlocked)
  BY CycleIsDeadlock, DeadlockIsCycle DEF CyclesAreDeadlocks
<1>4. QED
  BY <1>1, <1>2, <1>3, TypeCorrect, Soundness, RecordsReal, PTL DEF Spec

-----------------------------------------------------------------------------
(* The graph, indexed by node, implements the table indexed by resource.   *)
(* A refused Lock registers a wait, Resolve withdraws the aborted node     *)
(* from every queue, and Unlock empties exactly the queue of its resource. *)
Waiters(r) == {n \in Node : waitingFor[n] # {} /\ waitingResource[n] = r}

LEMMA StepSimulates ==
  ASSUME SingleWait, TypeOK, EdgesSound, Next
  PROVE  [Table!Next]_(<<held, [r \in Resource |-> Waiters(r)]>>)
<1> DEFINE waiters == [r \in Resource |-> Waiters(r)]
<1> USE NoneAssumption DEF TypeOK, EdgesSound, Waiters
<1>1. ASSUME NEW n \in Node, NEW r \in Resource, Lock(n, r)
      PROVE  \/ Table!Grant(n, r) \/ Table!Wait(n, r)
             \/ held' = held /\ waiters' = waiters
  <2>1. CASE held[r] = None /\ held' = [held EXCEPT ![r] = n]
             /\ UNCHANGED <<waitingFor, waitingResource>>
    BY <2>1 DEF Table!Grant
  <2>2. CASE UNCHANGED vars
    BY <2>2 DEF vars
  <2>3. CASE /\ Refuses(n, r)
             /\ waitingFor' = [waitingFor EXCEPT ![n] = @ \cup {held[r]}]
             /\ waitingResource' = [waitingResource EXCEPT ![n] = r]
             /\ UNCHANGED held
    <3>1. waitingFor[n] = {} \/ waitingResource[n] = r
      BY <1>1 DEF Lock, MayAsk
    <3>2. \A q \in Resource : n \in waiters[q] => q = r
      BY <3>1
    <3>3. ASSUME NEW q \in Resource
          PROVE  waiters'[q] = IF q = r THEN waiters[r] \cup {n} ELSE waiters[q]
      <4>1. waitingFor'[n] # {} /\ waitingResource'[n] = r
        BY <2>3
      <4>2. \A w \in Node : w # n =>
              waitingFor'[w] = waitingFor[w] /\ waitingResource'[w] = waitingResource[w]
        BY <2>3
      <4>3. QED
        BY <3>2, <4>1, <4>2
    <3>4. waiters' = [waiters EXCEPT ![r] = @ \cup {n}]
      BY <3>3
    <3>5. QED
      BY <2>3, <3>2, <3>4 DEF Table!Wait, Refuses
  <2>4. QED
    BY <1>1, <2>1, <2>2, <2>3 DEF Lock
<1>2. ASSUME NEW n \in Node, NEW r \in Resource, Unlock(n, r)
      PROVE  Table!GiveUp(n, r)
  <2>1. ASSUME NEW q \in Resource
        PROVE  waiters'[q] = IF q = r THEN {} ELSE waiters[q]
    BY <1>2 DEF Unlock, ClearedBy
  <2>2. waiters' = [waiters EXCEPT ![r] = {}]
    BY <2>1
  <2>3. QED
    BY <1>2, <2>2 DEF Unlock, Table!GiveUp
<1>3. ASSUME NEW a \in Node, Resolve(a) PROVE Table!Abort(a)
  <2>1. ASSUME NEW q \in Resource
        PROVE  waiters'[q] = IF held[q] = a THEN {} ELSE waiters[q] \ {a}
    <3>1. ASSUME NEW w \in Node
          PROVE  w \in waiters'[q] <=> held[q] # a /\ w # a /\ w \in waiters[q]
      <4>1. CASE w = a
        BY <1>3, <4>1 DEF Resolve, HeldAfterAbort, EdgesAfterAbort
      <4>2. CASE w # a /\ waitingResource[w] = q
        <5>1. /\ waitingFor'[w] = waitingFor[w] \ {a}
              /\ waitingResource'[w] = q
          BY <1>3, <4>2 DEF Resolve, HeldAfterAbort, EdgesAfterAbort
        <5>2. \A m \in waitingFor[w] : held[q] = m
          BY <4>2
        <5>3. QED
          BY <4>2, <5>1, <5>2
      <4>3. CASE w # a /\ waitingResource[w] # q
        BY <1>3, <4>3 DEF Resolve, HeldAfterAbort, EdgesAfterAbort
      <4>4. QED
        BY <4>1, <4>2, <4>3
    <3>2. QED
      BY <3>1
  <2>2. waiters' = [r \in Resource |-> IF held[r] = a THEN {} ELSE waiters[r] \ {a}]
    BY <2>1
  <2>3. QED
    BY <1>3, <2>2 DEF Resolve, HeldAfterAbort, EdgesAfterAbort, Table!Abort
<1>4. ASSUME Reset PROVE Table!Clear
  <2>1. \A q \in Resource : waiters'[q] = {}
    BY <1>4 DEF Reset
  <2>2. waiters' = [r \in Resource |-> {}]
    BY <2>1
  <2>3. QED
    BY <1>4, <2>2 DEF Reset, Table!Clear
<1>5. QED
  BY <1>1, <1>2, <1>3, <1>4 DEF Next, Table!Next

(* Every behaviour of the manager under such clients is one of LockTable.  *)
THEOREM Refinement ==
  ASSUME SingleWait
  PROVE  Spec => ImplementsLockTable
<1>1. Init => Table!Init
  BY DEF Init, Table!Init
<1>2. TypeOK /\ EdgesSound /\ [Next]_vars => [Table!Next]_(Table!lockVars)
  <2>1. CASE UNCHANGED vars
    BY <2>1 DEF vars, Table!lockVars
  <2>2. CASE TypeOK /\ EdgesSound /\ Next
    BY <2>2, StepSimulates DEF Table!lockVars, Waiters
  <2>3. QED
    BY <2>1, <2>2
<1>3. QED
  BY <1>1, <1>2, TypeCorrect, Soundness, PTL DEF Spec, ImplementsLockTable, Table!Spec
=============================================================================
