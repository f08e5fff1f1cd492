------------------------- MODULE Replication_proofs -------------------------
(***************************************************************************)
(* Theorems about Replication for any nodes, copies, clients, timestamps   *)
(* and crash bounds: type correctness; an acknowledged key stays at every  *)
(* copy that never crashed unless deleted; and a write that runs by itself *)
(* leaves the copies in agreement, which only overlapping writes or the    *)
(* death of a server can undo.                                             *)
(***************************************************************************)
EXTENDS Replication, TLAPS

(* What BeginPut does to the types. *)
LEMMA BeginPutType ==
  ASSUME TypeOK, NEW c \in Client, NEW n \in Node, NEW s \in Version,
         BeginPut(c, n, s), issued' \subseteq Stamp
  PROVE  TypeOK'
<1>1. Targets(n) \in SUBSET Node
  BY NodeAssumption DEF Targets
<1>2. tidy' \in BOOLEAN /\ alone' \in [Client -> BOOLEAN]
  BY DEF BeginPut
<1>3. /\ store' \in [Node -> Version]
      /\ pc' \in [Client -> {"idle", "second", "repair", "put"}]
      /\ server' \in [Client -> Node]
      /\ value' \in [Client -> Version]
      /\ todo' \in [Client -> SUBSET Node]
  BY <1>1 DEF BeginPut, TypeOK
<1>4. QED
  BY <1>2, <1>3 DEF BeginPut, TypeOK

(* A command that ends. *)
LEMMA EndType ==
  ASSUME TypeOK, NEW c \in Client, End(c)
  PROVE  /\ pc' \in [Client -> {"idle", "second", "repair", "put"}]
         /\ server' \in [Client -> Node]
         /\ value' \in [Client -> Version]
<1>1. pc' \in [Client -> {"idle", "second", "repair", "put"}]
  BY DEF End, TypeOK
<1>2. server' \in [Client -> Node]
  BY NodeAssumption DEF End, TypeOK
<1>3. value' \in [Client -> Version]
  <2>1. Absent \in Version
    BY DEF Version
  <2>2. QED
    BY <2>1 DEF End, TypeOK
<1>4. QED
  BY <1>1, <1>2, <1>3

(* The state stays well typed. *)
THEOREM TypeCorrect == Spec => []TypeOK
<1>1. Init => TypeOK
  <2>1. Absent \in Version
    BY DEF Version
  <2> SUFFICES ASSUME Init PROVE TypeOK
    OBVIOUS
  <2>2. store \in [Node -> Version] /\ value \in [Client -> Version]
    BY <2>1 DEF Init
  <2>3. server \in [Client -> Node] /\ pc \in [Client -> {"idle", "second", "repair", "put"}]
    BY NodeAssumption DEF Init
  <2>4. deleting \in [Node -> [Node -> Nat]] /\ crashes \in [Node -> Nat]
    BY DEF Init
  <2>5. /\ up \in [Node -> BOOLEAN]
        /\ alone \in [Client -> BOOLEAN]
        /\ todo \in [Client -> SUBSET Node]
    BY DEF Init
  <2>6. late \subseteq Write /\ issued \subseteq Stamp /\ deletes \in Nat
    BY DEF Init
  <2>7. acked \in BOOLEAN /\ tidy \in BOOLEAN
    BY DEF Init
  <2>8. QED
    BY <2>2, <2>3, <2>4, <2>5, <2>6, <2>7 DEF TypeOK
<1>2. TypeOK /\ [Next]_vars => TypeOK'
  <2> SUFFICES ASSUME TypeOK, [Next]_vars PROVE TypeOK'
    OBVIOUS
  <2>1. ASSUME NEW c \in Client, NEW n \in Node, NEW s \in Stamp, Put(c, n, s)
        PROVE  TypeOK'
    <3>1. issued' \subseteq Stamp /\ s \in Version /\ BeginPut(c, n, s)
      BY <2>1 DEF Put, TypeOK, Version
    <3>2. QED
      BY <3>1, BeginPutType
  <2>2. ASSUME NEW c \in Client, ReadFirst(c) PROVE TypeOK'
    BY <2>2, NodeAssumption DEF ReadFirst, TypeOK, dataVars, historyVars
  <2>3. ASSUME NEW c \in Client, NEW p \in Node, Replicate(c, p) PROVE TypeOK'
    <3>1. store' \in [Node -> Version] /\ todo' \in [Client -> SUBSET Node]
      BY <2>3 DEF Replicate, TypeOK
    <3>2. QED
      BY <2>3, <3>1 DEF Replicate, TypeOK, historyVars
  <2>4. ASSUME NEW c \in Client, Return(c) PROVE TypeOK'
    <3>1. /\ pc' \in [Client -> {"idle", "second", "repair", "put"}]
          /\ server' \in [Client -> Node]
          /\ value' \in [Client -> Version]
      BY <2>4, EndType DEF Return
    <3>2. todo' \in [Client -> SUBSET Node] /\ alone' \in [Client -> BOOLEAN]
      BY <2>4 DEF Return, TypeOK
    <3>3. tidy' \in BOOLEAN /\ acked' \in BOOLEAN
      BY <2>4 DEF Return
    <3>4. QED
      BY <2>4, <3>1, <3>2, <3>3 DEF Return, TypeOK, dataVars
  <2>5. ASSUME NEW c \in Client, ReadSecond(c) PROVE TypeOK'
    <3>1. /\ pc' \in [Client -> {"idle", "second", "repair", "put"}]
          /\ server' \in [Client -> Node]
          /\ value' \in [Client -> Version]
      <4>1. CASE End(c)
        BY <4>1, EndType
      <4>2. CASE /\ pc' = [pc EXCEPT ![c] = "repair"]
                 /\ \/ /\ server' = [server EXCEPT ![c] = First]
                       /\ value' = [value EXCEPT ![c] = store[Second]]
                    \/ server' = [server EXCEPT ![c] = Second] /\ value' = value
        <5>1. pc' \in [Client -> {"idle", "second", "repair", "put"}]
          BY <4>2 DEF TypeOK
        <5>2. server' \in [Client -> Node]
          BY <4>2, NodeAssumption DEF TypeOK
        <5>3. store[Second] \in Version
          BY NodeAssumption DEF TypeOK
        <5>4. value' \in [Client -> Version]
          BY <4>2, <5>3 DEF TypeOK
        <5>5. QED
          BY <5>1, <5>2, <5>4
      <4>3. QED
        BY <2>5, <4>1, <4>2 DEF ReadSecond, ReadEnds
    <3>2. QED
      BY <2>5, <3>1 DEF ReadSecond, ReadEnds, TypeOK, dataVars, historyVars
  <2>6. ASSUME NEW c \in Client, Repair(c) PROVE TypeOK'
    <3>1. CASE BeginPut(c, server[c], value[c])
      <4>1. server[c] \in Node /\ value[c] \in Version /\ issued' \subseteq Stamp
        BY <2>6 DEF Repair, TypeOK
      <4>2. QED
        BY <3>1, <4>1, BeginPutType
    <3>2. CASE End(c) /\ UNCHANGED <<up, crashes, dataVars, todo, deletes, acked, alone, tidy>>
      BY <2>6, <3>2, EndType DEF Repair, TypeOK, dataVars
    <3>3. QED
      BY <2>6, <3>1, <3>2 DEF Repair
  <2>7. ASSUME NEW n \in Node, Delete(n) PROVE TypeOK'
    <3>1. [p \in Node |-> IF p \in Targets(n) THEN deleting[n][p] + 1 ELSE deleting[n][p]]
            \in [Node -> Nat]
      BY DEF TypeOK
    <3>2. deleting' \in [Node -> [Node -> Nat]]
      BY <2>7, <3>1 DEF Delete, TypeOK
    <3>3. store' \in [Node -> Version] /\ deletes' \in Nat
      BY <2>7 DEF Delete, TypeOK, Version
    <3>4. alone' \in [Client -> BOOLEAN] /\ tidy' \in BOOLEAN
      BY <2>7 DEF Delete
    <3>5. QED
      BY <2>7, <3>2, <3>3, <3>4 DEF Delete, TypeOK, commandVars
  <2>8. ASSUME NEW n \in Node, Crash(n) PROVE TypeOK'
    <3>1. PICK lost \in SUBSET Node :
            deleting' = [deleting EXCEPT ![n] =
                           [p \in Node |-> IF p \in lost THEN 0 ELSE deleting[n][p]]]
      BY <2>8 DEF Crash
    <3>2. [p \in Node |-> IF p \in lost THEN 0 ELSE deleting[n][p]] \in [Node -> Nat]
      BY DEF TypeOK
    <3>3. deleting' \in [Node -> [Node -> Nat]]
      BY <3>1, <3>2 DEF TypeOK
    <3>4. PICK to \in [Client -> Node] :
            late' = late \cup {[to |-> to[c], value |-> value[c]] :
                                 c \in {d \in ServedBy(n) : to[d] \in todo[d]}}
      BY <2>8 DEF Crash
    <3>5. late' \subseteq Write
      BY <3>4 DEF TypeOK, Write, ServedBy
    <3>6. /\ up' \in [Node -> BOOLEAN]
          /\ crashes' \in [Node -> Nat]
          /\ store' \in [Node -> Version]
      BY <2>8 DEF Crash, TypeOK, Version
    <3>7. /\ pc' \in [Client -> {"idle", "second", "repair", "put"}]
          /\ server' \in [Client -> Node]
          /\ value' \in [Client -> Version]
          /\ todo' \in [Client -> SUBSET Node]
      BY <2>8, NodeAssumption DEF Crash, TypeOK, Version
    <3>8. alone' \in [Client -> BOOLEAN] /\ tidy' \in BOOLEAN
      BY <2>8 DEF Crash, TypeOK
    <3>9. QED
      BY <2>8, <3>3, <3>5, <3>6, <3>7, <3>8 DEF Crash, TypeOK
  <2>9. ASSUME NEW n \in Node, Restart(n) PROVE TypeOK'
    BY <2>9 DEF Restart, TypeOK, dataVars, commandVars, historyVars
  <2>10. ASSUME NEW m \in Node, NEW n \in Node, PropagateDelete(m, n) PROVE TypeOK'
    <3>1. deleting' = [deleting EXCEPT ![m] = [deleting[m] EXCEPT ![n] = deleting[m][n] - 1]]
      BY <2>10 DEF PropagateDelete, TypeOK
    <3>2. deleting[m][n] - 1 \in Nat
      BY <2>10 DEF PropagateDelete, Spawned, TypeOK
    <3>3. [deleting[m] EXCEPT ![n] = deleting[m][n] - 1] \in [Node -> Nat]
      BY <3>2 DEF TypeOK
    <3>4. deleting' \in [Node -> [Node -> Nat]]
      BY <3>1, <3>3 DEF TypeOK
    <3>5. store' \in [Node -> Version]
      BY <2>10 DEF PropagateDelete, TypeOK, Version
    <3>6. QED
      BY <2>10, <3>4, <3>5 DEF PropagateDelete, TypeOK, commandVars, historyVars
  <2>11. ASSUME NEW w \in late, LateWrite(w) PROVE TypeOK'
    <3>1. w.to \in Node /\ w.value \in Version
      BY DEF TypeOK, Write
    <3>2. store' \in [Node -> Version] /\ late' \subseteq Write
      BY <2>11, <3>1 DEF LateWrite, TypeOK
    <3>3. QED
      BY <2>11, <3>2 DEF LateWrite, TypeOK, commandVars, historyVars
  <2>12. CASE UNCHANGED vars
    BY <2>12 DEF vars, TypeOK, dataVars, commandVars, historyVars
  <2>13. QED
    BY <2>1, <2>2, <2>3, <2>4, <2>5, <2>6, <2>7, <2>8, <2>9, <2>10, <2>11, <2>12
    DEF Next, CommandStep
<1>3. QED
  BY <1>1, <1>2, PTL DEF Spec

-----------------------------------------------------------------------------
(* The steps, as far as the data is concerned. *)

(* A step that touches no data and no write under way. *)
Silent ==
  /\ UNCHANGED <<crashes, dataVars, todo, historyVars>>
  /\ \A c \in Client : /\ pc'[c] = "put" <=> pc[c] = "put"
                       /\ pc[c] = "put" => value'[c] = value[c]
  /\ \A n \in Node : up[n] => up'[n]

Begins == \E c \in Client, n \in Node, s \in Version : BeginPut(c, n, s)
Replicates == \E c \in Client, p \in Node : Replicate(c, p)
Returns == \E c \in Client : Return(c)
Deletes == \E n \in Node : Delete(n)
Propagates == \E m, n \in Node : PropagateDelete(m, n)
Crashes == \E n \in Node : Crash(n)
Arrives == \E w \in late : LateWrite(w)

LEMMA EndSilent ==
  ASSUME TypeOK, NEW c \in Client, pc[c] # "put", End(c),
         UNCHANGED <<up, crashes, dataVars, todo, historyVars>>
  PROVE  Silent
BY DEF End, Silent, TypeOK

LEMMA StepKinds ==
  ASSUME TypeOK, [Next]_vars
  PROVE  \/ Silent \/ Begins \/ Replicates \/ Returns
         \/ Deletes \/ Propagates \/ Crashes \/ Arrives
<1>1. ASSUME NEW c \in Client, NEW n \in Node, NEW s \in Stamp, Put(c, n, s)
      PROVE  Begins
  BY <1>1 DEF Put, Begins, Version
<1>2. ASSUME NEW c \in Client, ReadFirst(c) PROVE Silent
  BY <1>2 DEF ReadFirst, Silent, TypeOK
<1>3. ASSUME NEW c \in Client, ReadSecond(c) PROVE Silent
  <2>1. CASE End(c)
    BY <1>3, <2>1, EndSilent DEF ReadSecond, ReadEnds
  <2>2. CASE /\ pc' = [pc EXCEPT ![c] = "repair"]
             /\ \/ value' = [value EXCEPT ![c] = store[Second]]
                \/ value' = value
    BY <1>3, <2>2 DEF ReadSecond, ReadEnds, Silent, TypeOK
  <2>3. QED
    BY <1>3, <2>1, <2>2 DEF ReadSecond, ReadEnds
<1>4. ASSUME NEW c \in Client, Repair(c) PROVE Silent \/ Begins
  <2>1. CASE BeginPut(c, server[c], value[c])
    <3>1. server[c] \in Node /\ value[c] \in Version
      BY DEF TypeOK
    <3>2. QED
      BY <2>1, <3>1 DEF Begins
  <2>2. CASE End(c) /\ UNCHANGED <<up, crashes, dataVars, todo, deletes, acked, alone, tidy>>
    BY <1>4, <2>2, EndSilent DEF Repair, historyVars
  <2>3. QED
    BY <1>4, <2>1, <2>2 DEF Repair
<1>5. ASSUME NEW n \in Node, Restart(n) PROVE Silent
  BY <1>5 DEF Restart, Silent, commandVars, TypeOK
<1>6. CASE UNCHANGED vars
  BY <1>6 DEF vars, Silent, commandVars
<1>7. QED
  BY <1>1, <1>2, <1>3, <1>4, <1>5, <1>6
  DEF Next, CommandStep, Replicates, Returns, Deletes, Propagates, Crashes, Arrives

-----------------------------------------------------------------------------
(* A node that never crashed runs. *)
HealthyUp == \A n \in Node : Never(n) => up[n]

LEMMA HealthyUpStep ==
  ASSUME TypeOK, HealthyUp, [Next]_vars
  PROVE  HealthyUp'
<1>1. CASE Silent
  BY <1>1 DEF Silent, HealthyUp, Never
<1>2. CASE Begins
  BY <1>2 DEF Begins, BeginPut, HealthyUp, Never
<1>3. CASE Replicates \/ Returns
  BY <1>3 DEF Replicates, Replicate, Returns, Return, HealthyUp, Never
<1>4. CASE Deletes \/ Propagates \/ Arrives
  BY <1>4 DEF Deletes, Delete, Propagates, PropagateDelete, Arrives, LateWrite, HealthyUp, Never
<1>5. CASE Crashes
  BY <1>5 DEF Crashes, Crash, HealthyUp, Never, TypeOK
<1>6. QED
  BY <1>1, <1>2, <1>3, <1>4, <1>5, StepKinds

(* What is written, or is about to be, is never the absent item. *)
RealValues ==
  /\ \A c \in Client : pc[c] \in {"repair", "put"} => value[c] # Absent
  /\ \A w \in late : w.value # Absent

LEMMA RealBegin ==
  ASSUME TypeOK, RealValues, NEW c \in Client, NEW n \in Node, NEW s \in Version,
         s # Absent, BeginPut(c, n, s)
  PROVE  RealValues'
BY DEF BeginPut, RealValues, TypeOK

LEMMA RealEnd ==
  ASSUME TypeOK, RealValues, NEW c \in Client, End(c), UNCHANGED late
  PROVE  RealValues'
BY DEF End, RealValues, TypeOK

LEMMA RealValuesStep ==
  ASSUME TypeOK, RealValues, [Next]_vars
  PROVE  RealValues'
<1>1. ASSUME NEW c \in Client, NEW n \in Node, NEW s \in Stamp, Put(c, n, s)
      PROVE  RealValues'
  <2>1. s \in Version /\ s # Absent
    BY StampAssumption DEF Version, Absent
  <2>2. QED
    BY <1>1, <2>1, RealBegin DEF Put
<1>2. ASSUME NEW c \in Client, ReadFirst(c) PROVE RealValues'
  BY <1>2 DEF ReadFirst, RealValues, TypeOK, dataVars
<1>3. ASSUME NEW c \in Client, ReadSecond(c) PROVE RealValues'
  <2>1. CASE End(c)
    BY <1>3, <2>1, RealEnd DEF ReadSecond, ReadEnds, dataVars
  <2>2. CASE /\ value[c] # store[Second]
             /\ pc' = [pc EXCEPT ![c] = "repair"]
             /\ IF value[c] < store[Second]
                THEN value' = [value EXCEPT ![c] = store[Second]]
                ELSE value' = value
    <3>1. value[c] \in Nat /\ store[Second] \in Nat
      <4>1. Version \subseteq Nat
        BY StampAssumption DEF Version, Absent
      <4>2. value[c] \in Version /\ store[Second] \in Version
        BY NodeAssumption DEF TypeOK
      <4>3. QED
        BY <4>1, <4>2
    <3>2. value'[c] # Absent
      BY <2>2, <3>1 DEF TypeOK, Absent
    <3>3. QED
      BY <1>3, <2>2, <3>2 DEF ReadSecond, ReadEnds, RealValues, TypeOK, dataVars
  <2>3. QED
    BY <1>3, <2>1, <2>2 DEF ReadSecond, ReadEnds
<1>4. ASSUME NEW c \in Client, Repair(c) PROVE RealValues'
  <2>1. CASE BeginPut(c, server[c], value[c])
    <3>1. server[c] \in Node /\ value[c] \in Version
      BY DEF TypeOK
    <3>2. value[c] # Absent
      BY <1>4 DEF Repair, RealValues
    <3>3. QED
      BY <2>1, <3>1, <3>2, RealBegin
  <2>2. CASE End(c) /\ UNCHANGED dataVars
    BY <2>2, RealEnd DEF dataVars
  <2>3. QED
    BY <1>4, <2>1, <2>2 DEF Repair
<1>5. CASE Replicates \/ Deletes \/ Propagates
  BY <1>5 DEF Replicates, Replicate, Deletes, Delete, Propagates, PropagateDelete,
              RealValues, commandVars
<1>6. CASE Returns
  BY <1>6, RealEnd DEF Returns, Return, dataVars
<1>7. ASSUME NEW n \in Node, Crash(n) PROVE RealValues'
  <2>1. \A w \in late' : w.value # Absent
    BY <1>7 DEF Crash, RealValues, ServedBy, Writing
  <2>2. \A c \in Client : pc'[c] \in {"repair", "put"} => value'[c] # Absent
    BY <1>7 DEF Crash, RealValues, TypeOK
  <2>3. QED
    BY <2>1, <2>2 DEF RealValues
<1>8. CASE Arrives
  BY <1>8 DEF Arrives, LateWrite, RealValues, commandVars
<1>9. ASSUME NEW n \in Node, Restart(n) PROVE RealValues'
  BY <1>9 DEF Restart, RealValues, dataVars, commandVars
<1>10. CASE UNCHANGED vars
  BY <1>10 DEF vars, RealValues, dataVars, commandVars
<1>11. QED
  BY <1>1, <1>2, <1>3, <1>4, <1>5, <1>6, <1>7, <1>8, <1>9, <1>10
  DEF Next, CommandStep, Replicates, Deletes, Propagates, Returns, Arrives

-----------------------------------------------------------------------------
(* Without deletes no copy is erased, and a put covers the healthy copies. *)
Covered(c) == \A n \in Copies \ todo[c] : Never(n) => store[n] # Absent

NothingErased ==
  deletes = 0 =>
    /\ \A m, n \in Node : deleting[m][n] = 0
    /\ \A c \in Client : Writing(c) => Covered(c)
    /\ acked => \A n \in Copies : Never(n) => store[n] # Absent

(* While nothing is deleted, a healthy copy keeps the key. *)
LEMMA KeyStays ==
  ASSUME TypeOK, HealthyUp, RealValues, RealValues', NothingErased, [Next]_vars,
         deletes' = 0, NEW n \in Node, Never(n)', store[n] # Absent
  PROVE  /\ deletes = 0
         /\ Never(n)
         /\ store'[n] # Absent
<1>1. CASE Silent
  BY <1>1 DEF Silent, historyVars, dataVars, Never
<1>2. CASE Begins
  <2>1. PICK c \in Client, m \in Node, s \in Version : BeginPut(c, m, s)
    BY <1>2 DEF Begins
  <2>2. pc'[c] = "put" /\ value'[c] = s
    BY <2>1 DEF BeginPut, TypeOK
  <2>3. s # Absent
    BY <2>2 DEF RealValues
  <2>4. QED
    BY <2>1, <2>3 DEF BeginPut, Never, TypeOK
<1>3. CASE Replicates
  BY <1>3 DEF Replicates, Replicate, RealValues, Writing, Never, TypeOK, historyVars
<1>4. CASE Returns
  BY <1>4 DEF Returns, Return, dataVars, Never
<1>5. CASE Deletes
  BY <1>5 DEF Deletes, Delete, TypeOK
<1>6. CASE Propagates
  BY <1>6 DEF Propagates, PropagateDelete, Spawned, NothingErased, historyVars
<1>7. CASE Crashes
  BY <1>7 DEF Crashes, Crash, Never, TypeOK
<1>8. CASE Arrives
  BY <1>8 DEF Arrives, LateWrite, RealValues, Never, TypeOK, Write, historyVars
<1>9. QED
  BY <1>1, <1>2, <1>3, <1>4, <1>5, <1>6, <1>7, <1>8, StepKinds

(* Which copies a put has covered grows with every round of replication. *)
LEMMA CoverStays ==
  ASSUME TypeOK, HealthyUp, RealValues, RealValues', NothingErased, [Next]_vars,
         deletes' = 0, NEW c \in Client, Writing(c)'
  PROVE  Covered(c)'
<1> SUFFICES ASSUME NEW n \in Copies \ todo'[c], Never(n)'
             PROVE  store'[n] # Absent
  BY DEF Covered
<1>0. n \in Node
  BY NodeAssumption
<1>a. deletes = 0 /\ Writing(c) /\ n \notin todo[c] /\ Never(n) => store'[n] # Absent
  BY <1>0, KeyStays DEF NothingErased, Covered
<1>1. CASE Silent
  BY <1>1, <1>a DEF Silent, historyVars, Never, Writing
<1>2. CASE Begins
  <2>1. PICK d \in Client, m \in Node, s \in Version : BeginPut(d, m, s)
    BY <1>2 DEF Begins
  <2>2. CASE d = c
    <3>1. value'[c] = s /\ pc'[c] = "put" /\ todo'[c] = Copies \ {m}
      BY <2>1, <2>2 DEF BeginPut, Targets, TypeOK
    <3>2. n = m /\ s # Absent
      BY <3>1 DEF RealValues
    <3>3. QED
      BY <2>1, <3>2 DEF BeginPut, TypeOK
  <2>3. CASE d # c
    BY <2>1, <2>3, <1>a DEF BeginPut, TypeOK, Writing, Never
  <2>4. QED
    BY <2>2, <2>3
<1>3. CASE Replicates
  <2>1. PICK d \in Client, p \in Node : Replicate(d, p)
    BY <1>3 DEF Replicates
  <2>2. deletes = 0 /\ Writing(c) /\ Never(n)
    BY <2>1 DEF Replicate, historyVars, Writing, Never
  <2>3. CASE n \notin todo[c]
    BY <2>2, <2>3, <1>a
  <2>4. CASE n \in todo[c]
    <3>1. d = c /\ p = n
      BY <2>1, <2>4 DEF Replicate, TypeOK
    <3>2. up[n] /\ value[c] # Absent
      BY <1>0, <2>2 DEF HealthyUp, RealValues, Writing
    <3>3. QED
      BY <1>0, <2>1, <3>1, <3>2 DEF Replicate, Skips, TypeOK
  <2>5. QED
    BY <2>3, <2>4
<1>4. CASE Returns
  <2>1. PICK d \in Client : Return(d)
    BY <1>4 DEF Returns
  <2>2. d # c
    BY <2>1 DEF Return, End, Writing, TypeOK
  <2>3. QED
    BY <2>1, <2>2, <1>a DEF Return, End, Writing, Never, TypeOK
<1>5. CASE Deletes
  BY <1>5 DEF Deletes, Delete, TypeOK
<1>6. CASE Propagates
  BY <1>6, <1>a DEF Propagates, PropagateDelete, historyVars, commandVars, Writing, Never
<1>7. CASE Crashes
  <2>1. PICK m \in Node : Crash(m)
    BY <1>7 DEF Crashes
  <2>2. Writing(c) /\ c \notin ServedBy(m)
    BY <2>1 DEF Crash, Writing, ServedBy
  <2>3. Never(n)
    BY <1>0, <2>1 DEF Crash, Never, TypeOK
  <2>4. QED
    BY <2>1, <2>2, <2>3, <1>a DEF Crash
<1>8. CASE Arrives
  BY <1>8, <1>a DEF Arrives, LateWrite, historyVars, commandVars, Writing, Never
<1>9. QED
  BY <1>1, <1>2, <1>3, <1>4, <1>5, <1>6, <1>7, <1>8, StepKinds

(* Deletes are under way only after a delete command. *)
LEMMA NoErasers ==
  ASSUME TypeOK, NothingErased, [Next]_vars, deletes' = 0
  PROVE  deletes = 0 /\ \A m, n \in Node : deleting'[m][n] = 0
<1>1. CASE Silent
  BY <1>1 DEF Silent, NothingErased, historyVars, dataVars
<1>2. CASE Begins \/ Replicates \/ Returns \/ Arrives
  BY <1>2 DEF Begins, BeginPut, Replicates, Replicate, Returns, Return, Arrives, LateWrite,
              NothingErased, historyVars, dataVars
<1>3. CASE Deletes
  BY <1>3 DEF Deletes, Delete, TypeOK
<1>4. CASE Propagates
  BY <1>4 DEF Propagates, PropagateDelete, Spawned, NothingErased, historyVars
<1>5. CASE Crashes
  BY <1>5 DEF Crashes, Crash, NothingErased, TypeOK
<1>6. QED
  BY <1>1, <1>2, <1>3, <1>4, <1>5, StepKinds

LEMMA NothingErasedStep ==
  ASSUME TypeOK, HealthyUp, RealValues, RealValues', NothingErased, [Next]_vars
  PROVE  NothingErased'
<1> SUFFICES ASSUME deletes' = 0
             PROVE  /\ \A m, n \in Node : deleting'[m][n] = 0
                    /\ \A c \in Client : Writing(c)' => Covered(c)'
                    /\ acked' => \A n \in Copies : Never(n)' => store'[n] # Absent
  BY DEF NothingErased
<1>1. \A c \in Client : Writing(c)' => Covered(c)'
  BY CoverStays
<1>2. ASSUME acked', NEW n \in Copies, Never(n)' PROVE store'[n] # Absent
  <2>1. n \in Node
    BY NodeAssumption
  <2>2. deletes = 0
    BY NoErasers
  <2>3. CASE acked /\ Never(n)
    BY <2>1, <2>2, <2>3, <1>2, KeyStays DEF NothingErased
  <2>4. CASE ~acked
    <3>1. Returns
      BY <1>2, <2>4, StepKinds
      DEF Silent, Begins, BeginPut, Replicates, Replicate, Deletes, Delete, Propagates,
          PropagateDelete, Crashes, Crash, Arrives, LateWrite, historyVars
    <3>2. PICK c \in Client : Return(c)
      BY <3>1 DEF Returns
    <3>3. Writing(c) /\ todo[c] = {} /\ store' = store /\ Never(n)
      BY <1>2, <3>2 DEF Return, Replicated, dataVars, Never
    <3>4. QED
      BY <2>2, <3>3 DEF NothingErased, Covered
  <2>5. CASE ~Never(n)
    <3>1. crashes' # crashes
      BY <1>2, <2>5 DEF Never
    <3>2. PICK m \in Node : Crash(m)
      BY <3>1, StepKinds
      DEF Silent, Begins, BeginPut, Replicates, Replicate, Returns, Return, Deletes, Delete,
          Propagates, PropagateDelete, Crashes, Arrives, LateWrite
    <3>3. crashes' = [crashes EXCEPT ![m] = crashes[m] + 1]
      BY <3>2 DEF Crash
    <3>4. QED
      BY <1>2, <2>1, <2>5, <3>3 DEF Never, TypeOK
  <2>6. QED
    BY <2>3, <2>4, <2>5
<1>3. QED
  BY <1>1, <1>2, NoErasers

(* Once a put has returned, no copy that never crashed is without the key  *)
(* unless a delete command removed it, for any nodes, clients and crashes. *)
THEOREM KeyNeverLost == Spec => []NeverLost
<1> DEFINE IInv == HealthyUp /\ RealValues /\ NothingErased
<1>1. Init => IInv
  BY DEF Init, HealthyUp, RealValues, NothingErased, Never, Writing
<1>2. TypeOK /\ IInv /\ [Next]_vars => IInv'
  BY HealthyUpStep, RealValuesStep, NothingErasedStep
<1>3. IInv => NeverLost
  BY DEF NothingErased, NeverLost
<1>4. QED
  BY <1>1, <1>2, <1>3, TypeCorrect, PTL DEF Spec

-----------------------------------------------------------------------------
(* Agreement.  A put that is alone has written all the healthy copies it   *)
(* has been to, and nothing else is under way.                             *)
Healthy == {p \in Copies : Never(p)}
NoErasing == \A m, n \in Node : deleting[m][n] = 0

Solo(c) ==
  /\ Writing(c)
  /\ \A d \in Client : Writing(d) => d = c
  /\ NoErasing
  /\ late = {}
  /\ \A p \in Healthy \ todo[c] : store[p] = value[c]

AloneIsSolo == \A c \in Client : alone[c] => Solo(c)

(* If writes have not overlapped: nothing goes on and the healthy copies   *)
(* agree, or one put is alone, or a delete is on its way to those that     *)
(* still have the key.                                                     *)
Agreed == Quiet /\ \A m, n \in Healthy : store[m] = store[n]
Erasing ==
  /\ \A c \in Client : ~Writing(c)
  /\ late = {}
  /\ \A p \in Healthy : store[p] = Absent \/ \E m \in Node : deleting[m][p] > 0
TidyCases == tidy => Agreed \/ Erasing \/ \E c \in Client : alone[c]

LEMMA HealthyNode == Healthy \subseteq Node
BY NodeAssumption DEF Healthy

LEMMA SilentSame ==
  ASSUME TypeOK, Silent
  PROVE  /\ UNCHANGED <<store, deleting, late, todo, alone, tidy>>
         /\ Healthy' = Healthy
         /\ \A c \in Client : Writing(c)' <=> Writing(c)
         /\ \A c \in Client : Writing(c) => value'[c] = value[c]
         /\ NoErasing' = NoErasing
         /\ Quiet' = Quiet
BY DEF Silent, dataVars, historyVars, Healthy, Never, Writing, NoErasing, Quiet

(* No put is alone while something else could disturb it. *)
LEMMA AloneIsSoloStep ==
  ASSUME TypeOK, HealthyUp, AloneIsSolo, [Next]_vars
  PROVE  AloneIsSolo'
<1> SUFFICES ASSUME NEW c \in Client, alone'[c] PROVE Solo(c)'
  BY DEF AloneIsSolo
<1>1. CASE Silent
  <2>1. Solo(c)
    BY <1>1, SilentSame DEF AloneIsSolo
  <2>2. QED
    BY <1>1, <2>1, SilentSame DEF Solo
<1>2. CASE Begins
  <2>1. PICK d \in Client, m \in Node, s \in Version : BeginPut(d, m, s)
    BY <1>2 DEF Begins
  <2>2. d = c /\ Quiet
    BY <2>1 DEF BeginPut
  <2>3. /\ pc' = [pc EXCEPT ![c] = "put"]
        /\ store' = [store EXCEPT ![m] = s]
        /\ value'[c] = s
        /\ todo'[c] = Copies \ {m}
        /\ UNCHANGED <<crashes, deleting, late>>
    BY <2>1, <2>2 DEF BeginPut, Targets, TypeOK
  <2>4. Writing(c)' /\ \A e \in Client : Writing(e)' => e = c
    BY <2>2, <2>3 DEF Quiet, Writing, TypeOK
  <2>5. ASSUME NEW p \in Healthy' \ todo'[c] PROVE store'[p] = value'[c]
    <3>1. p = m
      BY <2>3 DEF Healthy
    <3>2. QED
      BY <2>3, <3>1 DEF TypeOK
  <2>6. QED
    BY <2>2, <2>3, <2>4, <2>5 DEF Solo, Quiet, NoErasing
<1>3. CASE Replicates
  <2>1. PICK d \in Client, p \in Node : Replicate(d, p)
    BY <1>3 DEF Replicates
  <2>2. Solo(c)
    BY <2>1 DEF Replicate, historyVars, AloneIsSolo
  <2>3. d = c
    BY <2>1, <2>2 DEF Replicate, Solo
  <2>4. /\ todo'[c] = todo[c] \ {p}
        /\ UNCHANGED <<crashes, up, deleting, late, pc, value>>
    BY <2>1, <2>3 DEF Replicate, TypeOK
  <2>5. ASSUME NEW q \in Healthy' \ todo'[c] PROVE store'[q] = value'[c]
    <3>1. q \in Healthy /\ q \in Node
      BY <2>4, HealthyNode DEF Healthy, Never
    <3>2. CASE q = p
      <4>1. up[q]
        BY <3>1 DEF HealthyUp, Healthy
      <4>2. QED
        BY <2>1, <2>3, <3>1, <3>2, <4>1 DEF Replicate, Skips, TypeOK
    <3>3. CASE q # p
      <4>1. store[q] = value[c]
        BY <2>2, <2>4, <3>1, <3>3 DEF Solo
      <4>2. QED
        BY <2>1, <2>4, <3>1, <3>3, <4>1 DEF Replicate, TypeOK
    <3>4. QED
      BY <3>2, <3>3
  <2>6. QED
    BY <2>2, <2>4, <2>5 DEF Solo, Writing, NoErasing
<1>4. CASE Returns
  <2>1. PICK d \in Client : Return(d)
    BY <1>4 DEF Returns
  <2>2. d # c /\ alone[c]
    BY <2>1 DEF Return, TypeOK
  <2>3. QED
    BY <2>1, <2>2 DEF AloneIsSolo, Solo, Return
<1>5. CASE Deletes
  BY <1>5 DEF Deletes, Delete
<1>6. CASE Propagates
  BY <1>6 DEF Propagates, PropagateDelete, Spawned, historyVars, AloneIsSolo, Solo,
              NoErasing, TypeOK
<1>7. CASE Crashes
  <2>1. PICK m \in Node : Crash(m)
    BY <1>7 DEF Crashes
  <2>2. alone[c] /\ c \notin ServedBy(m) /\ Solo(c)
    BY <2>1 DEF Crash, AloneIsSolo
  <2>3. ServedBy(m) = {}
    BY <2>2 DEF ServedBy, Solo
  <2>4. late' = {}
    BY <2>1, <2>2, <2>3 DEF Crash, Solo
  <2>5. NoErasing'
    BY <2>1, <2>2 DEF Crash, Solo, NoErasing, TypeOK
  <2>6. /\ pc'[c] = pc[c] /\ value'[c] = value[c] /\ todo'[c] = todo[c]
        /\ \A d \in Client : pc'[d] = pc[d]
    BY <2>1, <2>2, <2>3 DEF Crash
  <2>7. ASSUME NEW p \in Healthy' PROVE p \in Healthy /\ store'[p] = store[p]
    <3>1. p \in Node
      BY NodeAssumption DEF Healthy
    <3>2. p # m /\ crashes[p] = 0
      BY <2>1, <3>1 DEF Healthy, Never, Crash, TypeOK
    <3>3. QED
      BY <2>1, <3>1, <3>2 DEF Healthy, Never, Crash, TypeOK
  <2>8. QED
    BY <2>2, <2>4, <2>5, <2>6, <2>7 DEF Solo, Writing
<1>8. CASE Arrives
  BY <1>8 DEF Arrives, LateWrite, historyVars, AloneIsSolo, Solo
<1>9. QED
  BY <1>1, <1>2, <1>3, <1>4, <1>5, <1>6, <1>7, <1>8, StepKinds

LEMMA TidyCasesStep ==
  ASSUME TypeOK, HealthyUp, AloneIsSolo, TidyCases, [Next]_vars
  PROVE  TidyCases'
<1> SUFFICES ASSUME tidy' PROVE (Agreed \/ Erasing \/ \E c \in Client : alone[c])'
  BY DEF TidyCases
<1>1. CASE Silent
  BY <1>1, SilentSame DEF TidyCases, Agreed, Erasing
<1>2. CASE Begins
  BY <1>2 DEF Begins, BeginPut
<1>3. CASE Replicates
  BY <1>3 DEF Replicates, Replicate, historyVars, TidyCases, Agreed, Erasing, Quiet
<1>4. CASE Returns
  <2>1. PICK c \in Client : Return(c)
    BY <1>4 DEF Returns
  <2>2. alone[c]
    BY <2>1 DEF Return, TidyCases, Agreed, Erasing, Quiet, AloneIsSolo, Solo
  <2>3. Solo(c)
    BY <2>2 DEF AloneIsSolo
  <2>4. /\ todo[c] = {}
        /\ UNCHANGED <<crashes, store, deleting, late>>
        /\ pc' = [pc EXCEPT ![c] = "idle"]
    BY <2>1 DEF Return, Replicated, End, dataVars
  <2>5. Quiet'
    BY <2>3, <2>4 DEF Solo, Quiet, NoErasing, Writing, TypeOK
  <2>6. \A m, n \in Healthy : store[m] = store[n]
    BY <2>3, <2>4 DEF Solo
  <2>7. Agreed'
    BY <2>4, <2>5, <2>6 DEF Agreed, Healthy, Never
  <2>8. QED
    BY <2>7
<1>5. CASE Deletes
  <2>1. PICK n \in Node : Delete(n)
    BY <1>5 DEF Deletes
  <2>2. Quiet
    BY <2>1 DEF Delete
  <2>3. (\A c \in Client : ~Writing(c)') /\ late' = {}
    BY <2>1, <2>2 DEF Delete, Quiet, Writing, commandVars
  <2>4. ASSUME NEW p \in Healthy'
        PROVE  store'[p] = Absent \/ \E m \in Node : deleting'[m][p] > 0
    <3>1. p \in Node /\ p \in Copies
      BY NodeAssumption DEF Healthy
    <3>2. CASE p = n
      BY <2>1, <3>1, <3>2 DEF Delete, TypeOK
    <3>3. CASE p # n
      <4>1. deleting'[n][p] = deleting[n][p] + 1
        BY <2>1, <3>1, <3>3 DEF Delete, Targets, TypeOK
      <4>2. deleting'[n][p] > 0
        BY <3>1, <4>1 DEF TypeOK
      <4>3. QED
        BY <4>2
    <3>4. QED
      BY <3>2, <3>3
  <2>5. Erasing'
    BY <2>3, <2>4 DEF Erasing
  <2>6. QED
    BY <2>5
<1>6. CASE Propagates
  <2>1. PICK m \in Node, n \in Node : PropagateDelete(m, n)
    BY <1>6 DEF Propagates
  <2>2. Erasing
    BY <2>1 DEF PropagateDelete, Spawned, historyVars, TidyCases, Agreed, Quiet,
                AloneIsSolo, Solo, NoErasing, TypeOK
  <2>3. (\A c \in Client : ~Writing(c)') /\ late' = {}
    BY <2>1, <2>2 DEF PropagateDelete, Erasing, Writing, commandVars
  <2>4. ASSUME NEW p \in Healthy'
        PROVE  store'[p] = Absent \/ \E k \in Node : deleting'[k][p] > 0
    <3>1. p \in Node /\ p \in Healthy
      BY <2>1, NodeAssumption DEF PropagateDelete, Healthy, Never
    <3>2. CASE p = n
      <4>1. up[n]
        BY <3>1, <3>2 DEF HealthyUp, Healthy
      <4>2. QED
        BY <2>1, <3>1, <3>2, <4>1 DEF PropagateDelete, TypeOK
    <3>3. CASE p # n
      <4>1. store'[p] = store[p]
        BY <2>1, <3>1, <3>3 DEF PropagateDelete, TypeOK
      <4>2. \A k \in Node : deleting'[k][p] = deleting[k][p]
        BY <2>1, <3>1, <3>3 DEF PropagateDelete, TypeOK
      <4>3. QED
        BY <2>2, <3>1, <4>1, <4>2 DEF Erasing
    <3>4. QED
      BY <3>2, <3>3
  <2>5. Erasing'
    BY <2>3, <2>4 DEF Erasing
  <2>6. QED
    BY <2>5
<1>7. CASE Crashes
  <2>1. PICK m \in Node : Crash(m)
    BY <1>7 DEF Crashes
  <2>2. tidy /\ ServedBy(m) = {} /\ \A p \in Node : deleting[m][p] = 0
    BY <2>1 DEF Crash
  <2>3. UNCHANGED <<late, pc>>
    BY <2>1, <2>2 DEF Crash, TypeOK
  <2>4. \A k, p \in Node : deleting'[k][p] = deleting[k][p]
    BY <2>1, <2>2 DEF Crash, TypeOK
  <2>5. ASSUME NEW p \in Healthy' PROVE p \in Healthy /\ store'[p] = store[p] /\ p \in Node
    <3>1. p \in Node
      BY NodeAssumption DEF Healthy
    <3>2. p # m /\ crashes[p] = 0
      BY <2>1, <3>1 DEF Healthy, Never, Crash, TypeOK
    <3>3. QED
      BY <2>1, <3>1, <3>2 DEF Healthy, Never, Crash, TypeOK
  <2>6. CASE Agreed
    <3>1. Quiet'
      BY <2>3, <2>4, <2>6 DEF Agreed, Quiet, Writing
    <3>2. QED
      BY <2>5, <2>6, <3>1 DEF Agreed
  <2>7. CASE Erasing
    <3>1. Erasing'
      BY <2>3, <2>4, <2>5, <2>7 DEF Erasing, Writing
    <3>2. QED
      BY <3>1
  <2>8. CASE \E c \in Client : alone[c]
    BY <2>1, <2>2, <2>8 DEF Crash
  <2>9. QED
    BY <2>2, <2>6, <2>7, <2>8 DEF TidyCases
<1>8. CASE Arrives
  BY <1>8 DEF Arrives, LateWrite, historyVars, TidyCases, Agreed, Quiet, Erasing,
              AloneIsSolo, Solo
<1>9. QED
  BY <1>1, <1>2, <1>3, <1>4, <1>5, <1>6, <1>7, <1>8, StepKinds

(* In quiet, the copies that never crashed agree unless writes overlapped  *)
(* or a server died, and one put alone restores agreement, for any nodes,  *)
(* clients, crashes and orders of replication.                             *)
THEOREM CopiesAgree == Spec => []Agreement
<1> DEFINE IInv == HealthyUp /\ AloneIsSolo /\ TidyCases
<1>1. Init => IInv
  <2> SUFFICES ASSUME Init PROVE IInv
    OBVIOUS
  <2>1. HealthyUp /\ AloneIsSolo
    BY DEF Init, HealthyUp, AloneIsSolo
  <2>2. Agreed
    BY HealthyNode DEF Init, Agreed, Quiet, Writing
  <2>3. QED
    BY <2>1, <2>2 DEF TidyCases
<1>2. TypeOK /\ IInv /\ [Next]_vars => IInv'
  BY HealthyUpStep, AloneIsSoloStep, TidyCasesStep
<1>3. TypeOK /\ IInv => Agreement
  <2> SUFFICES ASSUME IInv, Quiet, tidy, NEW m \in Healthy, NEW n \in Healthy
               PROVE  store[m] = store[n]
    BY DEF Agreement, Healthy
  <2>1. CASE Agreed
    BY <2>1 DEF Agreed
  <2>2. CASE Erasing
    <3>1. store[m] = Absent /\ store[n] = Absent
      BY <2>2, HealthyNode DEF Erasing, Quiet
    <3>2. QED
      BY <3>1
  <2>3. CASE \E c \in Client : alone[c]
    BY <2>3 DEF AloneIsSolo, Solo, Quiet
  <2>4. QED
    BY <2>1, <2>2, <2>3 DEF TidyCases
<1>4. QED
  BY <1>1, <1>2, <1>3, TypeCorrect, PTL DEF Spec
=============================================================================
