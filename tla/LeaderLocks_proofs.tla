------------------------- MODULE LeaderLocks_proofs -------------------------
(***************************************************************************)
(* Theorems about the election and the locks of a leader, for any number   *)
(* of nodes, clients and resources.                                        *)
(*                                                                         *)
(* Of the election (Bully): type correctness; the two goroutines of a node *)
(* never run an election together; and, when nodes only crash and calls    *)
(* are prompt, only the highest running node leads.                        *)
(*                                                                         *)
(* Of the locks (LeaderLocks): they are only at processes that led since   *)
(* they started; and, when nodes only crash and calls are prompt, all at   *)
(* one running node.                                                       *)
(***************************************************************************)
EXTENDS LeaderLocks, TLAPS

-----------------------------------------------------------------------------
(* The election.                                                           *)

(* Updating one cell of a table of a node's cells keeps the table typed. *)
LEMMA CellType ==
  ASSUME NEW I, NEW J, NEW V, NEW f \in [I -> [J -> V]],
         NEW i \in I, NEW j \in J, NEW v \in V
  PROVE  [f EXCEPT ![i][j] = v] \in [I -> [J -> V]]
<1>1. [f[i] EXCEPT ![j] = v] \in [J -> V]
  OBVIOUS
<1>2. QED
  BY <1>1

(* The state stays well typed, for any crashes, starts and slow calls. *)
THEOREM TypeCorrect == Spec => []TypeOK
<1>1. Init => TypeOK
  BY BoundAssumption DEF Init, TypeOK, Fresh, NotAsked, Task, Place, Answer
<1>2. TypeOK /\ [Next]_vars => TypeOK'
  <2> SUFFICES ASSUME TypeOK, [Next]_vars PROVE TypeOK'
    OBVIOUS
  <2> USE DEF TypeOK
  <2>a. \A n \in Node, t \in Task, p \in Place :
          Goto(n, t, p) => at' \in [Node -> [Task -> Place]]
    BY CellType DEF Goto
  <2>b. NotAsked \in [Node -> Answer] /\ Fresh \in [Task -> Place]
    BY DEF NotAsked, Fresh, Place, Answer
  <2>c. \A t \in Task : Rest(t) \in Place
    BY DEF Rest, Place
  <2>0. /\ \A n \in Node, t \in Task, p \in Place :
             Goto(n, t, p) => at' \in [Node -> [Task -> Place]]
        /\ NotAsked \in [Node -> Answer] /\ Fresh \in [Task -> Place]
        /\ \A t \in Task : Rest(t) \in Place
    BY <2>a, <2>b, <2>c
  <2>1. ASSUME NEW n \in Node, TriggerElectionOnStartup(n) PROVE TypeOK'
    BY <2>0, <2>1 DEF TriggerElectionOnStartup, Task, Place
  <2>2. ASSUME NEW n \in Node, MonitorTick(n) PROVE TypeOK'
    BY <2>0, <2>2 DEF MonitorTick, Task, Place
  <2>3. ASSUME NEW n \in Node, CheckLeaderAlive(n) PROVE TypeOK'
    BY <2>0, <2>3 DEF CheckLeaderAlive, Task, Place
  <2>4. ASSUME NEW n \in Node, NEW t \in Task, StartElection(n, t) PROVE TypeOK'
    <3>0. Rest(t) \in Place /\ "electing" \in Place
      BY <2>0 DEF Place
    <3>1. at' \in [Node -> [Task -> Place]]
      BY <2>0, <2>4, <3>0 DEF StartElection
    <3>2. [h \in Node |-> IF h \in Higher(n) THEN "pending" ELSE "none"]
            \in [Node -> Answer]
      BY DEF Answer
    <3>3. asked' \in [Node -> [Node -> Answer]] /\ electing' \in [Node -> BOOLEAN]
      BY <2>4, <3>2 DEF StartElection
    <3>4. QED
      BY <2>4, <3>1, <3>3 DEF StartElection
  <2>5. ASSUME NEW n \in Node, NEW h \in Node, Election(n, h) PROVE TypeOK'
    <3>0. \/ asked' = [asked EXCEPT ![n][h] = "yes"]
          \/ asked' = [asked EXCEPT ![n][h] = "no"]
      BY <2>5 DEF Election
    <3>1. \A v \in Answer : [asked EXCEPT ![n][h] = v] \in [Node -> [Node -> Answer]]
      BY CellType
    <3>2. asked' \in [Node -> [Node -> Answer]]
      BY <3>0, <3>1 DEF Answer
    <3>3. QED
      BY <2>5, <3>2 DEF Election
  <2>6. ASSUME NEW n \in Node, NEW t \in Task, FinishElection(n, t) PROVE TypeOK'
    <3>1. at' \in [Node -> [Task -> Place]]
      BY <2>0, <2>6 DEF FinishElection
    <3>2. Announced(n) \in [Node -> Nat]
      BY DEF Announced
    <3>3. coord' \in [Node -> [Node -> Nat]] /\ leader' \in [Node -> Node \cup {NoLeader}]
      <4>1. [coord EXCEPT ![n] = Announced(n)] \in [Node -> [Node -> Nat]]
        BY <3>2
      <4>2. \/ coord' = coord /\ leader' = leader
            \/ /\ coord' = [coord EXCEPT ![n] = Announced(n)]
               /\ leader' = [leader EXCEPT ![n] = n]
        BY <2>6 DEF FinishElection
      <4>3. QED
        BY <4>1, <4>2
    <3>4. asked' \in [Node -> [Node -> Answer]] /\ electing' \in [Node -> BOOLEAN]
      BY <2>0, <2>6 DEF FinishElection, FlagCleared
    <3>5. QED
      BY <2>6, <3>1, <3>3, <3>4 DEF FinishElection
  <2>7. ASSUME NEW m \in Node, NEW n \in Node, Coordinator(m, n) PROVE TypeOK'
    <3>1. coord[m][n] - 1 \in Nat
      BY <2>7 DEF Coordinator, InFlight
    <3>2. coord' = [coord EXCEPT ![m][n] = coord[m][n] - 1]
      BY <2>7 DEF Coordinator
    <3>3. coord' \in [Node -> [Node -> Nat]]
      BY <3>1, <3>2, CellType
    <3>4. leader' \in [Node -> Node \cup {NoLeader}]
      BY <2>7 DEF Coordinator
    <3>5. QED
      BY <2>7, <3>3, <3>4 DEF Coordinator
  <2>8. ASSUME NEW n \in Node, Crash(n) PROVE TypeOK'
    <3>1. PICK lost \in SUBSET Node :
            coord' = [coord EXCEPT ![n] =
                        [p \in Node |-> IF p \in lost THEN 0 ELSE coord[n][p]]]
      BY <2>8 DEF Crash
    <3>2. [p \in Node |-> IF p \in lost THEN 0 ELSE coord[n][p]] \in [Node -> Nat]
      OBVIOUS
    <3>3. coord' \in [Node -> [Node -> Nat]]
      BY <3>1, <3>2
    <3>4. /\ leader' \in [Node -> Node \cup {NoLeader}]
          /\ target' \in [Node -> Node \cup {NoLeader}]
          /\ up' \in [Node -> BOOLEAN] /\ electing' \in [Node -> BOOLEAN]
          /\ crashes' \in Nat /\ starts' \in Nat
      BY <2>8 DEF Crash
    <3>5. at' \in [Node -> [Task -> Place]] /\ asked' \in [Node -> [Node -> Answer]]
      BY <2>0, <2>8 DEF Crash
    <3>6. QED
      BY <3>3, <3>4, <3>5
  <2>9. ASSUME NEW n \in Node, Start(n) PROVE TypeOK'
    BY <2>9 DEF Start
  <2>10. CASE UNCHANGED vars
    BY <2>10 DEF vars
  <2>11. QED
    BY <2>1, <2>2, <2>3, <2>4, <2>5, <2>6, <2>7, <2>8, <2>9, <2>10 DEF Next, TaskStep
<1>3. QED
  BY <1>1, <1>2, PTL DEF Spec

-----------------------------------------------------------------------------
(* The in-progress flag covers the election it was raised for. *)
FlagHeld ==
  /\ \A n \in Node, t \in Task : at[n][t] = "electing" => electing[n]
  /\ OneElection

LEMMA FlagInit == Init => FlagHeld
  BY DEF Init, FlagHeld, OneElection, Fresh, Task

LEMMA FlagNext == TypeOK /\ FlagHeld /\ [Next]_vars => FlagHeld'
<1> SUFFICES ASSUME TypeOK, FlagHeld, [Next]_vars PROVE FlagHeld'
  OBVIOUS
<1> USE DEF TypeOK, FlagHeld, OneElection, Task
<1>1. ASSUME NEW n \in Node, NEW t \in Task, NEW p \in Place, p # "electing",
             Goto(n, t, p), electing' = electing
      PROVE  FlagHeld'
  BY <1>1 DEF Goto
<1>2. ASSUME NEW n \in Node,
             TriggerElectionOnStartup(n) \/ MonitorTick(n) \/ CheckLeaderAlive(n)
      PROVE  FlagHeld'
  BY <1>1, <1>2 DEF TriggerElectionOnStartup, MonitorTick, CheckLeaderAlive, Place
<1>3. ASSUME NEW n \in Node, NEW t \in Task, StartElection(n, t) PROVE FlagHeld'
  <2>1. CASE electing' = electing /\ Goto(n, t, Rest(t))
    BY <1>1, <2>1 DEF Rest, Place
  <2>2. CASE /\ ~electing[n]
             /\ electing' = [electing EXCEPT ![n] = TRUE]
             /\ Goto(n, t, "electing")
    BY <2>2 DEF Goto
  <2>3. QED
    BY <1>3, <2>1, <2>2 DEF StartElection, Busy
<1>4. ASSUME NEW n \in Node, NEW t \in Task, FinishElection(n, t) PROVE FlagHeld'
  <2>1. at[n][t] = "electing" /\ electing' = [electing EXCEPT ![n] = FALSE]
    BY <1>4 DEF FinishElection, FlagCleared
  <2>2. at' = [at EXCEPT ![n][t] = Rest(t)] /\ Rest(t) # "electing"
    BY <1>4 DEF FinishElection, Goto, Rest
  <2>3. \A s \in Task : at'[n][s] # "electing"
    BY <2>1, <2>2
  <2>4. \A m \in Node : m # n => at'[m] = at[m] /\ electing'[m] = electing[m]
    BY <2>1, <2>2
  <2>5. QED
    BY <2>3, <2>4
<1>5. ASSUME NEW n \in Node, Crash(n) PROVE FlagHeld'
  BY <1>5 DEF Crash, Fresh
<1>6. ASSUME NEW n \in Node, NEW h \in Node, Election(n, h) \/ Coordinator(n, h)
      PROVE  FlagHeld'
  BY <1>6 DEF Election, Coordinator
<1>7. ASSUME NEW n \in Node, Start(n) PROVE FlagHeld'
  BY <1>7 DEF Start
<1>8. CASE UNCHANGED vars
  BY <1>8 DEF vars
<1>9. QED
  BY <1>2, <1>3, <1>4, <1>5, <1>6, <1>7, <1>8 DEF Next, TaskStep

(* The startup goroutine and the monitor share the flag and the answers of *)
(* one election; they never run two.                                       *)
THEOREM ElectionsExclusive == Spec => []OneElection
<1>1. FlagHeld => OneElection
  BY DEF FlagHeld
<1>2. QED
  BY FlagInit, FlagNext, TypeCorrect, <1>1, PTL DEF Spec

-----------------------------------------------------------------------------
(* Every node runs from the beginning, nodes only crash, calls are prompt. *)
CrashOnly == InitiallyUp = Node /\ MaxStarts = 0 /\ ~Slow

(* Without restarts a refused call stays the truth about the peer. *)
RefusedIsDown == \A n, h \in Node : asked[n][h] = "no" => ~up[h]

(* An election under way has called every node above. *)
AskedAbove ==
  \A n \in Node, t \in Task, h \in Node :
    at[n][t] = "electing" /\ h > n => asked[n][h] # "none"

DownAbove == \A n, h \in Node : leader[n] = n /\ h > n => ~up[h]

(* Nobody announces itself to itself, so only FinishElection makes a leader. *)
NoSelfCall == \A n \in Node : coord[n][n] = 0

HighestInv == starts = 0 /\ RefusedIsDown /\ AskedAbove /\ DownAbove /\ NoSelfCall

LEMMA HighestInit == Init => HighestInv
  BY NoLeaderAssumption
  DEF Init, HighestInv, RefusedIsDown, AskedAbove, DownAbove, NoSelfCall, Fresh, NotAsked, Task

(* A step of a goroutine that neither starts nor ends an election. *)
LEMMA QuietStep ==
  ASSUME TypeOK, HighestInv, NEW n \in Node, NEW t \in Task, NEW p \in Place,
         p # "electing", Goto(n, t, p), UNCHANGED <<up, starts, leader, asked, coord>>
  PROVE  HighestInv'
<1>1. AskedAbove'
  <2>1. \A m \in Node, s \in Task : at'[m][s] = "electing" => at[m][s] = "electing"
    BY DEF Goto, TypeOK
  <2>2. QED
    BY <2>1 DEF AskedAbove, HighestInv
<1>2. QED
  BY <1>1 DEF HighestInv, RefusedIsDown, DownAbove, NoSelfCall

(* Every higher node is called when an election starts. *)
LEMMA HighestStart ==
  ASSUME TypeOK, HighestInv, NEW n \in Node, NEW t \in Task, StartElection(n, t)
  PROVE  HighestInv'
<1>1. CASE Goto(n, t, Rest(t)) /\ asked' = asked
  <2>1. Rest(t) \in Place /\ Rest(t) # "electing"
    BY DEF Rest, Place
  <2>2. UNCHANGED <<up, starts, leader, asked, coord>>
    BY <1>1 DEF StartElection
  <2>3. QED
    BY <1>1, <2>1, <2>2, QuietStep
<1>2. CASE /\ Goto(n, t, "electing")
           /\ asked' = [asked EXCEPT ![n] =
                          [h \in Node |-> IF h \in Higher(n) THEN "pending" ELSE "none"]]
  <2>1. \A h \in Node : asked'[n][h] # "no" /\ (h > n => asked'[n][h] # "none")
    BY <1>2 DEF Higher, TypeOK
  <2>2. \A m \in Node : m # n => asked'[m] = asked[m] /\ at'[m] = at[m]
    BY <1>2 DEF Goto, TypeOK
  <2>3. UNCHANGED <<up, starts, leader, coord>>
    BY DEF StartElection
  <2>4. RefusedIsDown'
    BY <2>1, <2>2, <2>3 DEF RefusedIsDown, HighestInv
  <2>5. AskedAbove'
    BY <2>1, <2>2 DEF AskedAbove, HighestInv
  <2>6. QED
    BY <2>3, <2>4, <2>5 DEF HighestInv, DownAbove, NoSelfCall
<1>3. QED
  BY <1>1, <1>2 DEF StartElection

(* A prompt call fails only when the peer is down. *)
LEMMA HighestAnswer ==
  ASSUME CrashOnly, TypeOK, HighestInv, NEW n \in Node, NEW h \in Node, Election(n, h)
  PROVE  HighestInv'
<1>1. \A m, k \in Node : <<m, k>> # <<n, h>> => asked'[m][k] = asked[m][k]
  BY DEF Election, TypeOK
<1>2. asked'[n][h] = "yes" \/ (asked'[n][h] = "no" /\ ~up[h])
  BY DEF Election, TypeOK, CrashOnly
<1>3. UNCHANGED <<up, starts, leader, coord, at>>
  BY DEF Election
<1>4. RefusedIsDown'
  BY <1>1, <1>2, <1>3 DEF RefusedIsDown, HighestInv
<1>5. AskedAbove'
  BY <1>1, <1>2, <1>3 DEF AskedAbove, HighestInv
<1>6. QED
  BY <1>3, <1>4, <1>5 DEF HighestInv, DownAbove, NoSelfCall

(* Whoever concludes that nobody above answered has been refused by all. *)
LEMMA HighestFinish ==
  ASSUME CrashOnly, TypeOK, FlagHeld, HighestInv,
         NEW n \in Node, NEW t \in Task, FinishElection(n, t)
  PROVE  HighestInv'
<1>1. \A m \in Node : m # n => /\ asked'[m] = asked[m] /\ at'[m] = at[m]
                               /\ leader'[m] = leader[m] /\ coord'[m] = coord[m]
  BY DEF FinishElection, Goto, TypeOK
<1>2. \A h \in Node : asked'[n][h] = "none"
  BY DEF FinishElection, NotAsked, TypeOK
<1>3. \A s \in Task : at'[n][s] # "electing"
  BY DEF FinishElection, Goto, Rest, FlagHeld, OneElection, TypeOK, Task
<1>4. up' = up /\ starts' = starts
  BY DEF FinishElection
<1>5. coord'[n][n] = 0
  BY DEF FinishElection, Announced, TypeOK, HighestInv, NoSelfCall
<1>6. ASSUME NEW h \in Node, h > n, leader'[n] = n PROVE ~up[h]
  <2>1. CASE Acknowledged(n)
    BY <1>6, <2>1 DEF FinishElection, HighestInv, DownAbove
  <2>2. CASE ~Acknowledged(n)
    <3>1. asked[n][h] # "pending" /\ asked[n][h] # "yes"
      BY <2>2 DEF FinishElection, AnswersIn, Acknowledged, CrashOnly
    <3>2. asked[n][h] # "none"
      BY <1>6 DEF FinishElection, HighestInv, AskedAbove
    <3>3. asked[n][h] \in {"none", "pending", "yes", "no"}
      BY DEF TypeOK, Answer
    <3>4. asked[n][h] = "no"
      BY <3>1, <3>2, <3>3
    <3>5. QED
      BY <3>4 DEF HighestInv, RefusedIsDown
  <2>3. QED
    BY <2>1, <2>2
<1>7. RefusedIsDown'
  BY <1>1, <1>2, <1>4 DEF RefusedIsDown, HighestInv
<1>8. AskedAbove'
  BY <1>1, <1>3 DEF AskedAbove, HighestInv
<1>9. DownAbove'
  BY <1>1, <1>4, <1>6 DEF DownAbove, HighestInv
<1>10. NoSelfCall'
  BY <1>1, <1>5 DEF NoSelfCall, HighestInv
<1>11. QED
  BY <1>4, <1>7, <1>8, <1>9, <1>10 DEF HighestInv

(* A crash only takes nodes, answers and announcements away. *)
LEMMA HighestCrash ==
  ASSUME TypeOK, HighestInv, NEW n \in Node, Crash(n)
  PROVE  HighestInv'
<1>1. \A m \in Node : m # n => /\ asked'[m] = asked[m] /\ at'[m] = at[m]
                               /\ leader'[m] = leader[m] /\ coord'[m] = coord[m]
  BY DEF Crash, TypeOK
<1>2. coord'[n][n] = 0
  <2>1. PICK lost \in SUBSET Node :
          coord' = [coord EXCEPT ![n] =
                      [p \in Node |-> IF p \in lost THEN 0 ELSE coord[n][p]]]
    BY DEF Crash
  <2>2. QED
    BY <2>1 DEF TypeOK, HighestInv, NoSelfCall
<1>3. leader'[n] # n /\ \A s \in Task : at'[n][s] # "electing"
  BY NoLeaderAssumption DEF Crash, TypeOK, Fresh
<1>4. \A h \in Node : asked'[n][h] = "none"
  BY DEF Crash, TypeOK, NotAsked
<1>5. starts' = starts /\ \A h \in Node : ~up[h] => ~up'[h]
  BY DEF Crash, TypeOK
<1>6. RefusedIsDown'
  BY <1>1, <1>4, <1>5 DEF RefusedIsDown, HighestInv
<1>7. AskedAbove'
  BY <1>1, <1>3 DEF AskedAbove, HighestInv
<1>8. DownAbove'
  BY <1>1, <1>3, <1>5 DEF DownAbove, HighestInv
<1>9. NoSelfCall'
  BY <1>1, <1>2 DEF NoSelfCall, HighestInv
<1>10. QED
  BY <1>5, <1>6, <1>7, <1>8, <1>9 DEF HighestInv

(* An announcement makes its receiver follow another node. *)
LEMMA HighestFollow ==
  ASSUME TypeOK, HighestInv, NEW m \in Node, NEW n \in Node, Coordinator(m, n)
  PROVE  HighestInv'
<1>1. m # n
  BY DEF Coordinator, InFlight, HighestInv, NoSelfCall
<1>2. UNCHANGED <<up, starts, at, asked>>
  BY DEF Coordinator
<1>3. \A k \in Node : leader'[k] = k => leader[k] = k
  BY <1>1 DEF Coordinator, TypeOK
<1>4. \A k \in Node : coord'[k][k] = coord[k][k]
  BY <1>1 DEF Coordinator, TypeOK
<1>5. DownAbove' /\ NoSelfCall'
  BY <1>2, <1>3, <1>4 DEF DownAbove, NoSelfCall, HighestInv
<1>6. QED
  BY <1>2, <1>5 DEF HighestInv, RefusedIsDown, AskedAbove

(* Every step keeps it. *)
LEMMA HighestNext ==
  ASSUME CrashOnly, TypeOK, FlagHeld, HighestInv, [Next]_vars
  PROVE  HighestInv'
<1>1. ASSUME NEW n \in Node,
             TriggerElectionOnStartup(n) \/ MonitorTick(n) \/ CheckLeaderAlive(n)
      PROVE  HighestInv'
  <2>1. \E t \in Task, p \in Place : p # "electing" /\ Goto(n, t, p)
    BY <1>1 DEF TriggerElectionOnStartup, MonitorTick, CheckLeaderAlive, Place, Task
  <2>2. UNCHANGED <<up, starts, leader, asked, coord>>
    BY <1>1 DEF TriggerElectionOnStartup, MonitorTick, CheckLeaderAlive
  <2>3. QED
    BY <2>1, <2>2, QuietStep
<1>2. ASSUME NEW n \in Node, Start(n) PROVE FALSE
  BY <1>2 DEF Start, CrashOnly, HighestInv
<1>3. CASE UNCHANGED vars
  BY <1>3 DEF vars, HighestInv, RefusedIsDown, AskedAbove, DownAbove, NoSelfCall
<1>4. QED
  BY <1>1, <1>2, <1>3, HighestStart, HighestAnswer, HighestFinish, HighestCrash, HighestFollow
  DEF Next, TaskStep

(* When nodes only crash and calls are prompt, a leader has no running     *)
(* node above it: two nodes never lead at once, for any number of nodes.   *)
THEOREM LeaderHighest ==
  ASSUME CrashOnly
  PROVE  Spec => []LeaderIsHighest
<1>1. TypeOK /\ FlagHeld /\ HighestInv /\ [Next]_vars => HighestInv'
  BY HighestNext
<1>2. HighestInv => LeaderIsHighest
  BY DEF HighestInv, DownAbove, LeaderIsHighest, IsLeader, HighestUp, Higher
<1>3. QED
  BY HighestInit, FlagInit, FlagNext, TypeCorrect, <1>1, <1>2, PTL DEF Spec

-----------------------------------------------------------------------------
(* The locks.                                                              *)

(* Clients and locks do not influence the election. *)
LEMMA ElectionUndisturbed == LockSpec => Spec
<1>1. LockInit => Init
  BY DEF LockInit
<1>2. [LockNext]_allVars => [Next]_vars
  BY DEF LockNext, allVars, ElectionStep, CrashNode, Next, TaskStep,
         FindLeader, DAGLock, DAGUnlock, DAGReset, Disconnect
<1>3. QED
  BY <1>1, <1>2, PTL DEF LockSpec, Spec

(* The state stays well typed. *)
THEOREM LockTypeCorrect == LockSpec => []LockTypeOK
<1> DEFINE Inv == /\ table \in [Node -> SUBSET Resource]
                  /\ server \in [Client -> Node \cup {NoLeader}]
                  /\ led \in [Node -> BOOLEAN]
<1>1. LockInit => Inv
  BY DEF LockInit
<1>2. Inv /\ [LockNext]_allVars => Inv'
  <2> SUFFICES ASSUME Inv, [LockNext]_allVars PROVE Inv'
    OBVIOUS
  <2>1. CASE ElectionStep
    BY <2>1 DEF ElectionStep
  <2>2. ASSUME NEW n \in Node, CrashNode(n) PROVE Inv'
    BY <2>2 DEF CrashNode, Severed
  <2>3. ASSUME NEW c \in Client, NEW n \in Node, FindLeader(c, n) PROVE Inv'
    BY <2>3 DEF FindLeader
  <2>4. ASSUME NEW c \in Client, NEW r \in Resource, DAGLock(c, r) \/ DAGUnlock(c, r)
        PROVE  Inv'
    BY <2>4 DEF DAGLock, DAGUnlock
  <2>5. ASSUME NEW c \in Client, DAGReset(c) \/ Disconnect(c) PROVE Inv'
    BY <2>5 DEF DAGReset, Disconnect
  <2>6. CASE UNCHANGED allVars
    BY <2>6 DEF allVars, lockVars
  <2>7. QED
    BY <2>1, <2>2, <2>3, <2>4, <2>5, <2>6 DEF LockNext
<1>3. Inv /\ TypeOK => LockTypeOK
  BY DEF LockTypeOK
<1>4. QED
  BY <1>1, <1>2, <1>3, ElectionUndisturbed, TypeCorrect, PTL DEF LockSpec

-----------------------------------------------------------------------------
(* Whoever leads is on record; clients are connected to running processes  *)
(* on record, and locks are at such processes.                             *)
LedInv ==
  /\ \A n \in Node : leader[n] = n => led[n]
  /\ \A c \in Client : server[c] # NoLeader => up[server[c]] /\ led[server[c]]
  /\ LocksWhereLed

LEMMA LedInit == LockInit => LedInv
  BY NoLeaderAssumption DEF LockInit, Init, LedInv, LocksWhereLed

(* An election step stops no process and forgets no leader. *)
LEMMA ElectionKeepsLed ==
  ASSUME LockTypeOK, ElectionStep
  PROVE  /\ \A n \in Node : up[n] => up'[n]
         /\ \A n \in Node : led[n] => led'[n]
         /\ \A n \in Node : leader'[n] = n => led'[n]
         /\ table' = table /\ server' = server
<1>1. up' = up \/ \E n \in Node : up' = [up EXCEPT ![n] = TRUE]
  BY DEF ElectionStep, TaskStep, TriggerElectionOnStartup, MonitorTick, CheckLeaderAlive,
         StartElection, FinishElection, Start, Election, Coordinator
<1>2. \A n \in Node : up[n] => up'[n]
  BY <1>1 DEF LockTypeOK, TypeOK
<1>3. QED
  BY <1>2 DEF ElectionStep, LockTypeOK

LEMMA LedNext ==
  ASSUME LockTypeOK, LedInv, [LockNext]_allVars
  PROVE  LedInv'
<1> USE NoLeaderAssumption DEF LedInv, LocksWhereLed
<1>1. CASE ElectionStep
  BY <1>1, ElectionKeepsLed DEF LockTypeOK
<1>2. ASSUME NEW n \in Node, CrashNode(n) PROVE LedInv'
  <2>1. /\ up' = [up EXCEPT ![n] = FALSE]
        /\ leader' = [leader EXCEPT ![n] = NoLeader]
        /\ table' = [table EXCEPT ![n] = {}]
        /\ led' = [led EXCEPT ![n] = FALSE]
        /\ \A c \in Client : server'[c] = IF server[c] = n THEN NoLeader ELSE server[c]
    BY <1>2 DEF CrashNode, Crash, Severed
  <2>2. QED
    BY <2>1 DEF LockTypeOK, TypeOK
<1>3. ASSUME NEW c \in Client, NEW n \in Node, FindLeader(c, n) PROVE LedInv'
  BY <1>3 DEF FindLeader, SaysItLeads, LockTypeOK, vars
<1>4. ASSUME NEW c \in Client, NEW r \in Resource, DAGLock(c, r) \/ DAGUnlock(c, r)
      PROVE  LedInv'
  BY <1>4 DEF DAGLock, DAGUnlock, LockTypeOK, vars
<1>5. ASSUME NEW c \in Client, DAGReset(c) PROVE LedInv'
  BY <1>5 DEF DAGReset, LockTypeOK, vars
<1>6. ASSUME NEW c \in Client, Disconnect(c) PROVE LedInv'
  BY <1>6 DEF Disconnect, LockTypeOK, vars
<1>7. CASE UNCHANGED allVars
  BY <1>7 DEF allVars, lockVars, vars
<1>8. QED
  BY <1>1, <1>2, <1>3, <1>4, <1>5, <1>6, <1>7 DEF LockNext

(* Locks are only at processes that led since they started, whatever       *)
(* crashes, restarts and slow calls happen.                                *)
THEOREM LocksOnlyWhereLed == LockSpec => []LocksWhereLed
<1>1. LedInv => LocksWhereLed
  BY DEF LedInv
<1>2. QED
  BY <1>1, LedInit, LedNext, LockTypeCorrect, PTL DEF LockSpec

-----------------------------------------------------------------------------
(* Above a process that ever led, nothing runs: without restarts, what is  *)
(* down stays down.                                                        *)
LedIsHighest == \A n, h \in Node : led[n] /\ h > n => ~up[h]

LEMMA ElectionInvariant ==
  ASSUME CrashOnly
  PROVE  Spec => []HighestInv
<1>1. TypeOK /\ FlagHeld /\ HighestInv /\ [Next]_vars => HighestInv'
  BY HighestNext
<1>2. QED
  BY HighestInit, FlagInit, FlagNext, TypeCorrect, <1>1, PTL DEF Spec

LEMMA LedHighestNext ==
  ASSUME CrashOnly, LockTypeOK, HighestInv, HighestInv', LedIsHighest, [LockNext]_allVars
  PROVE  LedIsHighest'
<1>1. CASE ElectionStep
  <2>1. up' = up
    BY <1>1 DEF ElectionStep, TaskStep, TriggerElectionOnStartup, MonitorTick,
                CheckLeaderAlive, StartElection, FinishElection, Start, Election,
                Coordinator, CrashOnly, HighestInv
  <2>2. QED
    BY <1>1, <2>1 DEF ElectionStep, LedIsHighest, HighestInv, DownAbove
<1>2. ASSUME NEW n \in Node, CrashNode(n) PROVE LedIsHighest'
  BY <1>2 DEF CrashNode, Crash, LedIsHighest, LockTypeOK, TypeOK
<1>3. CASE UNCHANGED <<vars, led>>
  BY <1>3 DEF vars, LedIsHighest
<1>4. QED
  BY <1>1, <1>2, <1>3
  DEF LockNext, FindLeader, DAGLock, DAGUnlock, DAGReset, Disconnect, allVars, lockVars

(* When nodes only crash and calls are prompt, all locks and all clients   *)
(* are at one running node, for any number of nodes and changes of leader. *)
THEOREM TableUnique ==
  ASSUME CrashOnly
  PROVE  LockSpec => []OneTable
<1>1. LockInit => LedIsHighest
  BY DEF LockInit, LedIsHighest
<1>2. LedInv /\ LedIsHighest => OneTable
  <2> SUFFICES ASSUME LedInv, LedIsHighest, NEW m \in Node, NEW n \in Node,
                      InUse(m), InUse(n)
               PROVE  m = n
    BY DEF OneTable
  <2>1. \A k \in Node : InUse(k) => up[k] /\ led[k]
    BY NoLeaderAssumption DEF InUse, LedInv, LocksWhereLed
  <2>2. ~(m > n) /\ ~(n > m)
    BY <2>1 DEF LedIsHighest
  <2>3. QED
    BY <2>2, NodeAssumption
<1>3. LockSpec => []HighestInv
  BY ElectionUndisturbed, ElectionInvariant
<1>4. LockTypeOK /\ HighestInv /\ HighestInv' /\ LedIsHighest /\ [LockNext]_allVars
      => LedIsHighest'
  BY LedHighestNext
<1>5. QED
  BY <1>1, <1>2, <1>3, <1>4, LedInit, LedNext, LockTypeCorrect, PTL DEF LockSpec
=============================================================================
