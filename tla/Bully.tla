------------------------------- MODULE Bully -------------------------------
(***************************************************************************)
(* Leader election: src/election/bully.go with the Election, Coordinator   *)
(* and Heartbeat handlers of src/node/rpc_handlers.go.                     *)
(*                                                                         *)
(* Two goroutines of a process may run an election: the one main starts    *)
(* (TriggerElectionOnStartup) and the heartbeat monitor.  A Task is one of *)
(* them.  The Election and Heartbeat handlers only answer, so a call to    *)
(* them is its outcome: answered while the peer runs, failed while it does *)
(* not, and, if Slow, failed by its timer although the peer runs.          *)
(* Coordinator changes the receiver, so its calls are messages.  IsLeader  *)
(* is LeaderID = ID: SetLeader sets both.  Clocks, the heartbeats a leader *)
(* sends (the handler ignores who claims to lead) and the length of the    *)
(* timers are left out.                                                    *)
(***************************************************************************)
EXTENDS Integers, FiniteSets

CONSTANTS Node,         \* node IDs; the highest wins
          NoLeader,     \* LeaderID -1
          InitiallyUp,  \* the nodes that run from the beginning
          MaxCrashes,   \* bound: crashes over all nodes
          MaxStarts,    \* bound: starts and restarts over all nodes
          MaxPending,   \* bound: announcements of a node to a peer under way
          Slow          \* a call to a running node may exceed its timer

ASSUME NodeAssumption == Node \subseteq Nat
ASSUME NoLeaderAssumption == NoLeader \notin Node
ASSUME BoundAssumption ==
  /\ InitiallyUp \subseteq Node
  /\ MaxCrashes \in Nat /\ MaxStarts \in Nat /\ MaxPending \in Nat
  /\ Slow \in BOOLEAN

VARIABLES
  up,        \* the process runs
  crashes,   \* crashes so far, bounded
  starts,    \* later starts so far, bounded
  leader,    \* LeaderID
  electing,  \* electionInProgress
  at,        \* at[n][t]: where task t of node n is
  target,    \* the leader the monitor is checking
  asked,     \* asked[n][h]: the ELECTION call of n to h
  coord      \* coord[m][n]: COORDINATOR calls of m to n under way

vars == <<up, crashes, starts, leader, electing, at, target, asked, coord>>

-----------------------------------------------------------------------------
Task == {"startup", "monitor"}
Place == {"sleep", "check", "start", "electing", "done"}
Answer == {"none", "pending", "yes", "no"}

Higher(n) == {h \in Node : h > n}
NotAsked == [h \in Node |-> "none"]
Fresh == [t \in Task |-> "sleep"]

(* The task's goroutine when it has nothing more to do: the startup task   *)
(* returns, the monitor goes back to sleep.                                *)
Rest(t) == IF t = "startup" THEN "done" ELSE "sleep"
Goto(n, t, p) == at' = [at EXCEPT ![n][t] = p]

TypeOK ==
  /\ up \in [Node -> BOOLEAN]
  /\ crashes \in Nat /\ starts \in Nat
  /\ leader \in [Node -> Node \cup {NoLeader}]
  /\ electing \in [Node -> BOOLEAN]
  /\ at \in [Node -> [Task -> Place]]
  /\ target \in [Node -> Node \cup {NoLeader}]
  /\ asked \in [Node -> [Node -> Answer]]
  /\ coord \in [Node -> [Node -> Nat]]

Init ==
  /\ up = [n \in Node |-> n \in InitiallyUp]
  /\ crashes = 0 /\ starts = 0
  /\ leader = [n \in Node |-> NoLeader]
  /\ electing = [n \in Node |-> FALSE]
  /\ at = [n \in Node |-> Fresh]
  /\ target = [n \in Node |-> NoLeader]
  /\ asked = [n \in Node |-> NotAsked]
  /\ coord = [m \in Node |-> [n \in Node |-> 0]]

-----------------------------------------------------------------------------
(* The two goroutines up to the election.                                  *)

(* TriggerElectionOnStartup after its two seconds. *)
TriggerElectionOnStartup(n) ==
  /\ up[n] /\ at[n]["startup"] = "sleep"
  /\ Goto(n, "startup", IF leader[n] = NoLeader THEN "start" ELSE "done")
  /\ UNCHANGED <<up, crashes, starts, leader, electing, target, asked, coord>>

(* A tick of the monitor: the leader sends heartbeats, anyone else checks  *)
(* the leader it knows; without one the check fails at once.               *)
MonitorTick(n) ==
  /\ up[n] /\ at[n]["monitor"] = "sleep" /\ leader[n] # n
  /\ target' = [target EXCEPT ![n] = leader[n]]
  /\ Goto(n, "monitor", IF leader[n] = NoLeader THEN "start" ELSE "check")
  /\ UNCHANGED <<up, crashes, starts, leader, electing, asked, coord>>

(* The Heartbeat call to the leader read before: any running process       *)
(* answers Alive, whether it leads or not.                                 *)
CheckLeaderAlive(n) ==
  /\ up[n] /\ at[n]["monitor"] = "check"
  /\ \/ up[target[n]] /\ Goto(n, "monitor", "sleep")
     \/ (~up[target[n]] \/ Slow) /\ Goto(n, "monitor", "start")
  /\ target' = [target EXCEPT ![n] = NoLeader]
  /\ UNCHANGED <<up, crashes, starts, leader, electing, asked, coord>>

-----------------------------------------------------------------------------
(* StartElection.                                                          *)

Busy_Ignored(n) == FALSE
Busy(n) == electing[n]

(* Under electionMutex: leave if an election is running, else claim it and *)
(* call every higher node.                                                 *)
StartElection(n, t) ==
  /\ up[n] /\ at[n][t] = "start"
  /\ \/ /\ Busy(n)
        /\ Goto(n, t, Rest(t))
        /\ UNCHANGED <<electing, asked>>
     \/ /\ ~Busy(n)
        /\ electing' = [electing EXCEPT ![n] = TRUE]
        /\ asked' = [asked EXCEPT ![n] =
                       [h \in Node |-> IF h \in Higher(n) THEN "pending" ELSE "none"]]
        /\ Goto(n, t, "electing")
  /\ UNCHANGED <<up, crashes, starts, leader, target, coord>>

(* The Election handler of h acknowledges, and starts nothing itself; or   *)
(* the call fails.                                                         *)
Election(n, h) ==
  /\ up[n] /\ asked[n][h] = "pending"
  /\ \/ up[h] /\ asked' = [asked EXCEPT ![n][h] = "yes"]
     \/ (~up[h] \/ Slow) /\ asked' = [asked EXCEPT ![n][h] = "no"]
  /\ UNCHANGED <<up, crashes, starts, leader, electing, at, target, coord>>

(* Every call has returned, or the election timer fires while calls hang.  *)
AnswersIn_Early(n) == TRUE
AnswersIn(n) == Slow \/ \A h \in Node : asked[n][h] # "pending"

Flag_Kept(n) == electing
FlagCleared(n) == [electing EXCEPT ![n] = FALSE]

Acknowledged(n) == \E h \in Node : asked[n][h] = "yes"

(* A goroutine for each other node calls its Coordinator.  What exceeds    *)
(* the bound counts as a call that fails.                                  *)
Announced(n) ==
  [p \in Node |-> IF p = n \/ coord[n][p] = MaxPending THEN coord[n][p]
                                                      ELSE coord[n][p] + 1]

(* becomeLeader if nobody higher answered, else leave the announcement to  *)
(* others; the flag is cleared either way.                                 *)
FinishElection(n, t) ==
  /\ up[n] /\ at[n][t] = "electing"
  /\ AnswersIn(n)
  /\ \/ /\ Acknowledged(n)
        /\ UNCHANGED <<leader, coord>>
     \/ /\ ~Acknowledged(n)
        /\ leader' = [leader EXCEPT ![n] = n]
        /\ coord' = [coord EXCEPT ![n] = Announced(n)]
  /\ electing' = FlagCleared(n)
  /\ asked' = [asked EXCEPT ![n] = NotAsked]
  /\ Goto(n, t, Rest(t))
  /\ UNCHANGED <<up, crashes, starts, target>>

InFlight_OffByOne(m, n) == coord[m][n] >= 0
InFlight(m, n) == coord[m][n] > 0

(* The Coordinator call arrives: the receiver follows whoever announces    *)
(* itself, whatever it believed before.  Nobody listening: it is dropped.  *)
Coordinator(m, n) ==
  /\ InFlight(m, n)
  /\ coord' = [coord EXCEPT ![m][n] = @ - 1]
  /\ \/ up[n] /\ leader' = [leader EXCEPT ![n] = m]
     \/ ~up[n] /\ UNCHANGED leader
  /\ UNCHANGED <<up, crashes, starts, electing, at, target, asked>>

-----------------------------------------------------------------------------
(* A process dies; the announcements it had under way may still arrive.    *)
Crash(n) ==
  /\ up[n]
  /\ crashes < MaxCrashes
  /\ crashes' = crashes + 1
  /\ up' = [up EXCEPT ![n] = FALSE]
  /\ leader' = [leader EXCEPT ![n] = NoLeader]
  /\ electing' = [electing EXCEPT ![n] = FALSE]
  /\ at' = [at EXCEPT ![n] = Fresh]
  /\ target' = [target EXCEPT ![n] = NoLeader]
  /\ asked' = [asked EXCEPT ![n] = NotAsked]
  /\ \E lost \in SUBSET {p \in Node : InFlight(n, p)} :
        coord' = [coord EXCEPT ![n] = [p \in Node |-> IF p \in lost THEN 0 ELSE @[p]]]
  /\ UNCHANGED starts

(* A process starts, for the first time or again: NewNode, no leader. *)
Start(n) ==
  /\ ~up[n]
  /\ starts < MaxStarts
  /\ starts' = starts + 1
  /\ up' = [up EXCEPT ![n] = TRUE]
  /\ UNCHANGED <<crashes, leader, electing, at, target, asked, coord>>

TaskStep(n) ==
  \/ TriggerElectionOnStartup(n)
  \/ MonitorTick(n)
  \/ CheckLeaderAlive(n)
  \/ \E t \in Task : StartElection(n, t) \/ FinishElection(n, t)

Next ==
  \/ \E n \in Node : TaskStep(n) \/ Crash(n) \/ Start(n)
  \/ \E n, h \in Node : Election(n, h) \/ Coordinator(n, h)

Spec == Init /\ [][Next]_vars

(* The monitors run, and an election that was begun goes on: its calls get *)
(* through or fail, its timers fire.                                       *)
MonitorFairness ==
  \A n \in Node :
    /\ WF_vars(MonitorTick(n) \/ CheckLeaderAlive(n)
                 \/ StartElection(n, "monitor") \/ FinishElection(n, "monitor"))
    /\ WF_vars(StartElection(n, "startup") \/ FinishElection(n, "startup"))
    /\ \A h \in Higher(n) : WF_vars(Election(n, h))

(* Moreover, the startup elections take place and announcements get        *)
(* through or fail.  Crashes and starts need not happen.                   *)
Fairness ==
  /\ MonitorFairness
  /\ \A n \in Node :
       /\ WF_vars(TriggerElectionOnStartup(n))
       /\ \A p \in Node \ {n} : WF_vars(Coordinator(n, p))

FairSpec == Spec /\ Fairness

-----------------------------------------------------------------------------
IsLeader(n) == up[n] /\ leader[n] = n
HighestUp(n) == up[n] /\ \A h \in Higher(n) : ~up[h]

(* The startup goroutine and the monitor never run an election of the same *)
(* node at once: they would share the answers.                             *)
OneElection ==
  \A n \in Node : ~(at[n]["startup"] = "electing" /\ at[n]["monitor"] = "electing")

(* When nodes only crash and nobody is slow, whoever leads has no running  *)
(* node above it; so no two nodes lead at once.                            *)
LeaderIsHighest == \A n \in Node : IsLeader(n) => HighestUp(n)

(* When crashes stop, the highest running node leads for good: a crashed   *)
(* leader is noticed, and a late announcement of it is overcome.  The      *)
(* monitors see to that; startup elections need not take place, nor        *)
(* announcements arrive.                                                   *)
HighestLeads == <>[](\A n \in Node : HighestUp(n) => IsLeader(n))

(* A node that knows no running leader holds elections again and again,    *)
(* whatever crashes, starts or slow calls happen: neither the in-progress  *)
(* flag nor a wait for answers ever blocks it.                             *)
KeepsTrying ==
  \A n \in Node : []<>(\/ ~up[n]
                     \/ leader[n] \in {m \in Node : up[m]}
                     \/ \E t \in Task : at[n][t] = "electing")

(* README.md:131: "Automatically elects a leader among the nodes."         *)
SomeoneLeads == <>[](\E n \in Node : IsLeader(n))
=============================================================================
