---------------------------- MODULE LeaderLocks ----------------------------
(***************************************************************************)
(* Bully together with what the leader is for: every node has a deadlock   *)
(* manager of its own (NewNode), and the client uses the one of the node   *)
(* that says it leads: findLeader of src/client/client.go, then DAGReset,  *)
(* DAGLock, DAGUnlock and DAGResolve of src/node/rpc_handlers.go over the  *)
(* connection it got.  The handlers do not ask whether the node leads.     *)
(*                                                                         *)
(* findLeader asks the nodes one after the other; only the answer of the   *)
(* one it returns matters, so it is one step.  Of a manager only the locks *)
(* granted are kept; WaitForGraph has the rest.  A manager is memory, and  *)
(* a connection lasts as long as the process it leads to.                  *)
(***************************************************************************)
EXTENDS Bully

CONSTANTS Client, Resource

VARIABLES
  table,   \* heldResources of each node: what is locked there
  server,  \* the node a client is connected to, or NoLeader
  led      \* history: the process said it leads since it started

lockVars == <<table, server, led>>
allVars == <<vars, lockVars>>

LockTypeOK ==
  /\ TypeOK
  /\ table \in [Node -> SUBSET Resource]
  /\ server \in [Client -> Node \cup {NoLeader}]
  /\ led \in [Node -> BOOLEAN]

LockInit ==
  /\ Init
  /\ table = [n \in Node |-> {}]
  /\ server = [c \in Client |-> NoLeader]
  /\ led = [n \in Node |-> FALSE]

-----------------------------------------------------------------------------
(* What Status reports. *)
SaysItLeads_Follower(n) == leader[n] # NoLeader
SaysItLeads(n) == leader[n] = n

FindLeader(c, n) ==
  /\ server[c] = NoLeader
  /\ up[n] /\ SaysItLeads(n)
  /\ server' = [server EXCEPT ![c] = n]
  /\ UNCHANGED <<vars, table, led>>

(* A call over the connection. *)
DAGLock(c, r) ==
  /\ server[c] # NoLeader
  /\ table' = [table EXCEPT ![server[c]] = @ \cup {r}]
  /\ UNCHANGED <<vars, server, led>>

(* DAGUnlock, or DAGResolve of the node that holds r. *)
DAGUnlock(c, r) ==
  /\ server[c] # NoLeader
  /\ table' = [table EXCEPT ![server[c]] = @ \ {r}]
  /\ UNCHANGED <<vars, server, led>>

DAGReset(c) ==
  /\ server[c] # NoLeader
  /\ table' = [table EXCEPT ![server[c]] = {}]
  /\ UNCHANGED <<vars, server, led>>

(* The command ends, with locks released or not. *)
Disconnect(c) ==
  /\ server[c] # NoLeader
  /\ server' = [server EXCEPT ![c] = NoLeader]
  /\ UNCHANGED <<vars, table, led>>

(* The election goes on beside it. *)
ElectionStep ==
  /\ \/ \E n \in Node : TaskStep(n) \/ Start(n)
     \/ \E n, h \in Node : Election(n, h) \/ Coordinator(n, h)
  /\ led' = [n \in Node |-> led[n] \/ leader'[n] = n]
  /\ UNCHANGED <<table, server>>

(* The locks of the process and the connections to it are gone. *)
Severed_None(n) == server
Severed(n) == [c \in Client |-> IF server[c] = n THEN NoLeader ELSE server[c]]

CrashNode(n) ==
  /\ Crash(n)
  /\ table' = [table EXCEPT ![n] = {}]
  /\ server' = Severed(n)
  /\ led' = [led EXCEPT ![n] = FALSE]

LockNext ==
  \/ ElectionStep
  \/ \E n \in Node : CrashNode(n)
  \/ \E c \in Client :
       \/ \E n \in Node : FindLeader(c, n)
       \/ \E r \in Resource : DAGLock(c, r) \/ DAGUnlock(c, r)
       \/ DAGReset(c) \/ Disconnect(c)

LockSpec == LockInit /\ [][LockNext]_allVars
LockMonitorSpec == LockSpec /\ MonitorFairness
LockFairSpec == LockSpec /\ Fairness

-----------------------------------------------------------------------------
(* A node locks are taken at, or are about to be. *)
InUse(n) == up[n] /\ (table[n] # {} \/ \E c \in Client : server[c] = n)

(* README.md:199, "The leader node maintains a global Wait-For Graph": as  *)
(* long as nodes only crash and calls are prompt, all locks and all        *)
(* clients are at one running node, also when the leader changes between   *)
(* findLeader and the calls that follow.                                   *)
OneTable == \A m, n \in Node : InUse(m) /\ InUse(n) => m = n

(* Whatever crashes, starts and delays happen, locks are only at processes *)
(* that led at some time since they started.  That they lead now is not    *)
(* what the code ensures, see the next property.                           *)
LocksWhereLed == \A n \in Node : table[n] # {} => up[n] /\ led[n]

(* rpc_handlers.go:509, "DAGLock handles resource lock request (only works *)
(* on leader)": a lock is only granted by a node that says it leads.       *)
LocksByLeader ==
  [][\A n \in Node : ~(table'[n] \subseteq table[n]) => SaysItLeads(n)]_allVars
=============================================================================
