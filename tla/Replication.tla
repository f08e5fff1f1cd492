---------------------------- MODULE Replication ----------------------------
(***************************************************************************)
(* Storage of one key: the Put and Delete handlers of                      *)
(* src/node/rpc_handlers.go with their replication, and the client's put,  *)
(* delete and quorum-get with read repair (src/client/client.go).          *)
(*                                                                         *)
(* A stored item is its Timestamp, which the client took from its clock    *)
(* and which no two puts share; a node without the key holds Absent.  A    *)
(* client runs one command at a time.  The order in which a Put reaches    *)
(* the replicas depends on the key's place on the ring, and is left open.  *)
(* Between running nodes calls succeed; a node that is down cannot be      *)
(* dialled.  Get by itself reads and changes nothing.                      *)
(***************************************************************************)
EXTENDS Integers, FiniteSets

CONSTANTS Node,
          Copies,         \* where Put replicates to: the owners, or all nodes
          First, Second,  \* the first two nodes of the configuration
          Client,
          Stamp,          \* timestamps of puts, in the order of client clocks
          MaxDeletes,     \* bound: successful delete commands
          MaxCrashes      \* bound: MaxCrashes[n] crashes of node n

ASSUME NodeAssumption ==
  Copies \subseteq Node /\ First \in Node /\ Second \in Node /\ First # Second
ASSUME StampAssumption == Stamp \subseteq Nat \ {0}
ASSUME BoundAssumption == MaxDeletes \in Nat /\ MaxCrashes \in [Node -> Nat]

Absent == 0   \* older than every timestamp

VARIABLES
  up,        \* the process runs
  crashes,   \* history: how often the node crashed
  store,     \* DataStore
  pc,        \* where the client's command is
  server,    \* the node that serves it
  value,     \* the timestamp written, or the one read so far
  todo,      \* replicas the Put has yet to reach
  deleting,  \* deleting[m][n]: propagateDelete goroutines of m, not yet at n
  late,      \* replica writes of servers that died
  issued,    \* timestamps used
  deletes,   \* successful delete commands so far, bounded
  acked,     \* history: some Put has returned
  alone,     \* history: the command's Put began in quiet and no write since
  tidy       \* history: since the last such Put, writes did not overlap

dataVars == <<store, deleting, late>>
commandVars == <<pc, server, value, todo>>
historyVars == <<issued, deletes, acked, alone, tidy>>
vars == <<up, crashes, dataVars, commandVars, historyVars>>

-----------------------------------------------------------------------------
Version == Stamp \cup {Absent}
Write == [to : Node, value : Version]

Never(n) == crashes[n] = 0
Writing(c) == pc[c] = "put"

(* No write, replication or propagated delete is under way. *)
Quiet ==
  /\ \A c \in Client : ~Writing(c)
  /\ \A m, n \in Node : deleting[m][n] = 0
  /\ late = {}

TypeOK ==
  /\ up \in [Node -> BOOLEAN]
  /\ crashes \in [Node -> Nat]
  /\ store \in [Node -> Version]
  /\ pc \in [Client -> {"idle", "second", "repair", "put"}]
  /\ server \in [Client -> Node]
  /\ value \in [Client -> Version]
  /\ todo \in [Client -> SUBSET Node]
  /\ deleting \in [Node -> [Node -> Nat]]
  /\ late \subseteq Write
  /\ issued \subseteq Stamp
  /\ deletes \in Nat
  /\ acked \in BOOLEAN
  /\ alone \in [Client -> BOOLEAN]
  /\ tidy \in BOOLEAN

Init ==
  /\ up = [n \in Node |-> TRUE]
  /\ crashes = [n \in Node |-> 0]
  /\ store = [n \in Node |-> Absent]
  /\ pc = [c \in Client |-> "idle"]
  /\ server = [c \in Client |-> First]
  /\ value = [c \in Client |-> Absent]
  /\ todo = [c \in Client |-> {}]
  /\ deleting = [m \in Node |-> [n \in Node |-> 0]]
  /\ late = {}
  /\ issued = {}
  /\ deletes = 0
  /\ acked = FALSE
  /\ alone = [c \in Client |-> FALSE]
  /\ tidy = TRUE

-----------------------------------------------------------------------------
(* A command that ends leaves its local variables behind. *)
End(c) ==
  /\ pc' = [pc EXCEPT ![c] = "idle"]
  /\ server' = [server EXCEPT ![c] = First]
  /\ value' = [value EXCEPT ![c] = Absent]

(* Whom a node replicates to: the owners (or all nodes) but itself. *)
Targets(n) == Copies \ {n}

(* The Put handler of n up to the replication: overwrite, whatever is      *)
(* there.                                                                  *)
BeginPut(c, n, s) ==
  /\ up[n]
  /\ store' = [store EXCEPT ![n] = s]
  /\ pc' = [pc EXCEPT ![c] = "put"]
  /\ server' = [server EXCEPT ![c] = n]
  /\ value' = [value EXCEPT ![c] = s]
  /\ todo' = [todo EXCEPT ![c] = Targets(n)]
  /\ alone' = [d \in Client |-> d = c /\ Quiet]
  /\ tidy' = (tidy /\ Quiet)
  /\ UNCHANGED <<up, crashes, deleting, late, deletes, acked>>

Put(c, n, s) ==
  /\ pc[c] = "idle"
  /\ s \notin issued
  /\ issued' = issued \cup {s}
  /\ BeginPut(c, n, s)

(* One round of replicateToPartitionNodes: the replica stores the item, or *)
(* cannot be reached and is skipped.  (The code skips it on any error of   *)
(* Dial or Call; calls between running nodes are assumed to succeed.)      *)
Skips(p) == ~up[p]

Replicate(c, p) ==
  /\ Writing(c) /\ p \in todo[c]
  /\ \/ up[p] /\ store' = [store EXCEPT ![p] = value[c]]
     \/ Skips(p) /\ UNCHANGED store
  /\ todo' = [todo EXCEPT ![c] = @ \ {p}]
  /\ UNCHANGED <<up, crashes, deleting, late, pc, server, value, historyVars>>

Replicated_Quorum(c) == Cardinality(todo[c]) <= 1
Replicated(c) == todo[c] = {}

(* The Put returns; so does the command, a repair having at most one. *)
Return(c) ==
  /\ Writing(c) /\ Replicated(c)
  /\ End(c)
  /\ todo' = [todo EXCEPT ![c] = {}]
  /\ acked' = TRUE
  /\ alone' = [alone EXCEPT ![c] = FALSE]
  /\ tidy' = (tidy \/ alone[c])
  /\ UNCHANGED <<up, crashes, dataVars, issued, deletes>>

-----------------------------------------------------------------------------
(* The Delete handler of n for a client.  If n has the key it is removed,  *)
(* a goroutine per target is started, and the command returns at once;     *)
(* otherwise nothing happens.                                              *)
Delete(n) ==
  /\ up[n]
  /\ store[n] # Absent
  /\ deletes < MaxDeletes
  /\ deletes' = deletes + 1
  /\ store' = [store EXCEPT ![n] = Absent]
  /\ deleting' = [deleting EXCEPT ![n] =
                    [p \in Node |-> IF p \in Targets(n) THEN @[p] + 1 ELSE @[p]]]
  /\ alone' = [d \in Client |-> FALSE]
  /\ tidy' = (tidy /\ Quiet)
  /\ UNCHANGED <<up, crashes, late, commandVars, issued, acked>>

(* A propagated delete arrives, whatever the replica holds by then; a      *)
(* replica that is down does not get it.                                   *)
Spawned_OffByOne(m, n) == deleting[m][n] >= 0
Spawned(m, n) == deleting[m][n] > 0

PropagateDelete(m, n) ==
  /\ Spawned(m, n)
  /\ deleting' = [deleting EXCEPT ![m][n] = @ - 1]
  /\ \/ up[n] /\ store' = [store EXCEPT ![n] = Absent]
     \/ ~up[n] /\ UNCHANGED store
  /\ UNCHANGED <<up, crashes, late, commandVars, historyVars>>

-----------------------------------------------------------------------------
(* quorum-get: a Get at each of the first two nodes, one after the other.  *)
(* A failed call ends the command.                                         *)
ReadFirst(c) ==
  /\ pc[c] = "idle" /\ up[First]
  /\ value' = [value EXCEPT ![c] = store[First]]
  /\ pc' = [pc EXCEPT ![c] = "second"]
  /\ UNCHANGED <<up, crashes, dataVars, server, todo, historyVars>>

(* Nothing to repair: the second node fails to answer, or both agree. *)
ReadEnds(c) == up[Second] => value[c] = store[Second]

(* The later timestamp is selected; the node that returned an older one,   *)
(* or none, is to be repaired.                                             *)
ReadSecond(c) ==
  /\ pc[c] = "second"
  /\ \/ /\ up[Second] /\ value[c] # store[Second]
        /\ pc' = [pc EXCEPT ![c] = "repair"]
        /\ IF value[c] < store[Second]
           THEN /\ server' = [server EXCEPT ![c] = First]
                /\ value' = [value EXCEPT ![c] = store[Second]]
           ELSE /\ server' = [server EXCEPT ![c] = Second]
                /\ UNCHANGED value
     \/ ReadEnds(c) /\ End(c)
  /\ UNCHANGED <<up, crashes, dataVars, todo, historyVars>>

(* The repair is a Put like any other, replication included. *)
Repair(c) ==
  /\ pc[c] = "repair"
  /\ \/ BeginPut(c, server[c], value[c])
     \/ /\ ~up[server[c]]
        /\ End(c)
        /\ UNCHANGED <<up, crashes, dataVars, todo, deletes, acked, alone, tidy>>
  /\ UNCHANGED issued

-----------------------------------------------------------------------------
ServedBy(n) == {c \in Client : Writing(c) /\ server[c] = n}

(* A process dies: its data is gone, the commands it served fail, and what *)
(* it was sending may or may not still arrive.                             *)
Crash(n) ==
  /\ up[n]
  /\ crashes[n] < MaxCrashes[n]
  /\ up' = [up EXCEPT ![n] = FALSE]
  /\ crashes' = [crashes EXCEPT ![n] = @ + 1]
  /\ store' = [store EXCEPT ![n] = Absent]
  /\ \E to \in [Client -> Node] :
        late' = late \cup {[to |-> to[c], value |-> value[c]] :
                             c \in {d \in ServedBy(n) : to[d] \in todo[d]}}
  /\ \E lost \in SUBSET {p \in Node : deleting[n][p] > 0} :
        deleting' = [deleting EXCEPT ![n] = [p \in Node |-> IF p \in lost THEN 0 ELSE @[p]]]
  /\ pc' = [c \in Client |-> IF c \in ServedBy(n) THEN "idle" ELSE pc[c]]
  /\ server' = [c \in Client |-> IF c \in ServedBy(n) THEN First ELSE server[c]]
  /\ value' = [c \in Client |-> IF c \in ServedBy(n) THEN Absent ELSE value[c]]
  /\ todo' = [c \in Client |-> IF c \in ServedBy(n) THEN {} ELSE todo[c]]
  /\ alone' = [c \in Client |-> alone[c] /\ c \notin ServedBy(n)]
  /\ tidy' = (tidy /\ ServedBy(n) = {} /\ \A p \in Node : deleting[n][p] = 0)
  /\ UNCHANGED <<issued, deletes, acked>>

(* The write a dead server was sending arrives, or does not. *)
LateWrite(w) ==
  /\ w \in late
  /\ late' = late \ {w}
  /\ \/ up[w.to] /\ store' = [store EXCEPT ![w.to] = w.value]
     \/ UNCHANGED store
  /\ UNCHANGED <<up, crashes, deleting, commandVars, historyVars>>

(* The process starts again, with an empty DataStore. *)
Restart(n) ==
  /\ ~up[n]
  /\ up' = [up EXCEPT ![n] = TRUE]
  /\ UNCHANGED <<crashes, dataVars, commandVars, historyVars>>

CommandStep(c) ==
  \/ \E p \in Node : Replicate(c, p)
  \/ Return(c)
  \/ ReadSecond(c)
  \/ Repair(c)

Next ==
  \/ \E c \in Client :
       \/ \E n \in Node, s \in Stamp : Put(c, n, s)
       \/ ReadFirst(c)
       \/ CommandStep(c)
  \/ \E n \in Node : Delete(n) \/ Crash(n) \/ Restart(n)
  \/ \E m, n \in Node : PropagateDelete(m, n)
  \/ \E w \in late : LateWrite(w)

Spec == Init /\ [][Next]_vars

(* A command that was issued goes on, and the goroutines of a delete run.  *)
FairSpec ==
  /\ Spec
  /\ \A c \in Client : WF_vars(CommandStep(c))
  /\ \A m, n \in Node : WF_vars(PropagateDelete(m, n))

-----------------------------------------------------------------------------
(* In quiet, the replicas that never crashed agree, unless writes have     *)
(* overlapped or a server died; and one write that runs by itself, a put   *)
(* or a repair, makes up for whatever happened before it.                  *)
Agreement ==
  Quiet /\ tidy =>
    \A m, n \in Copies : Never(m) /\ Never(n) => store[m] = store[n]

(* Once a put has returned, no replica that never crashed is without the   *)
(* key, however puts, repairs and crashes interleave; only deletes remove. *)
NeverLost ==
  acked /\ deletes = 0 =>
    \A n \in Copies : Never(n) => store[n] # Absent

(* Every command returns, given that the calls it makes do: no answer is   *)
(* awaited from a node that is down, in a put, a read or a repair.         *)
(* PARTITIONING.md:146 promises otherwise for a put, see below.            *)
CommandsReturn == \A c \in Client : pc[c] # "idle" ~> pc[c] = "idle"

(* PARTITIONING.md:146: a put is to "Return when all replicas acknowledge" *)
(* so that one which has yet to reach a replica that is down does not      *)
(* return before that replica is back.  (A replica that crashes at most    *)
(* once is not down again later.)                                          *)
ReturnsWhenAllAcknowledge ==
  \A c \in Client, p \in Node :
    [](Writing(c) /\ p \in todo[c] /\ ~up[p] => [](Writing(c) \/ up[p]))

(* README.md:502: "If one node has an older or missing value, it will      *)
(* automatically repair that node": a repair never overwrites a newer one. *)
RepairsOnlyOlder ==
  [][\A c \in Client : pc[c] = "repair" /\ pc'[c] = "put" =>
                         store[server[c]] <= value[c]]_vars
=============================================================================
