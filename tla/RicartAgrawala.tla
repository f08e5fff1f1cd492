--------------------------- MODULE RicartAgrawala ---------------------------
(***************************************************************************)
(* The mutual exclusion manager of src/mutex/ricart_agrawala.go together   *)
(* with the RequestCS handler and the Lamport clock of src/node.           *)
(*                                                                         *)
(* A caller is one execution of the MutexPut handler on its home node.     *)
(* Everything a node keeps for mutual exclusion (RequestingCS,             *)
(* RequestTime, DeferredQueue, LamportClock) is one copy per node, shared  *)
(* by the callers of that node and by the RequestCS handlers it serves.    *)
(*                                                                         *)
(* What is abstracted: wording and logs; the order of DeferredQueue, which *)
(* ReleaseCriticalSection drains as a whole, one goroutine per entry; and  *)
(* ReplyCount, which nothing reads.  A reply is not a message of its own:  *)
(* the outcome reaches the caller when the handler decides, and the caller *)
(* may act on it as late as it likes; a reply that comes too late is the   *)
(* call that timed out before its handler ran.                             *)
(***************************************************************************)
EXTENDS Integers, FiniteSets

CONSTANTS Node,        \* node IDs, the numbers the tie-break compares
          Caller,      \* executions of MutexPut
          Home,        \* Home[c]: the node that runs caller c
          NoCaller,    \* nobody waits for the answer to this message
          MaxClock,    \* bound: no request or idle tick from this clock on
          MaxCrashes   \* bound: MaxCrashes[n] crashes of node n

ASSUME NodeAssumption == Node \subseteq Nat
ASSUME HomeAssumption == Home \in [Caller -> Node]
ASSUME NoCallerAssumption == NoCaller \notin Caller
ASSUME BoundAssumption == MaxClock \in Nat /\ MaxCrashes \in [Node -> Nat]

VARIABLES
  up,           \* the process runs
  crashes,      \* history: how often the node crashed
  clock,        \* LamportClock
  requesting,   \* RequestingCS
  requestTime,  \* RequestTime
  deferred,     \* DeferredQueue: deferred[n][p] entries of p at n
  outbox,       \* sendDeferredReply goroutines of n not yet sent, per target
  net,          \* RequestCS calls on their way
  serving,      \* RequestCS calls past UpdateClock, before MutexLock
  pc,           \* where each caller is
  req,          \* the timestamp the caller sent with its request
  outcome       \* what the caller knows of each peer

nodeVars == <<up, crashes>>
stateVars == <<requesting, requestTime, deferred, outbox>>
callVars == <<net, serving>>
callerVars == <<pc, req, outcome>>
vars == <<nodeVars, clock, stateVars, callVars, callerVars>>

-----------------------------------------------------------------------------
Message == [from : Node, to : Node, ts : Nat, caller : Caller \cup {NoCaller}]
Outcome == {"none", "pending", "granted", "deferred", "dead"}

Peers(n) == Node \ {n}
NoEntries == [p \in Node |-> 0]
NoOutcome == [p \in Node |-> "none"]

MaxOf(a, b) == IF a > b THEN a ELSE b
UpdateClock_LocalOnly(n, ts) == clock' = [clock EXCEPT ![n] = @ + 1]
UpdateClock(n, ts) == clock' = [clock EXCEPT ![n] = MaxOf(@, ts) + 1]
IncrementClock(n) == clock' = [clock EXCEPT ![n] = @ + 1]

(* The order of requests: older timestamp first, lower ID on a tie. *)
Before(t1, n1, t2, n2) == t1 < t2 \/ (t1 = t2 /\ n1 < n2)

(* The calls of callers cs to nodes ps go on, but nobody reads the answers. *)
Orphan(m) == [m EXCEPT !.caller = NoCaller]
OrphanCalls(ms, cs, ps) ==
  {IF m.caller \in cs /\ m.to \in ps THEN Orphan(m) ELSE m : m \in ms}

Answer(m, result) ==
  IF m.caller = NoCaller THEN outcome
  ELSE [outcome EXCEPT ![m.caller][m.to] = result]

CallersAt(n) == {c \in Caller : Home[c] = n}
Pending(c) == {p \in Node : outcome[c][p] = "pending"}

TypeOK ==
  /\ up \in [Node -> BOOLEAN]
  /\ crashes \in [Node -> Nat]
  /\ clock \in [Node -> Nat]
  /\ requesting \in [Node -> BOOLEAN]
  /\ requestTime \in [Node -> Nat]
  /\ deferred \in [Node -> [Node -> Nat]]
  /\ outbox \in [Node -> [Node -> Nat]]
  /\ net \subseteq Message
  /\ serving \subseteq Message
  /\ pc \in [Caller -> {"idle", "registered", "collect", "deferred", "cs"}]
  /\ req \in [Caller -> Nat]
  /\ outcome \in [Caller -> [Node -> Outcome]]

Init ==
  /\ up = [n \in Node |-> TRUE]
  /\ crashes = [n \in Node |-> 0]
  /\ clock = [n \in Node |-> 0]
  /\ requesting = [n \in Node |-> FALSE]
  /\ requestTime = [n \in Node |-> 0]
  /\ deferred = [n \in Node |-> NoEntries]
  /\ outbox = [n \in Node |-> NoEntries]
  /\ net = {}
  /\ serving = {}
  /\ pc = [c \in Caller |-> "idle"]
  /\ req = [c \in Caller |-> 0]
  /\ outcome = [c \in Caller |-> NoOutcome]

-----------------------------------------------------------------------------
(* The caller: RequestCriticalSection, in the steps others can see.        *)

(* Under MutexLock: raise the flag and take a new timestamp. *)
RequestCriticalSection(c) ==
  LET n == Home[c] IN
  /\ pc[c] = "idle"
  /\ up[n]
  /\ clock[n] < MaxClock
  /\ IncrementClock(n)
  /\ requesting' = [requesting EXCEPT ![n] = TRUE]
  /\ requestTime' = [requestTime EXCEPT ![n] = clock[n] + 1]
  /\ pc' = [pc EXCEPT ![c] = "registered"]
  /\ UNCHANGED <<nodeVars, deferred, outbox, callVars, req, outcome>>

(* Outside the lock: read the shared RequestTime (another caller of the    *)
(* node may have replaced it) and start one call per peer.  With no peer   *)
(* nothing is pending and Conclude enters.                                 *)
SendRequests(c) ==
  LET n == Home[c] IN
  /\ pc[c] = "registered"
  /\ req' = [req EXCEPT ![c] = requestTime[n]]
  /\ net' = net \cup
       {[from |-> n, to |-> p, ts |-> requestTime[n], caller |-> c] : p \in Peers(n)}
  /\ outcome' = [outcome EXCEPT ![c] =
                   [p \in Node |-> IF p = n THEN "none" ELSE "pending"]]
  /\ pc' = [pc EXCEPT ![c] = "collect"]
  /\ UNCHANGED <<nodeVars, clock, stateVars, serving>>

(* One call of sendCSRequest exceeds its timeout: the peer counts as dead. *)
CallTimeout(c, p) ==
  /\ pc[c] = "collect"
  /\ outcome[c][p] = "pending"
  /\ outcome' = [outcome EXCEPT ![c][p] = "dead"]
  /\ net' = OrphanCalls(net, {c}, {p})
  /\ serving' = OrphanCalls(serving, {c}, {p})
  /\ UNCHANGED <<nodeVars, clock, stateVars, pc, req>>

(* granted + dead >= expected. *)
CanEnter(c) ==
  \A p \in Peers(Home[c]) : outcome[c][p] \in {"granted", "dead"}

(* Every call has returned: enter, or wait for the deferred replies. *)
Conclude(c) ==
  /\ pc[c] = "collect"
  /\ Pending(c) = {}
  /\ pc' = [pc EXCEPT ![c] = IF CanEnter(c) THEN "cs" ELSE "deferred"]
  /\ UNCHANGED <<nodeVars, clock, stateVars, callVars, req, outcome>>

(* The overall timeout fires while some call, blocked in Dial, is out. *)
OverallTimeout(c) ==
  /\ pc[c] = "collect"
  /\ Pending(c) # {}
  /\ pc' = [pc EXCEPT ![c] = "deferred"]
  /\ net' = OrphanCalls(net, {c}, Node)
  /\ serving' = OrphanCalls(serving, {c}, Node)
  /\ UNCHANGED <<nodeVars, clock, stateVars, req, outcome>>

(* waitForDeferredReplies: nothing is awaited but the timer. *)
WaitEnds_WhenGranted(c) == pc[c] = "deferred" /\ CanEnter(c)
WaitEnds(c) == pc[c] = "deferred"
ForceEntry(c) ==
  /\ WaitEnds(c)
  /\ pc' = [pc EXCEPT ![c] = "cs"]
  /\ UNCHANGED <<nodeVars, clock, stateVars, callVars, req, outcome>>

(* Under MutexLock: lower the flag and take the queue; one goroutine per   *)
(* entry then sends.  The release notifications only move clocks and are   *)
(* part of OtherTraffic.                                                   *)
QueueAfterRelease_Kept(n) == deferred[n]
QueueAfterRelease(n) == NoEntries
ReleaseCriticalSection(c) ==
  LET n == Home[c] IN
  /\ pc[c] = "cs"
  /\ requesting' = [requesting EXCEPT ![n] = FALSE]
  /\ outbox' = [outbox EXCEPT ![n] = [p \in Node |-> @[p] + deferred[n][p]]]
  /\ deferred' = [deferred EXCEPT ![n] = QueueAfterRelease(n)]
  /\ pc' = [pc EXCEPT ![c] = "idle"]
  /\ req' = [req EXCEPT ![c] = 0]
  /\ outcome' = [outcome EXCEPT ![c] = NoOutcome]
  /\ UNCHANGED <<nodeVars, clock, requestTime, callVars>>

(* The "deferred reply" is a new RequestCS call with a fresh timestamp; it *)
(* is dropped when the target cannot be dialled.                           *)
HasReplyFor_OffByOne(n, p) == outbox[n][p] >= 0
HasReplyFor(n, p) == outbox[n][p] > 0
SendDeferredReply(n, p) ==
  /\ up[n]
  /\ HasReplyFor(n, p)
  /\ outbox' = [outbox EXCEPT ![n][p] = @ - 1]
  /\ \/ /\ up[p]
        /\ IncrementClock(n)
        /\ net' = net \cup
             {[from |-> n, to |-> p, ts |-> clock[n] + 1, caller |-> NoCaller]}
     \/ ~up[p] /\ UNCHANGED <<clock, net>>
  /\ UNCHANGED <<nodeVars, requesting, requestTime, deferred, serving, callerVars>>

-----------------------------------------------------------------------------
(* The RequestCS handler.                                                  *)

(* UpdateClock, before the handler takes MutexLock. *)
Receive(m) ==
  /\ m \in net
  /\ up[m.to]
  /\ UpdateClock(m.to, m.ts)
  /\ net' = net \ {m}
  /\ serving' = serving \cup {m}
  /\ UNCHANGED <<nodeVars, stateVars, callerVars>>

(* Nobody listens, or the connection broke: the caller sees an error. *)
Refused(m) ==
  /\ m \in net
  /\ ~up[m.to]
  /\ net' = net \ {m}
  /\ outcome' = Answer(m, "dead")
  /\ UNCHANGED <<nodeVars, clock, stateVars, serving, pc, req>>

ShouldDefer_NoTieBreak(n, m) == requesting[n] /\ m.ts > requestTime[n]
ShouldDefer(n, m) ==
  requesting[n] /\ Before(requestTime[n], n, m.ts, m.from)

(* Under MutexLock: defer the request or grant it. *)
RequestCS(m) ==
  LET n == m.to IN
  /\ m \in serving
  /\ serving' = serving \ {m}
  /\ \/ /\ ShouldDefer(n, m)
        /\ deferred' = [deferred EXCEPT ![n][m.from] = @ + 1]
        /\ outcome' = Answer(m, "deferred")
     \/ /\ ~ShouldDefer(n, m)
        /\ outcome' = Answer(m, "granted")
        /\ UNCHANGED deferred
  /\ UNCHANGED <<nodeVars, clock, requesting, requestTime, outbox, net, pc, req>>

-----------------------------------------------------------------------------
(* Everything else that moves the clock: heartbeats, elections, Put, Get,  *)
(* the release notifications, the UpdateClock of MutexPut itself.  A jump  *)
(* is a sequence of these.                                                 *)
OtherTraffic(n) ==
  /\ up[n]
  /\ clock[n] < MaxClock
  /\ IncrementClock(n)
  /\ UNCHANGED <<nodeVars, stateVars, callVars, callerVars>>

(* The process dies: its memory and callers are gone, the calls it served  *)
(* break, the calls it made may or may not still arrive.                   *)
Crash(n) ==
  /\ up[n]
  /\ crashes[n] < MaxCrashes[n]
  /\ up' = [up EXCEPT ![n] = FALSE]
  /\ crashes' = [crashes EXCEPT ![n] = @ + 1]
  /\ clock' = [clock EXCEPT ![n] = 0]
  /\ requesting' = [requesting EXCEPT ![n] = FALSE]
  /\ requestTime' = [requestTime EXCEPT ![n] = 0]
  /\ deferred' = [deferred EXCEPT ![n] = NoEntries]
  /\ outbox' = [outbox EXCEPT ![n] = NoEntries]
  /\ \E lost \in SUBSET {m \in net : m.from = n} :
        net' = OrphanCalls(net \ lost, CallersAt(n), Node)
  /\ serving' = OrphanCalls({m \in serving : m.to # n}, CallersAt(n), Node)
  /\ pc' = [c \in Caller |-> IF Home[c] = n THEN "idle" ELSE pc[c]]
  /\ req' = [c \in Caller |-> IF Home[c] = n THEN 0 ELSE req[c]]
  /\ outcome' = [c \in Caller |->
       IF Home[c] = n THEN NoOutcome
       ELSE [p \in Node |->
               IF p = n /\ \E m \in serving : m.caller = c /\ m.to = n
               THEN "dead" ELSE outcome[c][p]]]

(* The process starts again from NewNode: nothing was persisted. *)
Restart(n) ==
  /\ ~up[n]
  /\ up' = [up EXCEPT ![n] = TRUE]
  /\ UNCHANGED <<crashes, clock, stateVars, callVars, callerVars>>

CallerStep(c) ==
  \/ SendRequests(c)
  \/ \E p \in Node : CallTimeout(c, p)
  \/ Conclude(c)
  \/ OverallTimeout(c)
  \/ ForceEntry(c)

Network ==
  \/ \E m \in net : Receive(m) \/ Refused(m)
  \/ \E m \in serving : RequestCS(m)

Environment(n) == OtherTraffic(n) \/ Crash(n) \/ Restart(n)

Next ==
  \/ \E c \in Caller :
       RequestCriticalSection(c) \/ CallerStep(c) \/ ReleaseCriticalSection(c)
  \/ \E n, p \in Node : SendDeferredReply(n, p)
  \/ Network
  \/ \E n \in Node : Environment(n)

Spec == Init /\ [][Next]_vars

-----------------------------------------------------------------------------
Active(c) == pc[c] \in {"registered", "collect", "deferred", "cs"}
HasGrant(c, p) == pc[c] \in {"collect", "deferred", "cs"} /\ outcome[c][p] = "granted"
Never(n) == crashes[n] = 0

(* Two callers whose nodes granted each other are never both in the        *)
(* critical section (neither node having crashed).  This is what the       *)
(* timestamps of RequestCS and the clock rules are for.                    *)
GrantedExclusion ==
  \A c, d \in Caller :
    /\ Home[c] # Home[d]
    /\ Never(Home[c]) /\ Never(Home[d])
    /\ HasGrant(c, Home[d]) /\ HasGrant(d, Home[c])
    => ~(pc[c] = "cs" /\ pc[d] = "cs")

(* A node gives a grant only to a request older than its own: as long as   *)
(* both are active the requester it granted comes first, so that nobody    *)
(* is overtaken except by a timeout.                                       *)
GrantsFollowRequestOrder ==
  \A c, d \in Caller :
    /\ Home[c] # Home[d]
    /\ Never(Home[d])
    /\ HasGrant(c, Home[d]) /\ Active(d)
    => Before(req[c], Home[c], requestTime[Home[d]], Home[d])

(* Nobody is parked at a node that is not itself requesting: there would   *)
(* be no release to answer the entry.                                      *)
QueueOnlyWhileRequesting ==
  \A n, p \in Node : deferred[n][p] > 0 => requesting[n]

(* Every call to MutexPut returns, whatever becomes of the requests it     *)
(* sent: lost, late, deferred, or the peer gone.  (The writes made inside  *)
(* have no timeout; that they come back is assumed, see MutexPut.)         *)
EveryCallReturns == \A c \in Caller : pc[c] # "idle" ~> pc[c] = "idle"

(* Every deferred entry is eventually taken from the queue. *)
QueueDrains == \A n, p \in Node : deferred[n][p] > 0 ~> deferred[n][p] = 0

(* README.md:161, "Ensures that only ONE node can write data at a time".   *)
(* It cannot hold as long as a timeout counts as a grant (README.md:97);   *)
(* the properties below ask for less.                                      *)
MutualExclusion ==
  \A c, d \in Caller :
    Home[c] # Home[d] => ~(pc[c] = "cs" /\ pc[d] = "cs")

(* Every peer answered the request in time, by a grant or by deferring it. *)
Answered(c) == \A p \in Peers(Home[c]) : outcome[c][p] \in {"granted", "deferred"}

(* README.md:172: a node enters "Once ALL alive nodes grant", so that two  *)
(* callers of different nodes whose peers are alive and all answered in    *)
(* time are never both in the critical section.                            *)
AnsweredExclusion ==
  \A c, d \in Caller :
    Home[c] # Home[d] /\ Answered(c) /\ Answered(d) => ~(pc[c] = "cs" /\ pc[d] = "cs")

(* README.md:161 and 172 again, for callers that have the grant of each    *)
(* other's node: the exception of GrantedExclusion for crashed nodes, and  *)
(* the restriction of its run to one caller at a node, are left out.       *)
GrantsExclude ==
  \A c, d \in Caller :
    Home[c] # Home[d] /\ HasGrant(c, Home[d]) /\ HasGrant(d, Home[c])
    => ~(pc[c] = "cs" /\ pc[d] = "cs")

(* The same for callers whose request is the one their node compares with. *)
Current(c) == req[c] = requestTime[Home[c]]
CurrentGrantsExclude ==
  \A c, d \in Caller :
    /\ Home[c] # Home[d] /\ Current(c) /\ Current(d)
    /\ HasGrant(c, Home[d]) /\ HasGrant(d, Home[c])
    => ~(pc[c] = "cs" /\ pc[d] = "cs")

(* README.md:176: writes of several clients are ordered, also on one node. *)
ClientExclusion ==
  \A c, d \in Caller : c # d /\ Home[c] = Home[d] => ~(pc[c] = "cs" /\ pc[d] = "cs")
=============================================================================
