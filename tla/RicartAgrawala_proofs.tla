------------------------ MODULE RicartAgrawala_proofs ------------------------
(***************************************************************************)
(* Theorems about RicartAgrawala for every set of nodes and callers: type  *)
(* correctness, and the exclusion that grants give when every node runs at *)
(* most one MutexPut at a time.                                            *)
(***************************************************************************)
EXTENDS RicartAgrawala, TLAPS

USE HomeAssumption

(* No two callers share a node. *)
OneCallerPerNode == \A c, d \in Caller : Home[c] = Home[d] => c = d

-----------------------------------------------------------------------------
(* Orphaning keeps a call's route and timestamp, and leaves a caller on a  *)
(* call only if it was there and is not among those that gave up.          *)
LEMMA OrphanCallsFacts ==
  ASSUME NEW ms \in SUBSET Message, NEW cs, NEW ps
  PROVE  /\ OrphanCalls(ms, cs, ps) \subseteq Message
         /\ \A m \in OrphanCalls(ms, cs, ps) :
              /\ m.caller # NoCaller =>
                   m \in ms /\ ~(m.caller \in cs /\ m.to \in ps)
              /\ \E o \in ms : o.to = m.to /\ o.ts = m.ts
<1>1. ASSUME NEW o \in ms
      PROVE  /\ Orphan(o) \in Message
             /\ Orphan(o).caller = NoCaller
             /\ Orphan(o).to = o.to /\ Orphan(o).ts = o.ts
  BY DEF Message, Orphan
<1>2. QED
  BY <1>1 DEF OrphanCalls

(* The invariant TypeOK holds initially and is kept by every step. *)
LEMMA TypeInit == Init => TypeOK
  BY DEF Init, TypeOK, NoEntries, NoOutcome, Outcome

(* An answer is recorded as one of the outcomes. *)
LEMMA AnswerType ==
  ASSUME TypeOK, NEW m \in Message, NEW r \in Outcome
  PROVE  Answer(m, r) \in [Caller -> [Node -> Outcome]]
  BY DEF TypeOK, Answer, Message

LEMMA TypeNext == TypeOK /\ [Next]_vars => TypeOK'
<1> SUFFICES ASSUME TypeOK, [Next]_vars PROVE TypeOK'
  OBVIOUS
<1> USE DEF TypeOK
<1>1. ASSUME NEW c \in Caller, RequestCriticalSection(c) PROVE TypeOK'
  <2> DEFINE n == Home[c]
  <2>1. n \in Node /\ clock[n] + 1 \in Nat
    OBVIOUS
  <2>2. /\ clock' = [clock EXCEPT ![n] = clock[n] + 1]
        /\ requesting' = [requesting EXCEPT ![n] = TRUE]
        /\ requestTime' = [requestTime EXCEPT ![n] = clock[n] + 1]
        /\ pc' = [pc EXCEPT ![c] = "registered"]
        /\ UNCHANGED <<nodeVars, deferred, outbox, callVars, req, outcome>>
    BY <1>1 DEF RequestCriticalSection, IncrementClock
  <2>3. /\ clock' \in [Node -> Nat]
        /\ requesting' \in [Node -> BOOLEAN]
        /\ requestTime' \in [Node -> Nat]
    BY <2>1, <2>2
  <2>4. pc' \in [Caller -> {"idle", "registered", "collect", "deferred", "cs"}]
    BY <2>2
  <2>5. QED
    BY <2>2, <2>3, <2>4 DEF nodeVars, callVars
<1>2. ASSUME NEW c \in Caller, SendRequests(c) PROVE TypeOK'
  <2> DEFINE n == Home[c]
  <2>1. {[from |-> n, to |-> p, ts |-> requestTime[n], caller |-> c] : p \in Peers(n)}
          \subseteq Message
    BY DEF Message, Peers
  <2>2. net' \subseteq Message
    BY <1>2, <2>1 DEF SendRequests
  <2>3. [p \in Node |-> IF p = n THEN "none" ELSE "pending"] \in [Node -> Outcome]
    BY DEF Outcome
  <2>4. outcome' \in [Caller -> [Node -> Outcome]]
    BY <1>2, <2>3 DEF SendRequests
  <2>5. QED
    BY <1>2, <2>2, <2>4 DEF SendRequests, nodeVars, stateVars
<1>3. ASSUME NEW c \in Caller, NEW p \in Node, CallTimeout(c, p) PROVE TypeOK'
  <2>1. net' \subseteq Message /\ serving' \subseteq Message
    BY <1>3, OrphanCallsFacts DEF CallTimeout
  <2>2. outcome' \in [Caller -> [Node -> Outcome]]
    BY <1>3 DEF CallTimeout, Outcome
  <2>3. QED
    BY <1>3, <2>1, <2>2 DEF CallTimeout, nodeVars, stateVars
<1>4. ASSUME NEW c \in Caller, Conclude(c) PROVE TypeOK'
  BY <1>4 DEF Conclude, nodeVars, stateVars, callVars
<1>5. ASSUME NEW c \in Caller, OverallTimeout(c) PROVE TypeOK'
  <2>1. net' \subseteq Message /\ serving' \subseteq Message
    BY <1>5, OrphanCallsFacts DEF OverallTimeout
  <2>2. QED
    BY <1>5, <2>1 DEF OverallTimeout, nodeVars, stateVars
<1>6. ASSUME NEW c \in Caller, ForceEntry(c) PROVE TypeOK'
  BY <1>6 DEF ForceEntry, nodeVars, stateVars, callVars
<1>7. ASSUME NEW c \in Caller, ReleaseCriticalSection(c) PROVE TypeOK'
  <2> DEFINE n == Home[c]
  <2>1. NoOutcome \in [Node -> Outcome] /\ NoEntries \in [Node -> Nat]
    BY DEF NoOutcome, Outcome, NoEntries
  <2>2. [p \in Node |-> outbox[n][p] + deferred[n][p]] \in [Node -> Nat]
    OBVIOUS
  <2>3. outbox' \in [Node -> [Node -> Nat]]
    BY <1>7, <2>2 DEF ReleaseCriticalSection
  <2>4. /\ deferred' \in [Node -> [Node -> Nat]]
        /\ outcome' \in [Caller -> [Node -> Outcome]]
    BY <1>7, <2>1 DEF ReleaseCriticalSection, QueueAfterRelease
  <2>5. QED
    BY <1>7, <2>3, <2>4 DEF ReleaseCriticalSection, nodeVars, callVars
<1>8. ASSUME NEW n \in Node, NEW p \in Node, SendDeferredReply(n, p) PROVE TypeOK'
  <2>1. outbox[n][p] - 1 \in Nat
    BY <1>8 DEF SendDeferredReply, HasReplyFor
  <2>2. outbox' \in [Node -> [Node -> Nat]]
    BY <1>8, <2>1 DEF SendDeferredReply
  <2>3. clock' \in [Node -> Nat]
    BY <1>8 DEF SendDeferredReply, IncrementClock
  <2>4. [from |-> n, to |-> p, ts |-> clock[n] + 1, caller |-> NoCaller] \in Message
    BY DEF Message
  <2>5. net' \subseteq Message
    BY <1>8, <2>4 DEF SendDeferredReply
  <2>6. QED
    BY <1>8, <2>2, <2>3, <2>5 DEF SendDeferredReply, nodeVars, callerVars
<1>9. ASSUME NEW m \in net, Receive(m) PROVE TypeOK'
  <2>1. clock' \in [Node -> Nat]
    BY <1>9 DEF Receive, UpdateClock, MaxOf, Message
  <2>2. QED
    BY <1>9, <2>1 DEF Receive, nodeVars, stateVars, callerVars
<1>10. ASSUME NEW m \in net, Refused(m) PROVE TypeOK'
  BY <1>10, AnswerType DEF Refused, Outcome, nodeVars, stateVars
<1>11. ASSUME NEW m \in serving, RequestCS(m) PROVE TypeOK'
  <2>1. outcome' \in [Caller -> [Node -> Outcome]]
    BY <1>11, AnswerType DEF RequestCS, Outcome
  <2> DEFINE n == m.to
             p == m.from
  <2>2. n \in Node /\ p \in Node /\ deferred[n][p] + 1 \in Nat
    BY DEF Message
  <2>3. deferred' \in [Node -> [Node -> Nat]]
    <3>1. \/ UNCHANGED deferred
          \/ deferred' = [deferred EXCEPT ![n] = [@ EXCEPT ![p] = deferred[n][p] + 1]]
      BY <1>11 DEF RequestCS
    <3>2. [deferred[n] EXCEPT ![p] = deferred[n][p] + 1] \in [Node -> Nat]
      BY <2>2
    <3>3. QED
      BY <2>2, <3>1, <3>2
  <2>4. QED
    BY <1>11, <2>1, <2>3 DEF RequestCS, nodeVars
<1>12. ASSUME NEW n \in Node, OtherTraffic(n) PROVE TypeOK'
  BY <1>12 DEF OtherTraffic, IncrementClock, nodeVars, stateVars, callVars, callerVars
<1>13. ASSUME NEW n \in Node, Crash(n) PROVE TypeOK'
  <2>1. NoOutcome \in [Node -> Outcome] /\ NoEntries \in [Node -> Nat]
    BY DEF NoOutcome, Outcome, NoEntries
  <2>2. net' \subseteq Message
    <3>1. PICK lost \in SUBSET {m \in net : m.from = n} :
            net' = OrphanCalls(net \ lost, CallersAt(n), Node)
      BY <1>13 DEF Crash
    <3>2. QED
      BY <3>1, OrphanCallsFacts
  <2>3. serving' \subseteq Message
    BY <1>13, OrphanCallsFacts DEF Crash
  <2>4. outcome' \in [Caller -> [Node -> Outcome]]
    BY <1>13, <2>1 DEF Crash, Outcome
  <2>5. deferred' \in [Node -> [Node -> Nat]] /\ outbox' \in [Node -> [Node -> Nat]]
    BY <1>13, <2>1 DEF Crash
  <2>6. /\ up' \in [Node -> BOOLEAN]
        /\ crashes' \in [Node -> Nat]
        /\ clock' \in [Node -> Nat]
        /\ requesting' \in [Node -> BOOLEAN]
        /\ requestTime' \in [Node -> Nat]
    BY <1>13 DEF Crash
  <2>7. /\ pc' \in [Caller -> {"idle", "registered", "collect", "deferred", "cs"}]
        /\ req' \in [Caller -> Nat]
    BY <1>13 DEF Crash
  <2>8. QED
    BY <2>2, <2>3, <2>4, <2>5, <2>6, <2>7
<1>14. ASSUME NEW n \in Node, Restart(n) PROVE TypeOK'
  BY <1>14 DEF Restart, stateVars, callVars, callerVars
<1>15. CASE UNCHANGED vars
  BY <1>15 DEF vars, nodeVars, stateVars, callVars, callerVars
<1>16. QED
  BY <1>1, <1>2, <1>3, <1>4, <1>5, <1>6, <1>7, <1>8, <1>9, <1>10, <1>11,
     <1>12, <1>13, <1>14, <1>15 DEF Next, CallerStep, Network, Environment

(* Every behaviour of the manager keeps its state well typed. *)
THEOREM TypeCorrect == Spec => []TypeOK
  BY TypeInit, TypeNext, PTL DEF Spec

-----------------------------------------------------------------------------
(* The inductive invariant behind GrantedExclusion.                        *)

Asked(c) == pc[c] \in {"collect", "deferred", "cs"}

(* A caller inside MutexPut keeps its node's flag up. *)
ActiveRequests == \A c \in Caller : pc[c] # "idle" => requesting[Home[c]]

(* The timestamp a caller sent is the one its node compares with. *)
SentTime == \A c \in Caller : Asked(c) => req[c] = requestTime[Home[c]]

(* A call somebody waits for carries that caller's request. *)
LiveCalls ==
  /\ \A m \in net \cup serving : m.caller # NoCaller =>
       /\ m.from = Home[m.caller] /\ m.from # m.to
       /\ m.ts = req[m.caller]
       /\ pc[m.caller] = "collect"
       /\ outcome[m.caller][m.to] = "pending"
  /\ \A m \in net \cap serving : m.caller = NoCaller

(* UpdateClock precedes the decision. *)
ServedTime == \A m \in serving : Never(m.to) => clock[m.to] > m.ts

(* A grant puts the node's clock, hence its own next request, behind the   *)
(* granted one; a request it already had was younger.                      *)
GrantTime ==
  \A c \in Caller, p \in Node :
    /\ Asked(c) /\ outcome[c][p] = "granted"
    /\ p # Home[c] /\ Never(p)
    => /\ clock[p] > req[c]
       /\ requesting[p] => Before(req[c], Home[c], requestTime[p], p)

IInv == TypeOK /\ ActiveRequests /\ SentTime /\ LiveCalls /\ ServedTime /\ GrantTime

LEMMA IInvInit == Init => IInv
  BY TypeInit DEF Init, IInv, ActiveRequests, SentTime, LiveCalls, ServedTime,
     GrantTime, Asked, NoOutcome

(* Steps that leave the requests, clocks, calls and outcomes of every      *)
(* caller alone, and move a caller only forward inside MutexPut.           *)
LEMMA IInvFrame ==
  ASSUME IInv, TypeOK', UNCHANGED <<crashes, clock, requesting, requestTime,
                                    net, serving, req, outcome, pc>>
  PROVE  IInv'
  BY DEF IInv, ActiveRequests, SentTime, LiveCalls, ServedTime, GrantTime,
     Asked, Never

(* Only the clocks move, and only forward. *)
LEMMA IInvClock ==
  ASSUME IInv, TypeOK',
         \A n \in Node : clock'[n] >= clock[n],
         UNCHANGED <<crashes, requesting, requestTime, serving, req, outcome, pc>>,
         \A m \in net' : m.caller # NoCaller => m \in net,
         \A m \in net' \cap serving : m.caller = NoCaller
  PROVE  IInv'
<1> USE DEF IInv
<1>1. ActiveRequests' /\ SentTime'
  BY DEF ActiveRequests, SentTime, Asked
<1>2. LiveCalls'
  BY DEF LiveCalls
<1>3. ServedTime'
  <2> SUFFICES ASSUME NEW m \in serving', Never(m.to)' PROVE clock'[m.to] > m.ts
    BY DEF ServedTime
  <2>1. m.to \in Node /\ m.ts \in Nat
    BY DEF TypeOK, Message
  <2>2. clock[m.to] > m.ts
    BY DEF ServedTime, Never
  <2>3. QED
    BY <2>1, <2>2 DEF TypeOK
<1>4. GrantTime'
  <2> SUFFICES ASSUME NEW c \in Caller, NEW p \in Node,
                      Asked(c)', outcome'[c][p] = "granted",
                      p # Home[c], Never(p)'
               PROVE  /\ clock'[p] > req'[c]
                      /\ requesting'[p] =>
                           Before(req'[c], Home[c], requestTime'[p], p)
    BY DEF GrantTime, Before
  <2>1. /\ clock[p] > req[c]
        /\ requesting[p] => Before(req[c], Home[c], requestTime[p], p)
    BY DEF GrantTime, Asked, Never
  <2>2. QED
    BY <2>1 DEF TypeOK
<1>5. QED
  BY <1>1, <1>2, <1>3, <1>4

(* Giving up on some calls: the orphaned calls have no caller to protect.  *)
LEMMA IInvOrphan ==
  ASSUME IInv, TypeOK', NEW cs, NEW ps,
         UNCHANGED <<crashes, clock, requesting, requestTime, req>>,
         net' = OrphanCalls(net, cs, ps),
         serving' = OrphanCalls(serving, cs, ps),
         \A c \in Caller : pc'[c] = pc[c] \/ (pc[c] = "collect" /\ pc'[c] = "deferred"
                                              /\ c \in cs /\ ps = Node),
         \A c \in Caller, p \in Node :
            outcome'[c][p] = outcome[c][p]
              \/ (c \in cs /\ p \in ps /\ outcome'[c][p] = "dead")
  PROVE  IInv'
<1> USE DEF IInv
<1>1. ActiveRequests' /\ SentTime'
  BY DEF ActiveRequests, SentTime, Asked
<1>0. net \subseteq Message /\ serving \subseteq Message
  BY DEF TypeOK
<1>a. /\ \A m \in net' : m.caller # NoCaller =>
              m \in net /\ ~(m.caller \in cs /\ m.to \in ps)
      /\ \A m \in serving' : m.caller # NoCaller =>
              m \in serving /\ ~(m.caller \in cs /\ m.to \in ps)
      /\ \A m \in serving' : \E o \in serving : o.to = m.to /\ o.ts = m.ts
  BY <1>0, OrphanCallsFacts
<1>2. LiveCalls'
  <2>1. ASSUME NEW m \in net' \cup serving', m.caller # NoCaller
        PROVE  /\ m.from = Home[m.caller] /\ m.from # m.to
               /\ m.ts = req'[m.caller]
               /\ pc'[m.caller] = "collect"
               /\ outcome'[m.caller][m.to] = "pending"
    <3>1. m \in net \cup serving /\ ~(m.caller \in cs /\ m.to \in ps)
      BY <2>1, <1>a
    <3>2. m.caller \in Caller /\ m.to \in Node
      BY <2>1, <3>1, <1>0 DEF Message
    <3>3. /\ m.from = Home[m.caller] /\ m.from # m.to
          /\ m.ts = req[m.caller]
          /\ pc[m.caller] = "collect"
          /\ outcome[m.caller][m.to] = "pending"
      BY <2>1, <3>1 DEF LiveCalls
    <3>4. QED
      BY <3>1, <3>2, <3>3
  <2>2. \A m \in net' \cap serving' : m.caller = NoCaller
    BY <1>a DEF LiveCalls
  <2>3. QED
    BY <2>1, <2>2 DEF LiveCalls
<1>3. ServedTime'
  BY <1>a DEF ServedTime, Never
<1>4. GrantTime'
  <2> SUFFICES ASSUME NEW c \in Caller, NEW p \in Node,
                      Asked(c)', outcome'[c][p] = "granted",
                      p # Home[c], Never(p)'
               PROVE  /\ clock'[p] > req'[c]
                      /\ requesting'[p] =>
                           Before(req'[c], Home[c], requestTime'[p], p)
    BY DEF GrantTime, Before
  <2>1. Asked(c) /\ outcome[c][p] = "granted"
    BY DEF Asked
  <2>2. QED
    BY <2>1 DEF GrantTime, Never
<1>5. QED
  BY <1>1, <1>2, <1>3, <1>4

(* Each step of a caller, of the network and of the environment keeps the  *)
(* invariant when no two callers share a node.                             *)
LEMMA IInvRequest ==
  ASSUME IInv, TypeOK', OneCallerPerNode,
         NEW c \in Caller, RequestCriticalSection(c)
  PROVE  IInv'
<1> USE DEF IInv
<1> DEFINE n == Home[c]
<1>1. n \in Node /\ clock[n] \in Nat
  BY DEF TypeOK
<1>2. /\ pc[c] = "idle"
      /\ clock' = [clock EXCEPT ![n] = clock[n] + 1]
      /\ requesting' = [requesting EXCEPT ![n] = TRUE]
      /\ requestTime' = [requestTime EXCEPT ![n] = clock[n] + 1]
      /\ pc' = [pc EXCEPT ![c] = "registered"]
      /\ UNCHANGED <<crashes, net, serving, req, outcome>>
  BY DEF RequestCriticalSection, IncrementClock, nodeVars, callVars
<1>3. \A d \in Caller : d # c => Home[d] # n /\ pc'[d] = pc[d]
  BY <1>2 DEF OneCallerPerNode, TypeOK
<1>4. pc'[c] = "registered"
  BY <1>2 DEF TypeOK
<1>5. ActiveRequests'
  BY <1>1, <1>2, <1>3 DEF ActiveRequests, TypeOK
<1>6. SentTime'
  BY <1>1, <1>2, <1>3, <1>4 DEF SentTime, Asked, TypeOK
<1>7. LiveCalls'
  <2>1. \A m \in net \cup serving : m.caller # NoCaller => m.caller \in Caller /\ m.caller # c
    BY <1>2 DEF LiveCalls, TypeOK, Message
  <2>2. QED
    BY <2>1, <1>2, <1>3 DEF LiveCalls
<1>8. ServedTime'
  BY <1>1, <1>2 DEF ServedTime, Never, TypeOK, Message
<1>9. GrantTime'
  <2> SUFFICES ASSUME NEW d \in Caller, NEW p \in Node,
                      Asked(d)', outcome'[d][p] = "granted",
                      p # Home[d], Never(p)'
               PROVE  /\ clock'[p] > req'[d]
                      /\ requesting'[p] =>
                           Before(req'[d], Home[d], requestTime'[p], p)
    BY DEF GrantTime, Before
  <2>1. d # c /\ Asked(d)
    BY <1>3, <1>4 DEF Asked
  <2>2. /\ clock[p] > req[d]
        /\ requesting[p] => Before(req[d], Home[d], requestTime[p], p)
    BY <2>1, <1>2 DEF GrantTime, Never
  <2>3. CASE p = n
    BY <2>2, <2>3, <1>1, <1>2 DEF TypeOK, Before
  <2>4. CASE p # n
    BY <2>2, <2>4, <1>1, <1>2 DEF TypeOK
  <2>5. QED
    BY <2>3, <2>4
<1>10. QED
  BY <1>5, <1>6, <1>7, <1>8, <1>9

LEMMA IInvSend ==
  ASSUME IInv, TypeOK', NEW c \in Caller, SendRequests(c)
  PROVE  IInv'
<1> USE DEF IInv
<1> DEFINE n == Home[c]
           sent == {[from |-> n, to |-> p, ts |-> requestTime[n], caller |-> c] :
                      p \in Peers(n)}
<1>1. /\ pc[c] = "registered"
      /\ req' = [req EXCEPT ![c] = requestTime[n]]
      /\ net' = net \cup sent
      /\ outcome' = [outcome EXCEPT ![c] =
                       [p \in Node |-> IF p = n THEN "none" ELSE "pending"]]
      /\ pc' = [pc EXCEPT ![c] = "collect"]
      /\ UNCHANGED <<crashes, clock, requesting, requestTime, serving>>
  BY DEF SendRequests, nodeVars, stateVars
<1>2. /\ pc'[c] = "collect" /\ req'[c] = requestTime[n]
      /\ \A p \in Node : outcome'[c][p] = IF p = n THEN "none" ELSE "pending"
      /\ \A d \in Caller : d # c =>
           pc'[d] = pc[d] /\ req'[d] = req[d] /\ outcome'[d] = outcome[d]
  BY <1>1 DEF TypeOK
<1>3. ActiveRequests'
  BY <1>1, <1>2 DEF ActiveRequests
<1>4. SentTime'
  BY <1>1, <1>2 DEF SentTime, Asked
<1>5. \A m \in net \cup serving : m.caller # NoCaller => m.caller \in Caller /\ m.caller # c
  BY <1>1 DEF LiveCalls, TypeOK, Message
<1>6. \A m \in sent : /\ m.caller = c /\ m.from = n /\ m.to \in Node /\ m.to # n
                      /\ m.ts = requestTime[n]
  BY DEF Peers
<1>7. LiveCalls'
  <2>1. ASSUME NEW m \in net \cup serving, m.caller # NoCaller
        PROVE  /\ m.from = Home[m.caller] /\ m.from # m.to
               /\ m.ts = req'[m.caller]
               /\ pc'[m.caller] = "collect"
               /\ outcome'[m.caller][m.to] = "pending"
    BY <2>1, <1>2, <1>5 DEF LiveCalls
  <2>2. ASSUME NEW m \in sent
        PROVE  /\ m.from = Home[m.caller] /\ m.from # m.to
               /\ m.ts = req'[m.caller]
               /\ pc'[m.caller] = "collect"
               /\ outcome'[m.caller][m.to] = "pending"
    BY <1>2, <1>6
  <2>3. \A m \in net' \cap serving' : m.caller = NoCaller
    BY <1>1, <1>5, <1>6, NoCallerAssumption DEF LiveCalls
  <2>4. QED
    BY <2>1, <2>2, <2>3, <1>1 DEF LiveCalls
<1>8. ServedTime'
  BY <1>1 DEF ServedTime, Never
<1>9. GrantTime'
  <2> SUFFICES ASSUME NEW d \in Caller, NEW p \in Node,
                      Asked(d)', outcome'[d][p] = "granted",
                      p # Home[d], Never(p)'
               PROVE  /\ clock'[p] > req'[d]
                      /\ requesting'[p] =>
                           Before(req'[d], Home[d], requestTime'[p], p)
    BY DEF GrantTime, Before
  <2>1. d # c
    BY <1>2
  <2>2. QED
    BY <2>1, <1>1, <1>2 DEF GrantTime, Asked, Never
<1>10. QED
  BY <1>3, <1>4, <1>7, <1>8, <1>9

LEMMA IInvEnter ==
  ASSUME IInv, TypeOK', NEW c \in Caller, Conclude(c) \/ ForceEntry(c)
  PROVE  IInv'
<1> USE DEF IInv
<1>1. /\ Asked(c)
      /\ pc'[c] \in {"deferred", "cs"}
      /\ \A d \in Caller : d # c => pc'[d] = pc[d]
      /\ pc[c] = "collect" => Pending(c) = {}
      /\ UNCHANGED <<crashes, clock, requesting, requestTime, net, serving, req, outcome>>
  BY DEF Conclude, ForceEntry, WaitEnds, Asked, TypeOK, nodeVars, stateVars, callVars
<1>2. ActiveRequests' /\ SentTime' /\ ServedTime' /\ GrantTime'
  BY <1>1 DEF ActiveRequests, SentTime, ServedTime, GrantTime, Asked, Never
<1>3. LiveCalls'
  <2>1. \A m \in net \cup serving : m.caller # NoCaller => m.caller \in Caller /\ m.caller # c
    BY <1>1 DEF LiveCalls, TypeOK, Message, Pending
  <2>2. QED
    BY <1>1, <2>1 DEF LiveCalls
<1>4. QED
  BY <1>2, <1>3

LEMMA IInvRelease ==
  ASSUME IInv, TypeOK', OneCallerPerNode,
         NEW c \in Caller, ReleaseCriticalSection(c)
  PROVE  IInv'
<1> USE DEF IInv
<1> DEFINE n == Home[c]
<1>1. /\ pc[c] = "cs"
      /\ requesting' = [requesting EXCEPT ![n] = FALSE]
      /\ pc' = [pc EXCEPT ![c] = "idle"]
      /\ req' = [req EXCEPT ![c] = 0]
      /\ outcome' = [outcome EXCEPT ![c] = NoOutcome]
      /\ UNCHANGED <<crashes, clock, requestTime, net, serving>>
  BY DEF ReleaseCriticalSection, nodeVars, callVars
<1>2. /\ pc'[c] = "idle"
      /\ \A d \in Caller : d # c =>
           pc'[d] = pc[d] /\ req'[d] = req[d] /\ outcome'[d] = outcome[d]
  BY <1>1 DEF TypeOK
<1>3. ActiveRequests'
  BY <1>1, <1>2 DEF ActiveRequests, OneCallerPerNode, TypeOK
<1>4. SentTime'
  BY <1>1, <1>2 DEF SentTime, Asked
<1>5. LiveCalls'
  <2>1. \A m \in net \cup serving : m.caller # NoCaller => m.caller \in Caller /\ m.caller # c
    BY <1>1 DEF LiveCalls, TypeOK, Message
  <2>2. QED
    BY <1>1, <1>2, <2>1 DEF LiveCalls
<1>6. ServedTime'
  BY <1>1 DEF ServedTime, Never
<1>7. GrantTime'
  <2> SUFFICES ASSUME NEW d \in Caller, NEW p \in Node,
                      Asked(d)', outcome'[d][p] = "granted",
                      p # Home[d], Never(p)'
               PROVE  /\ clock'[p] > req'[d]
                      /\ requesting'[p] =>
                           Before(req'[d], Home[d], requestTime'[p], p)
    BY DEF GrantTime, Before
  <2>1. d # c
    BY <1>2 DEF Asked
  <2>2. requesting'[p] => requesting[p]
    BY <1>1 DEF TypeOK
  <2>3. QED
    BY <2>1, <2>2, <1>1, <1>2 DEF GrantTime, Asked, Never
<1>8. QED
  BY <1>3, <1>4, <1>5, <1>6, <1>7

LEMMA IInvReceive ==
  ASSUME IInv, TypeOK', NEW m \in net, Receive(m)
  PROVE  IInv'
<1> USE DEF IInv
<1>0. m.to \in Node /\ m.ts \in Nat
  BY DEF TypeOK, Message
<1>1. /\ clock' = [clock EXCEPT ![m.to] = MaxOf(@, m.ts) + 1]
      /\ net' = net \ {m}
      /\ serving' = serving \cup {m}
      /\ UNCHANGED <<crashes, requesting, requestTime, req, outcome, pc>>
  BY DEF Receive, UpdateClock, nodeVars, stateVars, callerVars
<1>2. /\ \A n \in Node : clock'[n] >= clock[n]
      /\ clock'[m.to] > m.ts
  BY <1>0, <1>1 DEF TypeOK, MaxOf
<1>3. ActiveRequests' /\ SentTime'
  BY <1>1 DEF ActiveRequests, SentTime, Asked
<1>4. LiveCalls'
  BY <1>1 DEF LiveCalls
<1>5. ServedTime'
  <2> SUFFICES ASSUME NEW o \in serving', Never(o.to)' PROVE clock'[o.to] > o.ts
    BY DEF ServedTime
  <2>1. CASE o = m
    BY <2>1, <1>2
  <2>2. CASE o # m
    <3>1. o \in serving /\ o.to \in Node /\ o.ts \in Nat
      BY <2>2, <1>1 DEF TypeOK, Message
    <3>2. clock[o.to] > o.ts
      BY <3>1, <1>1 DEF ServedTime, Never
    <3>3. QED
      BY <3>1, <3>2, <1>2 DEF TypeOK
  <2>3. QED
    BY <2>1, <2>2
<1>6. GrantTime'
  <2> SUFFICES ASSUME NEW c \in Caller, NEW p \in Node,
                      Asked(c)', outcome'[c][p] = "granted",
                      p # Home[c], Never(p)'
               PROVE  /\ clock'[p] > req'[c]
                      /\ requesting'[p] =>
                           Before(req'[c], Home[c], requestTime'[p], p)
    BY DEF GrantTime, Before
  <2>1. /\ clock[p] > req[c]
        /\ requesting[p] => Before(req[c], Home[c], requestTime[p], p)
    BY <1>1 DEF GrantTime, Asked, Never
  <2>2. QED
    BY <2>1, <1>1, <1>2 DEF TypeOK
<1>7. QED
  BY <1>3, <1>4, <1>5, <1>6

(* The answers: one call ends, with the outcome its handler decided. *)
LEMMA IInvAnswer ==
  ASSUME IInv, TypeOK', NEW m \in net \cup serving, NEW r \in Outcome,
         outcome' = Answer(m, r),
         \/ net' = net \ {m} /\ m \notin serving' /\ serving' \subseteq serving
         \/ serving' = serving \ {m} /\ net' = net /\ (m.caller # NoCaller => m \notin net),
         UNCHANGED <<crashes, clock, requesting, requestTime, req, pc>>,
         /\ r = "granted" /\ m.caller # NoCaller /\ Never(m.to)
         => /\ clock[m.to] > m.ts
            /\ requesting[m.to] => Before(m.ts, m.from, requestTime[m.to], m.to)
  PROVE  IInv'
<1> USE DEF IInv
<1> DEFINE a == m.caller
           q == m.to
<1>0. /\ net \subseteq Message /\ serving \subseteq Message
      /\ m \in Message /\ q \in Node /\ a \in Caller \cup {NoCaller}
      /\ net' \subseteq net /\ serving' \subseteq serving
  BY DEF TypeOK, Message
<1>1. /\ \A c \in Caller, p \in Node : c # a \/ p # q => outcome'[c][p] = outcome[c][p]
      /\ a # NoCaller => outcome'[a][q] = r
  BY <1>0, NoCallerAssumption DEF TypeOK, Answer
<1>2. ActiveRequests' /\ SentTime'
  BY DEF ActiveRequests, SentTime, Asked
<1>3. LiveCalls'
  <2>1. ASSUME NEW o \in net' \cup serving', o.caller # NoCaller
        PROVE  outcome'[o.caller][o.to] = "pending"
    <3>1. o \in net \cup serving /\ o \in Message /\ o.caller \in Caller /\ o.to \in Node
      BY <2>1, <1>0 DEF Message
    <3>2. /\ o.from = Home[o.caller] /\ o.ts = req[o.caller]
          /\ outcome[o.caller][o.to] = "pending"
      BY <2>1, <3>1 DEF LiveCalls
    <3>3. CASE o.caller = a /\ o.to = q
      <4>1. m.from = Home[a] /\ m.ts = req[a]
        BY <2>1, <3>3 DEF LiveCalls
      <4>2. o = m
        BY <3>1, <3>2, <3>3, <4>1, <1>0 DEF Message
      <4>3. m \notin net' \cup serving'
        BY <2>1, <4>2
      <4>4. QED
        BY <2>1, <4>2, <4>3
    <3>4. CASE ~(o.caller = a /\ o.to = q)
      BY <1>1, <3>1, <3>2, <3>4
    <3>5. QED
      BY <3>3, <3>4
  <2>2. QED
    BY <2>1, <1>0 DEF LiveCalls
<1>4. ServedTime'
  BY <1>0 DEF ServedTime, Never
<1>5. GrantTime'
  <2> SUFFICES ASSUME NEW c \in Caller, NEW p \in Node,
                      Asked(c)', outcome'[c][p] = "granted",
                      p # Home[c], Never(p)'
               PROVE  /\ clock'[p] > req'[c]
                      /\ requesting'[p] =>
                           Before(req'[c], Home[c], requestTime'[p], p)
    BY DEF GrantTime, Before
  <2>1. CASE c = a /\ p = q
    <3>1. a # NoCaller /\ r = "granted"
      BY <2>1, <1>1, NoCallerAssumption
    <3>2. m.from = Home[a] /\ m.ts = req[a]
      BY <3>1 DEF LiveCalls
    <3>3. QED
      BY <2>1, <3>1, <3>2 DEF Never
  <2>2. CASE ~(c = a /\ p = q)
    BY <2>2, <1>1 DEF GrantTime, Asked, Never
  <2>3. QED
    BY <2>1, <2>2
<1>6. QED
  BY <1>2, <1>3, <1>4, <1>5

LEMMA IInvRefused ==
  ASSUME IInv, TypeOK', NEW m \in net, Refused(m)
  PROVE  IInv'
<1>1. CASE m.caller = NoCaller
  <2>1. /\ net' \subseteq net
        /\ UNCHANGED <<crashes, clock, requesting, requestTime, serving, req, outcome, pc>>
    BY <1>1 DEF Refused, Answer, nodeVars, stateVars
  <2>2. \A n \in Node : clock'[n] >= clock[n]
    BY <2>1 DEF IInv, TypeOK
  <2>3. QED
    BY <2>1, <2>2, IInvClock DEF IInv, LiveCalls
<1>2. CASE m.caller # NoCaller
  <2>1. m \notin serving
    BY <1>2 DEF IInv, LiveCalls
  <2>2. /\ outcome' = Answer(m, "dead") /\ "dead" \in Outcome
        /\ net' = net \ {m}
        /\ UNCHANGED <<crashes, clock, requesting, requestTime, serving, req, pc>>
    BY DEF Refused, nodeVars, stateVars, Outcome
  <2>3. QED
    BY <2>1, <2>2, IInvAnswer
<1>3. QED
  BY <1>1, <1>2

LEMMA IInvServe ==
  ASSUME IInv, TypeOK', NEW m \in serving, RequestCS(m)
  PROVE  IInv'
<1>0. /\ m \in Message /\ m.to \in Node /\ m.from \in Node /\ m.ts \in Nat
      /\ requestTime[m.to] \in Nat
  BY DEF IInv, TypeOK, Message
<1>1. PICK r \in {"granted", "deferred"} :
        /\ outcome' = Answer(m, r)
        /\ r = "granted" => ~ShouldDefer(m.to, m)
  BY DEF RequestCS
<1>2. /\ serving' = serving \ {m}
      /\ UNCHANGED <<crashes, clock, requesting, requestTime, net, req, pc>>
  BY DEF RequestCS, nodeVars
<1>3. m.caller # NoCaller => m \notin net /\ m.from # m.to
  BY DEF IInv, LiveCalls
<1>4. ASSUME r = "granted", m.caller # NoCaller, Never(m.to)
      PROVE  /\ clock[m.to] > m.ts
             /\ requesting[m.to] => Before(m.ts, m.from, requestTime[m.to], m.to)
  <2>1. clock[m.to] > m.ts
    BY <1>4 DEF IInv, ServedTime
  <2>2. m.to \in Nat /\ m.from \in Nat
    BY <1>0, NodeAssumption
  <2>3. requesting[m.to] => Before(m.ts, m.from, requestTime[m.to], m.to)
    BY <1>0, <1>1, <1>3, <1>4, <2>2 DEF ShouldDefer, Before
  <2>4. QED
    BY <2>1, <2>3
<1>5. QED
  BY <1>1, <1>2, <1>3, <1>4, IInvAnswer DEF Outcome

LEMMA IInvReply ==
  ASSUME IInv, TypeOK', NEW n \in Node, NEW p \in Node, SendDeferredReply(n, p)
  PROVE  IInv'
<1>1. \A q \in Node : clock'[q] >= clock[q]
  <2>1. \/ clock' = clock
        \/ clock' = [clock EXCEPT ![n] = clock[n] + 1]
    BY DEF SendDeferredReply, IncrementClock
  <2>2. clock \in [Node -> Nat]
    BY DEF IInv, TypeOK
  <2>3. QED
    BY <2>1, <2>2
<1>2. /\ \A m \in net' : m.caller # NoCaller => m \in net
      /\ UNCHANGED <<crashes, requesting, requestTime, serving, req, outcome, pc>>
  BY DEF SendDeferredReply, nodeVars, callerVars
<1>3. QED
  BY <1>1, <1>2, IInvClock DEF IInv, LiveCalls

LEMMA IInvTraffic ==
  ASSUME IInv, TypeOK', NEW n \in Node, OtherTraffic(n)
  PROVE  IInv'
<1>1. \A q \in Node : clock'[q] >= clock[q]
  BY DEF OtherTraffic, IncrementClock, IInv, TypeOK
<1>2. UNCHANGED <<crashes, requesting, requestTime, net, serving, req, outcome, pc>>
  BY DEF OtherTraffic, nodeVars, stateVars, callVars, callerVars
<1>3. QED
  BY <1>1, <1>2, IInvClock DEF IInv, LiveCalls

LEMMA IInvTimeout ==
  ASSUME IInv, TypeOK', NEW c \in Caller, NEW p \in Node,
         CallTimeout(c, p) \/ OverallTimeout(c)
  PROVE  IInv'
<1>1. CASE CallTimeout(c, p)
  <2>1. \A d \in Caller, q \in Node :
           \/ outcome'[d][q] = outcome[d][q]
           \/ d \in {c} /\ q \in {p} /\ outcome'[d][q] = "dead"
    BY <1>1 DEF CallTimeout, IInv, TypeOK
  <2>2. /\ net' = OrphanCalls(net, {c}, {p})
        /\ serving' = OrphanCalls(serving, {c}, {p})
        /\ UNCHANGED <<crashes, clock, requesting, requestTime, req, pc>>
    BY <1>1 DEF CallTimeout, nodeVars, stateVars
  <2>3. QED
    BY <2>1, <2>2, IInvOrphan
<1>2. CASE OverallTimeout(c)
  <2>1. \A d \in Caller :
           \/ pc'[d] = pc[d]
           \/ pc[d] = "collect" /\ pc'[d] = "deferred" /\ d \in {c} /\ Node = Node
    BY <1>2 DEF OverallTimeout, IInv, TypeOK
  <2>2. /\ net' = OrphanCalls(net, {c}, Node)
        /\ serving' = OrphanCalls(serving, {c}, Node)
        /\ UNCHANGED <<crashes, clock, requesting, requestTime, req, outcome>>
    BY <1>2 DEF OverallTimeout, nodeVars, stateVars
  <2>3. QED
    BY <2>1, <2>2, IInvOrphan
<1>3. QED
  BY <1>1, <1>2

(* A crash wipes a node whose grants no longer count; the callers of other *)
(* nodes lose the calls it was serving.                                    *)
LEMMA IInvCrash ==
  ASSUME IInv, TypeOK', NEW n \in Node, Crash(n)
  PROVE  IInv'
<1> USE DEF IInv
<1> DEFINE kept == {m \in serving : m.to # n}
<1>1. PICK lost \in SUBSET {m \in net : m.from = n} :
        net' = OrphanCalls(net \ lost, CallersAt(n), Node)
  BY DEF Crash
<1>2. serving' = OrphanCalls(kept, CallersAt(n), Node)
  BY DEF Crash
<1>3. /\ crashes' = [crashes EXCEPT ![n] = @ + 1]
      /\ clock' = [clock EXCEPT ![n] = 0]
      /\ requesting' = [requesting EXCEPT ![n] = FALSE]
      /\ requestTime' = [requestTime EXCEPT ![n] = 0]
  BY DEF Crash
<1>4. /\ \A c \in Caller : Home[c] = n => pc'[c] = "idle"
      /\ \A c \in Caller : Home[c] # n =>
           /\ pc'[c] = pc[c] /\ req'[c] = req[c]
           /\ \A p \in Node :
                outcome'[c][p] = IF p = n /\ \E m \in serving : m.caller = c /\ m.to = n
                                 THEN "dead" ELSE outcome[c][p]
  BY DEF Crash
<1>5. net \subseteq Message /\ serving \subseteq Message
  BY DEF TypeOK
<1>6. /\ \A m \in net' : m.caller # NoCaller =>
              m \in net /\ ~(m.caller \in CallersAt(n) /\ m.to \in Node)
      /\ \A m \in serving' : m.caller # NoCaller =>
              m \in kept /\ ~(m.caller \in CallersAt(n) /\ m.to \in Node)
      /\ \A m \in serving' : \E o \in kept : o.to = m.to /\ o.ts = m.ts
  <2>1. net \ lost \subseteq Message /\ kept \subseteq Message
    BY <1>5
  <2>2. QED
    BY <2>1, <1>1, <1>2, OrphanCallsFacts
<1>7. \A p \in Node : Never(p)' => p # n /\ Never(p)
  BY <1>3 DEF Never, TypeOK
<1>8. ActiveRequests'
  BY <1>3, <1>4 DEF ActiveRequests, TypeOK
<1>9. SentTime'
  BY <1>3, <1>4 DEF SentTime, Asked, TypeOK
<1>10. LiveCalls'
  <2>1. ASSUME NEW m \in net' \cup serving', m.caller # NoCaller
        PROVE  /\ m.from = Home[m.caller] /\ m.from # m.to
               /\ m.ts = req'[m.caller]
               /\ pc'[m.caller] = "collect"
               /\ outcome'[m.caller][m.to] = "pending"
    <3>1. /\ m \in net \cup serving
          /\ m \in serving => m.to # n
          /\ m \in Message /\ m.caller \in Caller /\ m.to \in Node
          /\ Home[m.caller] # n
      BY <2>1, <1>5, <1>6 DEF Message, CallersAt, LiveCalls
    <3>2. /\ m.from = Home[m.caller] /\ m.from # m.to
          /\ m.ts = req[m.caller]
          /\ pc[m.caller] = "collect"
          /\ outcome[m.caller][m.to] = "pending"
      BY <2>1, <3>1 DEF LiveCalls
    <3>3. ~(m.to = n /\ \E o \in serving : o.caller = m.caller /\ o.to = n)
      <4> SUFFICES ASSUME m.to = n, NEW o \in serving, o.caller = m.caller, o.to = n
                   PROVE  FALSE
        OBVIOUS
      <4>1. o \in Message /\ o.from = Home[o.caller] /\ o.ts = req[o.caller]
        BY <2>1, <1>5 DEF LiveCalls
      <4>2. o = m
        BY <4>1, <3>1, <3>2 DEF Message
      <4>3. QED
        BY <3>1, <4>2
    <3>4. QED
      BY <1>4, <3>1, <3>2, <3>3
  <2>2. \A m \in net' \cap serving' : m.caller = NoCaller
    BY <1>6 DEF LiveCalls
  <2>3. QED
    BY <2>1, <2>2 DEF LiveCalls
<1>11. ServedTime'
  <2> SUFFICES ASSUME NEW m \in serving', Never(m.to)' PROVE clock'[m.to] > m.ts
    BY DEF ServedTime
  <2>1. PICK o \in kept : o.to = m.to /\ o.ts = m.ts
    BY <1>6
  <2>2. o.to \in Node
    BY <1>5 DEF Message
  <2>3. QED
    BY <2>1, <2>2, <1>3, <1>7 DEF ServedTime, TypeOK
<1>12. GrantTime'
  <2> SUFFICES ASSUME NEW c \in Caller, NEW p \in Node,
                      Asked(c)', outcome'[c][p] = "granted",
                      p # Home[c], Never(p)'
               PROVE  /\ clock'[p] > req'[c]
                      /\ requesting'[p] =>
                           Before(req'[c], Home[c], requestTime'[p], p)
    BY DEF GrantTime, Before
  <2>1. Home[c] # n /\ Asked(c) /\ outcome[c][p] = "granted"
    BY <1>4 DEF Asked
  <2>2. QED
    BY <2>1, <1>3, <1>4, <1>7 DEF GrantTime, TypeOK
<1>13. QED
  BY <1>8, <1>9, <1>10, <1>11, <1>12

LEMMA IInvNext == OneCallerPerNode /\ IInv /\ [Next]_vars => IInv'
<1> SUFFICES ASSUME OneCallerPerNode, IInv, [Next]_vars PROVE IInv'
  OBVIOUS
<1>1. TypeOK'
  BY TypeNext DEF IInv
<1>2. CASE UNCHANGED vars
  BY <1>1, <1>2, IInvFrame DEF vars, nodeVars, stateVars, callVars, callerVars
<1>3. ASSUME NEW n \in Node, Restart(n) PROVE IInv'
  BY <1>1, <1>3, IInvFrame DEF Restart, stateVars, callVars, callerVars
<1>4. QED
  BY <1>1, <1>2, <1>3, IInvRequest, IInvSend, IInvTimeout, IInvEnter, IInvRelease,
     IInvReply, IInvReceive, IInvRefused, IInvServe, IInvTraffic, IInvCrash
     DEF Next, CallerStep, Network, Environment

-----------------------------------------------------------------------------
(* Grants follow the order of the requests, for any number of nodes, when  *)
(* no two callers share one.                                               *)
LEMMA IInvOrder == OneCallerPerNode /\ IInv => GrantsFollowRequestOrder
  BY DEF IInv, GrantsFollowRequestOrder, GrantTime, HasGrant, Asked,
     ActiveRequests, Active

LEMMA IInvExclusion == OneCallerPerNode /\ IInv => GrantedExclusion
<1> SUFFICES ASSUME OneCallerPerNode, IInv,
                    NEW c \in Caller, NEW d \in Caller,
                    Home[c] # Home[d], Never(Home[c]), Never(Home[d]),
                    HasGrant(c, Home[d]), HasGrant(d, Home[c]),
                    pc[c] = "cs", pc[d] = "cs"
             PROVE  FALSE
  BY DEF GrantedExclusion
<1>1. /\ req[c] = requestTime[Home[c]] /\ req[d] = requestTime[Home[d]]
      /\ requesting[Home[c]] /\ requesting[Home[d]]
  BY DEF IInv, ActiveRequests, SentTime, Asked
<1>2. /\ Before(req[c], Home[c], req[d], Home[d])
      /\ Before(req[d], Home[d], req[c], Home[c])
  BY <1>1 DEF IInv, GrantTime, HasGrant, Asked
<1>3. /\ req[c] \in Nat /\ req[d] \in Nat
      /\ Home[c] \in Nat /\ Home[d] \in Nat
  BY NodeAssumption DEF IInv, TypeOK
<1>4. QED
  BY <1>2, <1>3 DEF Before

(* The node that granted a request comes after it: RequestCS never lets a  *)
(* younger request overtake an older one it knows of.                      *)
THEOREM GrantOrder ==
  ASSUME OneCallerPerNode
  PROVE  Spec => []GrantsFollowRequestOrder
<1>1. IInv /\ [Next]_vars => IInv'
  BY IInvNext
<1>2. IInv => GrantsFollowRequestOrder
  BY IInvOrder
<1>3. QED
  BY IInvInit, <1>1, <1>2, PTL DEF Spec

(* Two callers that hold each other's grants are never both in the         *)
(* critical section: the part of mutual exclusion the handler provides.    *)
THEOREM Exclusion ==
  ASSUME OneCallerPerNode
  PROVE  Spec => []GrantedExclusion
<1>1. IInv /\ [Next]_vars => IInv'
  BY IInvNext
<1>2. IInv => GrantedExclusion
  BY IInvExclusion
<1>3. QED
  BY IInvInit, <1>1, <1>2, PTL DEF Spec

(* No request waits in the queue of a node that is not requesting itself,  *)
(* with any number of callers per node: a release empties the queue in the *)
(* same locked section that lowers the flag.                               *)
THEOREM QueueOwner == Spec => []QueueOnlyWhileRequesting
<1>1. Init => QueueOnlyWhileRequesting
  BY DEF Init, QueueOnlyWhileRequesting, NoEntries
<1>2. TypeOK /\ QueueOnlyWhileRequesting /\ [Next]_vars => QueueOnlyWhileRequesting'
  <2> SUFFICES ASSUME TypeOK, QueueOnlyWhileRequesting, [Next]_vars,
                      NEW q \in Node, NEW p \in Node, deferred'[q][p] > 0
               PROVE  requesting'[q]
    BY DEF QueueOnlyWhileRequesting
  <2> USE DEF TypeOK, QueueOnlyWhileRequesting
  <2>1. ASSUME NEW c \in Caller, RequestCriticalSection(c) PROVE requesting'[q]
    BY <2>1 DEF RequestCriticalSection
  <2>2. ASSUME NEW c \in Caller, CallerStep(c) PROVE requesting'[q]
    BY <2>2 DEF CallerStep, SendRequests, CallTimeout, Conclude, OverallTimeout,
       ForceEntry, stateVars
  <2>3. ASSUME NEW c \in Caller, ReleaseCriticalSection(c) PROVE requesting'[q]
    <3>1. Home[c] \in Node
      OBVIOUS
    <3>2. q # Home[c]
      BY <2>3, <3>1 DEF ReleaseCriticalSection, QueueAfterRelease, NoEntries
    <3>3. QED
      BY <2>3, <3>1, <3>2 DEF ReleaseCriticalSection
  <2>4. ASSUME NEW n \in Node, NEW r \in Node, SendDeferredReply(n, r)
        PROVE  requesting'[q]
    BY <2>4 DEF SendDeferredReply
  <2>5. ASSUME NEW m \in net, Receive(m) \/ Refused(m) PROVE requesting'[q]
    BY <2>5 DEF Receive, Refused, stateVars
  <2>6. ASSUME NEW m \in serving, RequestCS(m) PROVE requesting'[q]
    <3>1. m.to \in Node /\ m.from \in Node
      BY DEF Message
    <3>2. CASE ShouldDefer(m.to, m) /\ q = m.to
      BY <2>6, <3>2 DEF RequestCS, ShouldDefer
    <3>3. CASE ~(ShouldDefer(m.to, m) /\ q = m.to)
      BY <2>6, <3>1, <3>3 DEF RequestCS
    <3>4. QED
      BY <3>2, <3>3
  <2>7. ASSUME NEW n \in Node, Environment(n) PROVE requesting'[q]
    BY <2>7 DEF Environment, OtherTraffic, Crash, Restart, stateVars, NoEntries
  <2>8. CASE UNCHANGED vars
    BY <2>8 DEF vars, stateVars
  <2>9. QED
    BY <2>1, <2>2, <2>3, <2>4, <2>5, <2>6, <2>7, <2>8 DEF Next, Network
<1>3. QED
  BY <1>1, <1>2, TypeCorrect, PTL DEF Spec
=============================================================================
