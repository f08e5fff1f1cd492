------------------------------ MODULE MutexPut ------------------------------
(***************************************************************************)
(* The MutexPut handler of src/node/rpc_handlers.go: Ricart-Agrawala       *)
(* around a local write and its replication, one replica after the other,  *)
(* all before the release.  One key; the value a caller writes is named by *)
(* the caller.  Put at a replica overwrites whatever is there.             *)
(*                                                                         *)
(* The steps of RicartAgrawala are taken as they are, except that entering *)
(* the critical section fixes the nodes to write to, that the release      *)
(* waits for them, and that a crash loses the node's data.  A replica      *)
(* write blocks its caller, so it is one step; only a caller that dies in  *)
(* the middle leaves its call behind, to arrive at any time (stray).       *)
(***************************************************************************)
EXTENDS RicartAgrawala, Sequences

CONSTANTS Owners,   \* GetPartitionOwners of the key, in ring order
          NoValue   \* the node does not have the key

ASSUME OwnersAssumption ==
  Owners \in Seq(Node) /\ \A i, j \in DOMAIN Owners : Owners[i] = Owners[j] => i = j
ASSUME NoValueAssumption == NoValue \notin Caller

VARIABLES
  store,        \* DataStore: the value of the key at each node
  todo,         \* what the caller in its critical section has yet to write
  stray,        \* replica writes of dead callers still under way
  alone,        \* history: no other caller was inside since c entered
  interrupted   \* history: some caller died inside

putVars == <<store, todo, stray, alone, interrupted>>
allVars == <<vars, putVars>>

OwnerSet == {Owners[i] : i \in DOMAIN Owners}
Write == [to : Node, value : Caller]
InCS(c) == pc[c] = "cs"

PutTypeOK ==
  /\ TypeOK
  /\ store \in [Node -> Caller \cup {NoValue}]
  /\ todo \in [Caller -> Seq(Node)]
  /\ stray \subseteq Write
  /\ alone \in [Caller -> BOOLEAN]
  /\ interrupted \in BOOLEAN

PutInit ==
  /\ Init
  /\ store = [n \in Node |-> NoValue]
  /\ todo = [c \in Caller |-> <<>>]
  /\ stray = {}
  /\ alone = [c \in Caller |-> FALSE]
  /\ interrupted = FALSE

-----------------------------------------------------------------------------
(* The owners without n, which is among them once or not at all. *)
OthersThan(n) ==
  IF n \in OwnerSet
  THEN LET i == CHOOSE k \in DOMAIN Owners : Owners[k] = n
       IN  SubSeq(Owners, 1, i - 1) \o SubSeq(Owners, i + 1, Len(Owners))
  ELSE Owners

(* The home node first, owner or not, then the owners other than it. *)
Targets(c) == <<Home[c]>> \o OthersThan(Home[c])

Enter(c) ==
  /\ Conclude(c) \/ ForceEntry(c)
  /\ IF pc'[c] = "cs"
     THEN /\ todo' = [todo EXCEPT ![c] = Targets(c)]
          /\ alone' = [d \in Caller |->
               IF d = c THEN \A e \in Caller \ {c} : ~InCS(e)
               ELSE alone[d] /\ ~InCS(d)]
     ELSE UNCHANGED <<todo, alone>>
  /\ UNCHANGED <<store, stray, interrupted>>

(* The next write: a node that cannot be reached is skipped.  (The code    *)
(* skips it on any error; calls between running nodes are assumed to       *)
(* succeed.)                                                               *)
WriteNext(c) ==
  /\ InCS(c) /\ todo[c] # <<>>
  /\ LET n == Head(todo[c]) IN
       \/ up[n] /\ store' = [store EXCEPT ![n] = c]
       \/ ~up[n] /\ UNCHANGED store
  /\ todo' = [todo EXCEPT ![c] = Tail(@)]
  /\ UNCHANGED <<vars, stray, alone, interrupted>>

Written_LocalOnly(c) == Len(todo[c]) < Len(Targets(c))
Written(c) == todo[c] = <<>>

Release(c) ==
  /\ Written(c)
  /\ ReleaseCriticalSection(c)
  /\ todo' = [todo EXCEPT ![c] = <<>>]
  /\ alone' = [alone EXCEPT ![c] = FALSE]
  /\ UNCHANGED <<store, stray, interrupted>>

(* The write of a dead caller arrives, or does not. *)
Stray(w) ==
  /\ w \in stray
  /\ stray' = stray \ {w}
  /\ \/ up[w.to] /\ store' = [store EXCEPT ![w.to] = w.value]
     \/ UNCHANGED store
  /\ UNCHANGED <<vars, todo, alone, interrupted>>

(* DataStore is memory; a replica write under way survives its caller. *)
CrashNode(n) ==
  /\ Crash(n)
  /\ store' = [store EXCEPT ![n] = NoValue]
  /\ stray' = {w \in stray : w.to # n} \cup
       {[to |-> Head(todo[c]), value |-> c] :
          c \in {d \in CallersAt(n) : todo[d] # <<>> /\ Head(todo[d]) # n}}
  /\ todo' = [c \in Caller |-> IF Home[c] = n THEN <<>> ELSE todo[c]]
  /\ alone' = [c \in Caller |-> alone[c] /\ Home[c] # n]
  /\ interrupted' = (interrupted \/ \E c \in CallersAt(n) : InCS(c))

(* Everything that does not touch the data. *)
Coordination ==
  /\ \/ \E c \in Caller : \/ RequestCriticalSection(c)
                          \/ SendRequests(c)
                          \/ \E p \in Node : CallTimeout(c, p)
                          \/ OverallTimeout(c)
     \/ \E n, p \in Node : SendDeferredReply(n, p)
     \/ Network
     \/ \E n \in Node : OtherTraffic(n) \/ Restart(n)
  /\ UNCHANGED putVars

PutNext ==
  \/ Coordination
  \/ \E c \in Caller : Enter(c) \/ WriteNext(c) \/ Release(c)
  \/ \E n \in Node : CrashNode(n)
  \/ \E w \in stray : Stray(w)

PutSpec == PutInit /\ [][PutNext]_allVars

(* A started caller keeps running and its timers fire.  A replica write    *)
(* has no timeout in the code; that it returns, with success or an error,  *)
(* is an assumption.                                                       *)
CallerProgress(c) ==
  \/ (SendRequests(c) \/ OverallTimeout(c) \/ \E p \in Node : CallTimeout(c, p))
       /\ UNCHANGED putVars
  \/ Enter(c) \/ WriteNext(c) \/ Release(c)

PutFairSpec == PutSpec /\ \A c \in Caller : WF_allVars(CallerProgress(c))

-----------------------------------------------------------------------------
(* A call that was alone in its critical section returns only when its     *)
(* value is at its own node and at every owner that has not crashed: no    *)
(* write of an earlier or later caller can slip in between.                *)
ReturnsReplicated ==
  \A c \in Caller :
    /\ InCS(c) /\ pc'[c] = "idle" /\ up'[Home[c]]
    /\ alone[c] /\ ~interrupted
    => \A o \in OwnerSet \cup {Home[c]} : Never(o) => store[o] = c
ExclusiveWriteReplicated == [][ReturnsReplicated]_allVars
=============================================================================
