--------------------------- MODULE MutexPut_proofs ---------------------------
(***************************************************************************)
(* What MutexPut promises about its data: a call that was alone in its     *)
(* critical section leaves its value at every owner that never crashed.    *)
(* The argument needs nothing of Ricart-Agrawala but its types: it is      *)
(* about the replication being inside the critical section, whoever shares *)
(* it, and about the calls that dead callers leave behind.                 *)
(* Under mutual exclusion every call is alone, and the promise is for all. *)
(***************************************************************************)
EXTENDS MutexPut, RicartAgrawala_proofs, SequenceTheorems

(* Every step is one of RicartAgrawala, as far as its variables go. *)
LEMMA PutStepIsStep == [PutNext]_allVars => [Next]_vars
<1> SUFFICES ASSUME [PutNext]_allVars PROVE [Next]_vars
  OBVIOUS
<1>1. CASE Coordination
  BY <1>1 DEF Coordination, Next, CallerStep, Environment
<1>2. ASSUME NEW c \in Caller, Enter(c) \/ WriteNext(c) \/ Release(c) PROVE [Next]_vars
  BY <1>2 DEF Enter, WriteNext, Release, Next, CallerStep
<1>3. ASSUME NEW n \in Node, CrashNode(n) PROVE [Next]_vars
  BY <1>3 DEF CrashNode, Next, Environment
<1>4. ASSUME NEW w \in stray, Stray(w) PROVE [Next]_vars
  BY <1>4 DEF Stray
<1>5. CASE UNCHANGED allVars
  BY <1>5 DEF allVars
<1>6. QED
  BY <1>1, <1>2, <1>3, <1>4, <1>5 DEF PutNext

-----------------------------------------------------------------------------
(* The list of targets.                                                    *)

Occurs(s, o) == \E k \in 1..Len(s) : s[k] = o

(* Both parts of a concatenation are found in it. *)
LEMMA ConcatElements ==
  ASSUME NEW S, NEW s \in Seq(S), NEW t \in Seq(S)
  PROVE  /\ s \o t \in Seq(S)
         /\ \A o : Occurs(s, o) \/ Occurs(t, o) => Occurs(s \o t, o)
<1>1. /\ s \o t \in Seq(S)
      /\ Len(s \o t) = Len(s) + Len(t)
      /\ \A k \in 1..(Len(s) + Len(t)) :
           (s \o t)[k] = IF k <= Len(s) THEN s[k] ELSE t[k - Len(s)]
  BY ConcatProperties
<1>2. Len(s) \in Nat /\ Len(t) \in Nat
  OBVIOUS
<1>3. ASSUME NEW k \in 1..Len(s) PROVE k \in 1..Len(s \o t) /\ (s \o t)[k] = s[k]
  BY <1>1, <1>2
<1>4. ASSUME NEW k \in 1..Len(t)
      PROVE  Len(s) + k \in 1..Len(s \o t) /\ (s \o t)[Len(s) + k] = t[k]
  <2>1. Len(s) + k \in 1..(Len(s) + Len(t)) /\ ~(Len(s) + k <= Len(s))
    BY <1>2
  <2>2. Len(s) + k - Len(s) = k
    BY <1>2
  <2>3. QED
    BY <1>1, <2>1, <2>2
<1>5. QED
  BY <1>1, <1>3, <1>4 DEF Occurs

(* Leaving one node out of the owners leaves out no other. *)
LEMMA OthersThanFacts ==
  ASSUME NEW n \in Node
  PROVE  /\ OthersThan(n) \in Seq(Node)
         /\ \A o \in OwnerSet \ {n} : Occurs(OthersThan(n), o)
<1>1. CASE n \notin OwnerSet
  BY <1>1, OwnersAssumption DEF OthersThan, OwnerSet, Occurs
<1>2. CASE n \in OwnerSet
  <2> DEFINE i == CHOOSE k \in DOMAIN Owners : Owners[k] = n
             before == SubSeq(Owners, 1, i - 1)
             after == SubSeq(Owners, i + 1, Len(Owners))
  <2>1. Owners \in Seq(Node)
    BY OwnersAssumption
  <2>2. i \in 1..Len(Owners) /\ Owners[i] = n
    BY <1>2 DEF OwnerSet
  <2>3. OthersThan(n) = before \o after
    BY <1>2 DEF OthersThan
  <2> HIDE DEF i
  <2>4. /\ before \in Seq(Node) /\ Len(before) = i - 1
        /\ \A k \in 1..(i - 1) : before[k] = Owners[k]
    BY <2>1, <2>2
  <2>5. /\ after \in Seq(Node) /\ Len(after) = Len(Owners) - i
        /\ \A k \in 1..(Len(Owners) - i) : after[k] = Owners[i + k]
    BY <2>1, <2>2
  <2> HIDE DEF before, after
  <2>6. ASSUME NEW o \in OwnerSet \ {n}
        PROVE  Occurs(before, o) \/ Occurs(after, o)
    <3>1. PICK j \in 1..Len(Owners) : Owners[j] = o
      BY DEF OwnerSet
    <3>2. CASE j < i
      BY <2>2, <2>4, <3>1, <3>2 DEF Occurs
    <3>3. CASE j > i
      <4>1. j - i \in 1..Len(after) /\ i + (j - i) = j
        BY <2>2, <2>5, <3>1, <3>3
      <4>2. QED
        BY <2>5, <3>1, <4>1 DEF Occurs
    <3>4. QED
      BY <2>2, <3>1, <3>2, <3>3
  <2>7. before \in Seq(Node) /\ after \in Seq(Node)
    BY <2>4, <2>5
  <2>8. QED
    BY <2>3, <2>6, <2>7, ConcatElements
<1>3. QED
  BY <1>1, <1>2

(* The home node and all owners are targets. *)
LEMMA TargetsFacts ==
  ASSUME NEW c \in Caller
  PROVE  /\ Targets(c) \in Seq(Node)
         /\ \A o \in OwnerSet \cup {Home[c]} : Occurs(Targets(c), o)
<1> DEFINE n == Home[c]
           first == <<n>>
           others == OthersThan(n)
<1>1. n \in Node
  BY HomeAssumption
<1>2. others \in Seq(Node) /\ \A o \in OwnerSet \ {n} : Occurs(others, o)
  BY <1>1, OthersThanFacts
<1>3. Targets(c) = first \o others
  BY DEF Targets
<1>4. first \in Seq(Node) /\ Occurs(first, n)
  BY <1>1 DEF Occurs
<1> HIDE DEF first, others
<1>5. /\ first \o others \in Seq(Node)
      /\ \A o : Occurs(first, o) \/ Occurs(others, o) => Occurs(first \o others, o)
  BY <1>2, <1>4, ConcatElements
<1>6. QED
  BY <1>2, <1>3, <1>4, <1>5

-----------------------------------------------------------------------------
(* Types.                                                                  *)

LEMMA PutTypeInit == PutInit => PutTypeOK
<1> SUFFICES ASSUME PutInit PROVE PutTypeOK
  OBVIOUS
<1>1. TypeOK
  BY TypeInit DEF PutInit
<1>2. todo \in [Caller -> Seq(Node)]
  <2>1. <<>> \in Seq(Node)
    OBVIOUS
  <2>2. QED
    BY <2>1 DEF PutInit
<1>3. /\ store \in [Node -> Caller \cup {NoValue}]
      /\ stray \subseteq Write
      /\ alone \in [Caller -> BOOLEAN]
      /\ interrupted \in BOOLEAN
  BY DEF PutInit
<1>4. QED
  BY <1>1, <1>2, <1>3 DEF PutTypeOK

(* The write a crashed caller leaves behind is one of its targets. *)
LEMMA StrayType ==
  ASSUME PutTypeOK, NEW n \in Node, CrashNode(n)
  PROVE  stray' \subseteq Write
<1>1. ASSUME NEW c \in Caller, todo[c] # <<>>
      PROVE  [to |-> Head(todo[c]), value |-> c] \in Write
  <2>1. Head(todo[c]) \in Node
    BY <1>1 DEF PutTypeOK
  <2>2. QED
    BY <2>1 DEF Write
<1>2. QED
  BY <1>1 DEF CrashNode, PutTypeOK, CallersAt

LEMMA PutTypeNext == PutTypeOK /\ [PutNext]_allVars => PutTypeOK'
<1> SUFFICES ASSUME PutTypeOK, [PutNext]_allVars PROVE PutTypeOK'
  OBVIOUS
<1>0. TypeOK'
  BY PutStepIsStep, TypeNext DEF PutTypeOK
<1>1. CASE Coordination
  BY <1>0, <1>1 DEF Coordination, putVars, PutTypeOK
<1>2. ASSUME NEW c \in Caller, Enter(c) PROVE PutTypeOK'
  BY <1>0, <1>2, TargetsFacts DEF Enter, InCS, PutTypeOK
<1>3. ASSUME NEW c \in Caller, WriteNext(c) PROVE PutTypeOK'
  <2>1. Tail(todo[c]) \in Seq(Node)
    BY <1>3 DEF WriteNext, PutTypeOK
  <2>2. QED
    BY <1>0, <1>3, <2>1 DEF WriteNext, PutTypeOK
<1>4. ASSUME NEW c \in Caller, Release(c) PROVE PutTypeOK'
  BY <1>0, <1>4 DEF Release, PutTypeOK
<1>5. ASSUME NEW n \in Node, CrashNode(n) PROVE PutTypeOK'
  <2>1. /\ store' \in [Node -> Caller \cup {NoValue}]
        /\ alone' \in [Caller -> BOOLEAN]
        /\ interrupted' \in BOOLEAN
    BY <1>5 DEF CrashNode, PutTypeOK
  <2>2. todo' \in [Caller -> Seq(Node)]
    BY <1>5 DEF CrashNode, PutTypeOK
  <2>3. QED
    BY <1>0, <1>5, <2>1, <2>2, StrayType DEF PutTypeOK
<1>6. ASSUME NEW w \in stray, Stray(w) PROVE PutTypeOK'
  BY <1>0, <1>6 DEF Stray, PutTypeOK, Write
<1>7. CASE UNCHANGED allVars
  BY <1>0, <1>7 DEF allVars, putVars, PutTypeOK
<1>8. QED
  BY <1>1, <1>2, <1>3, <1>4, <1>5, <1>6, <1>7 DEF PutNext

(* Stores hold values of callers, and what a caller has yet to write is a  *)
(* list of nodes, whatever the owners are and whoever crashes.             *)
THEOREM PutTypeCorrect == PutSpec => []PutTypeOK
  BY PutTypeInit, PutTypeNext, PTL DEF PutSpec

-----------------------------------------------------------------------------
(* The inductive invariant behind ExclusiveWriteReplicated.                *)

(* Only a caller in its critical section has something to write. *)
WritesInside == \A c \in Caller : todo[c] # <<>> => InCS(c)

(* A caller that is marked as alone is. *)
AloneInside ==
  \A c \in Caller : alone[c] => InCS(c) /\ \A d \in Caller \ {c} : ~InCS(d)

(* Writes of dead callers exist only after some caller died inside. *)
NoStray == ~interrupted => stray = {}

NeverDown == \A n \in Node : Never(n) => up[n]

(* A caller that was alone throughout has been to every target that it has *)
(* yet to go to no more, and nobody was there since.                       *)
ToWrite(c, o) == Occurs(todo[c], o)
Covered ==
  \A c \in Caller : alone[c] /\ ~interrupted =>
    \A o \in OwnerSet \cup {Home[c]} : Never(o) => store[o] = c \/ ToWrite(c, o)

PutInv ==
  /\ PutTypeOK
  /\ WritesInside /\ AloneInside /\ NoStray /\ NeverDown /\ Covered

LEMMA PutInvInit == PutInit => PutInv
<1> SUFFICES ASSUME PutInit PROVE PutInv
  OBVIOUS
<1>1. PutTypeOK
  BY PutTypeInit
<1>2. QED
  BY <1>1 DEF PutInit, Init, PutInv, WritesInside, AloneInside, NoStray, NeverDown, Covered

LEMMA OwnersAreNodes == ASSUME NEW c \in Caller PROVE OwnerSet \cup {Home[c]} \subseteq Node
<1>1. \A i \in DOMAIN Owners : Owners[i] \in Node
  BY OwnersAssumption
<1>2. QED
  BY <1>1, HomeAssumption DEF OwnerSet

(* What happens outside the data takes nobody into the critical section or *)
(* out of it, and stops no process.                                        *)
LEMMA CoordinationFacts ==
  ASSUME PutTypeOK, Coordination
  PROVE  /\ \A c \in Caller : InCS(c)' <=> InCS(c)
         /\ crashes' = crashes /\ \A n \in Node : up[n] => up'[n]
         /\ UNCHANGED putVars
<1> USE DEF PutTypeOK, TypeOK, InCS, nodeVars, callerVars
<1>1. UNCHANGED putVars
  BY DEF Coordination
<1>2. ASSUME NEW c \in Caller,
             \/ RequestCriticalSection(c) \/ SendRequests(c) \/ OverallTimeout(c)
             \/ \E p \in Node : CallTimeout(c, p)
      PROVE  /\ \A d \in Caller : InCS(d)' <=> InCS(d)
             /\ UNCHANGED <<up, crashes>>
  BY <1>2 DEF RequestCriticalSection, SendRequests, OverallTimeout, CallTimeout
<1>3. ASSUME NEW n \in Node, NEW p \in Node, SendDeferredReply(n, p)
      PROVE  UNCHANGED <<pc, up, crashes>>
  BY <1>3 DEF SendDeferredReply
<1>4. CASE Network
  <2>1. UNCHANGED <<pc, up, crashes>>
    BY <1>4 DEF Network, Receive, Refused, RequestCS
  <2>2. QED
    BY <1>1, <2>1
<1>5. ASSUME NEW n \in Node, OtherTraffic(n) \/ Restart(n)
      PROVE  UNCHANGED <<pc, crashes>> /\ \A m \in Node : up[m] => up'[m]
  BY <1>5 DEF OtherTraffic, Restart
<1>6. QED
  BY <1>1, <1>2, <1>3, <1>4, <1>5 DEF Coordination

(* Entering moves only the caller that enters. *)
LEMMA EnterFacts ==
  ASSUME PutTypeOK, NEW c \in Caller, Enter(c)
  PROVE  /\ ~InCS(c)
         /\ \A d \in Caller \ {c} : InCS(d)' <=> InCS(d)
         /\ UNCHANGED <<up, crashes, store, stray, interrupted>>
  BY DEF Enter, Conclude, ForceEntry, WaitEnds, PutTypeOK, TypeOK, InCS, nodeVars

(* A write takes one target off the list and is at it, if it is up. *)
LEMMA WriteNextFacts ==
  ASSUME PutTypeOK, NEW c \in Caller, WriteNext(c), NEW o \in Node, ToWrite(c, o), up[o]
  PROVE  store'[o] = c \/ ToWrite(c, o)'
<1> DEFINE s == todo[c]
<1>1. s \in Seq(Node) /\ s # <<>> /\ todo'[c] = Tail(s)
  BY DEF WriteNext, PutTypeOK
<1>2. PICK k \in 1..Len(s) : s[k] = o
  BY DEF ToWrite, Occurs
<1>3. CASE k = 1
  <2>1. Head(s) = o
    BY <1>1, <1>2, <1>3
  <2>2. QED
    BY <2>1 DEF WriteNext, PutTypeOK
<1>4. CASE k # 1
  <2>1. k - 1 \in 1..Len(Tail(s)) /\ Tail(s)[k - 1] = o
    BY <1>1, <1>2, <1>4
  <2>2. QED
    BY <1>1, <2>1 DEF ToWrite, Occurs
<1>5. QED
  BY <1>3, <1>4

LEMMA PutInvNext == PutInv /\ [PutNext]_allVars => PutInv'
<1> SUFFICES ASSUME PutInv, [PutNext]_allVars PROVE PutInv'
  OBVIOUS
<1> USE DEF PutInv
<1>0. PutTypeOK'
  BY PutTypeNext
<1>1. CASE Coordination
  BY <1>0, <1>1, CoordinationFacts
     DEF putVars, WritesInside, AloneInside, NoStray, NeverDown, Covered, ToWrite, Never
<1>2. ASSUME NEW c \in Caller, Enter(c) PROVE PutInv'
  <2>1. /\ ~InCS(c)
        /\ \A d \in Caller \ {c} : InCS(d)' <=> InCS(d)
        /\ UNCHANGED <<up, crashes, store, stray, interrupted>>
    BY <1>2, EnterFacts
  <2>2. NoStray' /\ NeverDown'
    BY <2>1 DEF NoStray, NeverDown, Never
  <2>3. CASE InCS(c)'
    <3>1. /\ todo' = [todo EXCEPT ![c] = Targets(c)]
          /\ alone' = [d \in Caller |->
               IF d = c THEN \A e \in Caller \ {c} : ~InCS(e)
               ELSE alone[d] /\ ~InCS(d)]
      BY <1>2, <2>3 DEF Enter, InCS
    <3>2. WritesInside'
      BY <2>1, <2>3, <3>1 DEF WritesInside, PutTypeOK
    <3>3. \A d \in Caller \ {c} : ~alone'[d]
      BY <3>1 DEF AloneInside
    <3>4. AloneInside'
      BY <2>1, <2>3, <3>1, <3>3 DEF AloneInside
    <3>5. \A o \in OwnerSet \cup {Home[c]} : ToWrite(c, o)'
      BY <3>1, TargetsFacts DEF ToWrite, PutTypeOK
    <3>6. Covered'
      BY <3>3, <3>5 DEF Covered
    <3>7. QED
      BY <1>0, <2>2, <3>2, <3>4, <3>6
  <2>4. CASE ~InCS(c)'
    <3>1. UNCHANGED <<todo, alone>>
      BY <1>2, <2>4 DEF Enter, InCS
    <3>2. WritesInside' /\ AloneInside'
      BY <2>1, <2>4, <3>1 DEF WritesInside, AloneInside
    <3>3. Covered'
      BY <2>1, <3>1 DEF Covered, ToWrite, Never
    <3>4. QED
      BY <1>0, <2>2, <3>2, <3>3
  <2>5. QED
    BY <2>3, <2>4
<1>3. ASSUME NEW c \in Caller, WriteNext(c) PROVE PutInv'
  <2>1. /\ InCS(c) /\ todo[c] # <<>>
        /\ todo' = [todo EXCEPT ![c] = Tail(@)]
        /\ UNCHANGED <<vars, stray, alone, interrupted>>
    BY <1>3 DEF WriteNext
  <2>2. UNCHANGED <<pc, up, crashes>>
    BY <2>1 DEF vars, nodeVars, callerVars
  <2>3. WritesInside' /\ AloneInside' /\ NoStray' /\ NeverDown'
    BY <2>1, <2>2 DEF WritesInside, AloneInside, NoStray, NeverDown, InCS, Never, PutTypeOK
  <2>4. ASSUME NEW d \in Caller, alone[d], ~interrupted,
               NEW o \in OwnerSet \cup {Home[d]}, Never(o)
        PROVE  store'[o] = d \/ ToWrite(d, o)'
    <3>1. d = c
      BY <2>1, <2>4 DEF AloneInside
    <3>2. o \in Node /\ up[o]
      BY <2>4, OwnersAreNodes DEF NeverDown
    <3>3. store[o] = c \/ ToWrite(c, o)
      BY <2>4, <3>1 DEF Covered
    <3>4. CASE store[o] = c
      BY <1>3, <3>1, <3>2, <3>4 DEF WriteNext, PutTypeOK
    <3>5. CASE ToWrite(c, o)
      BY <1>3, <3>1, <3>2, <3>5, WriteNextFacts
    <3>6. QED
      BY <3>3, <3>4, <3>5
  <2>5. Covered'
    BY <2>1, <2>2, <2>4 DEF Covered, Never
  <2>6. QED
    BY <1>0, <2>3, <2>5
<1>4. ASSUME NEW c \in Caller, Release(c) PROVE PutInv'
  <2>1. /\ todo' = [todo EXCEPT ![c] = <<>>]
        /\ alone' = [alone EXCEPT ![c] = FALSE]
        /\ pc' = [pc EXCEPT ![c] = "idle"]
        /\ UNCHANGED <<up, crashes, store, stray, interrupted>>
    BY <1>4 DEF Release, ReleaseCriticalSection, nodeVars
  <2>2. \A d \in Caller : InCS(d)' <=> d # c /\ InCS(d)
    BY <2>1 DEF InCS, PutTypeOK, TypeOK
  <2>3. \A d \in Caller : /\ alone'[d] <=> d # c /\ alone[d]
                          /\ todo'[d] = IF d = c THEN <<>> ELSE todo[d]
    BY <2>1 DEF PutTypeOK
  <2>4. WritesInside' /\ AloneInside' /\ NoStray' /\ NeverDown'
    BY <2>1, <2>2, <2>3 DEF WritesInside, AloneInside, NoStray, NeverDown, Never
  <2>5. Covered'
    BY <2>1, <2>3 DEF Covered, ToWrite, Never
  <2>6. QED
    BY <1>0, <2>4, <2>5
<1>5. ASSUME NEW n \in Node, CrashNode(n) PROVE PutInv'
  <2>1. /\ store' = [store EXCEPT ![n] = NoValue]
        /\ todo' = [c \in Caller |-> IF Home[c] = n THEN <<>> ELSE todo[c]]
        /\ alone' = [c \in Caller |-> alone[c] /\ Home[c] # n]
        /\ interrupted' = (interrupted \/ \E c \in CallersAt(n) : InCS(c))
        /\ pc' = [c \in Caller |-> IF Home[c] = n THEN "idle" ELSE pc[c]]
        /\ up' = [up EXCEPT ![n] = FALSE]
        /\ crashes' = [crashes EXCEPT ![n] = @ + 1]
    BY <1>5 DEF CrashNode, Crash
  <2>2. \A c \in Caller : InCS(c)' <=> Home[c] # n /\ InCS(c)
    BY <2>1 DEF InCS
  <2>3. WritesInside' /\ AloneInside'
    BY <2>1, <2>2 DEF WritesInside, AloneInside
  <2>4. NoStray'
    <3>1. SUFFICES ASSUME ~interrupted' PROVE stray' = {}
      BY DEF NoStray
    <3>2. stray = {}
      BY <2>1, <3>1 DEF NoStray
    <3>3. \A c \in CallersAt(n) : todo[c] = <<>>
      BY <2>1, <3>1 DEF WritesInside, CallersAt
    <3>4. QED
      BY <1>5, <3>2, <3>3 DEF CrashNode
  <2>5. ASSUME NEW o \in Node, Never(o)' PROVE o # n /\ Never(o)
    BY <2>1, <2>5 DEF Never, PutTypeOK, TypeOK
  <2>6. NeverDown'
    BY <2>1, <2>5 DEF NeverDown, PutTypeOK, TypeOK
  <2>7. ASSUME NEW c \in Caller, alone'[c], ~interrupted',
               NEW o \in OwnerSet \cup {Home[c]}, Never(o)'
        PROVE  store'[o] = c \/ ToWrite(c, o)'
    <3>1. o \in Node
      BY OwnersAreNodes
    <3>2. o # n /\ Never(o)
      BY <2>5, <2>7, <3>1
    <3>3. /\ alone[c] /\ ~interrupted
          /\ todo'[c] = todo[c] /\ store'[o] = store[o]
      BY <2>1, <2>7, <3>1, <3>2 DEF PutTypeOK
    <3>4. QED
      BY <3>2, <3>3 DEF Covered, ToWrite
  <2>8. Covered'
    BY <2>7 DEF Covered
  <2>9. QED
    BY <1>0, <2>3, <2>4, <2>6, <2>8
<1>6. ASSUME NEW w \in stray, Stray(w) PROVE PutInv'
  <2>1. interrupted
    BY DEF NoStray
  <2>2. UNCHANGED <<pc, up, crashes, todo, alone, interrupted>>
    BY <1>6 DEF Stray, vars, nodeVars, callerVars
  <2>3. QED
    BY <1>0, <2>1, <2>2
       DEF WritesInside, AloneInside, NoStray, NeverDown, Covered, InCS, Never
<1>7. CASE UNCHANGED allVars
  BY <1>0, <1>7
     DEF allVars, vars, nodeVars, callerVars, putVars, WritesInside, AloneInside, NoStray,
         NeverDown, Covered, ToWrite, InCS, Never
<1>8. QED
  BY <1>1, <1>2, <1>3, <1>4, <1>5, <1>6, <1>7 DEF PutNext

(* A call returns at its release only, with nothing left to write. *)
LEMMA ReturnStep == PutInv /\ [PutNext]_allVars => [ReturnsReplicated]_allVars
<1> SUFFICES ASSUME PutInv, PutNext,
                    NEW c \in Caller, InCS(c), pc'[c] = "idle", up'[Home[c]],
                    alone[c], ~interrupted,
                    NEW o \in OwnerSet \cup {Home[c]}, Never(o)
             PROVE  store[o] = c
  BY DEF ReturnsReplicated
<1> USE DEF PutInv
<1>1. ~Coordination
  BY CoordinationFacts DEF InCS
<1>2. ASSUME NEW d \in Caller, Enter(d) PROVE FALSE
  BY <1>2, EnterFacts DEF InCS
<1>3. ASSUME NEW d \in Caller, WriteNext(d) PROVE FALSE
  BY <1>3 DEF WriteNext, vars, callerVars, InCS
<1>4. ASSUME NEW d \in Caller, Release(d) PROVE store[o] = c
  <2>1. d = c
    BY <1>4 DEF Release, ReleaseCriticalSection, InCS, PutTypeOK, TypeOK
  <2>2. todo[c] = <<>>
    BY <1>4, <2>1 DEF Release, Written
  <2>3. ~ToWrite(c, o)
    BY <2>2 DEF ToWrite, Occurs
  <2>4. QED
    BY <2>3 DEF Covered
<1>5. ASSUME NEW n \in Node, CrashNode(n) PROVE FALSE
  <2>1. /\ pc'[c] = IF Home[c] = n THEN "idle" ELSE pc[c]
        /\ ~up'[n]
    BY <1>5 DEF CrashNode, Crash, PutTypeOK, TypeOK
  <2>2. QED
    BY <2>1 DEF InCS
<1>6. ASSUME NEW w \in stray, Stray(w) PROVE FALSE
  BY <1>6 DEF Stray, vars, callerVars, InCS
<1>7. QED
  BY <1>1, <1>2, <1>3, <1>4, <1>5, <1>6 DEF PutNext

(* A call that was alone in its critical section, with nobody dying inside *)
(* a critical section before, returns with its value at its own node and   *)
(* at every owner that never crashed, for any owners, callers and crashes. *)
THEOREM ReplicatedWhenAlone == PutSpec => ExclusiveWriteReplicated
<1>1. PutSpec => []PutInv
  BY PutInvInit, PutInvNext, PTL DEF PutSpec
<1>2. QED
  BY <1>1, ReturnStep, PTL DEF PutSpec, ExclusiveWriteReplicated

-----------------------------------------------------------------------------
(* What the write takes from mutual exclusion.                             *)

(* The mutual exclusion below the writes is RicartAgrawala with nothing    *)
(* added or taken away: its theorems hold of MutexPut.                     *)
THEOREM PutUsesMutex == PutSpec => Spec
<1>1. PutInit => Init
  BY DEF PutInit
<1>2. QED
  BY <1>1, PutStepIsStep, PTL DEF PutSpec, Spec

(* With one MutexPut per node at a time, two of them that hold each        *)
(* other's grants are never both writing, and no entry waits at a node     *)
(* that is not requesting.                                                 *)
THEOREM WritersExclude ==
  ASSUME OneCallerPerNode
  PROVE  PutSpec => [](GrantedExclusion /\ QueueOnlyWhileRequesting)
<1>1. Spec => []GrantedExclusion /\ []QueueOnlyWhileRequesting
  BY Exclusion, QueueOwner
<1>2. QED
  BY <1>1, PutUsesMutex, PTL

(* No two calls are inside together.                                       *)
Exclusive == MutualExclusion /\ ClientExclusion

(* Then whoever is inside has been alone there from the beginning.         *)
AllAlone == \A c \in Caller : InCS(c) => alone[c]

LEMMA AllAloneNext == PutTypeOK /\ AllAlone /\ Exclusive' /\ [PutNext]_allVars => AllAlone'
<1> SUFFICES ASSUME PutTypeOK, AllAlone, Exclusive', [PutNext]_allVars,
                    NEW c \in Caller, InCS(c)'
             PROVE  alone'[c]
  BY DEF AllAlone
<1>1. \A d \in Caller : InCS(d)' => d = c
  BY DEF Exclusive, MutualExclusion, ClientExclusion, InCS
<1>2. alone \in [Caller -> BOOLEAN]
  BY DEF PutTypeOK
<1>3. CASE Coordination
  BY <1>3, CoordinationFacts DEF AllAlone, putVars
<1>4. ASSUME NEW d \in Caller, Enter(d) PROVE alone'[c]
  <2>1. CASE d = c
    <3>1. \A e \in Caller \ {c} : ~InCS(e)
      BY <1>1, <1>4, <2>1, EnterFacts
    <3>2. alone' = [e \in Caller |-> IF e = d THEN \A f \in Caller \ {d} : ~InCS(f)
                                    ELSE alone[e] /\ ~InCS(e)]
      BY <1>4, <2>1 DEF Enter, InCS
    <3>3. QED
      BY <2>1, <3>1, <3>2
  <2>2. CASE d # c
    <3>1. InCS(c) /\ ~(pc'[d] = "cs")
      BY <1>1, <1>4, <2>2, EnterFacts DEF InCS
    <3>2. QED
      BY <1>4, <3>1 DEF Enter, AllAlone
  <2>3. QED
    BY <2>1, <2>2
<1>5. ASSUME NEW d \in Caller, WriteNext(d) PROVE alone'[c]
  BY <1>5 DEF WriteNext, vars, callerVars, InCS, AllAlone
<1>6. ASSUME NEW d \in Caller, Release(d) PROVE alone'[c]
  BY <1>2, <1>6 DEF Release, ReleaseCriticalSection, InCS, PutTypeOK, TypeOK, AllAlone
<1>7. ASSUME NEW n \in Node, CrashNode(n) PROVE alone'[c]
  BY <1>2, <1>7 DEF CrashNode, Crash, InCS, PutTypeOK, TypeOK, AllAlone
<1>8. ASSUME NEW w \in stray, Stray(w) PROVE alone'[c]
  BY <1>8 DEF Stray, vars, callerVars, InCS, AllAlone
<1>9. CASE UNCHANGED allVars
  BY <1>9 DEF allVars, vars, callerVars, putVars, InCS, AllAlone
<1>10. QED
  BY <1>3, <1>4, <1>5, <1>6, <1>7, <1>8, <1>9 DEF PutNext

(* ReturnsReplicated for every call, whoever was inside with it. *)
EveryReturnReplicated ==
  \A c \in Caller :
    InCS(c) /\ pc'[c] = "idle" /\ up'[Home[c]] /\ ~interrupted =>
      \A o \in OwnerSet \cup {Home[c]} : Never(o) => store[o] = c

(* The mutual exclusion that README.md:161 and 176 promise, and that the   *)
(* timers and the request shared by the callers of a node can break, is    *)
(* all the write needs: in a behaviour where no two calls are ever inside  *)
(* together, every MutexPut returns with its value at its own node and at  *)
(* every owner that never crashed.                                         *)
THEOREM ExclusionSuffices ==
  PutSpec /\ []MutualExclusion /\ []ClientExclusion => [][EveryReturnReplicated]_allVars
<1>1. PutInit => AllAlone
  BY DEF PutInit, Init, AllAlone, InCS
<1>2. AllAlone /\ [ReturnsReplicated]_allVars => [EveryReturnReplicated]_allVars
  BY DEF AllAlone, ReturnsReplicated, EveryReturnReplicated
<1>3. MutualExclusion' /\ ClientExclusion' => Exclusive'
  BY DEF Exclusive
<1>4. QED
  BY <1>1, <1>2, <1>3, AllAloneNext, PutTypeCorrect, ReplicatedWhenAlone, PTL
  DEF PutSpec, ExclusiveWriteReplicated
=============================================================================
