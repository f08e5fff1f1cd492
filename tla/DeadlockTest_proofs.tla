------------------------- MODULE DeadlockTest_proofs -------------------------
(***************************************************************************)
(* Theorems about DeadlockTest for any clients and any resource names.     *)
(* Every call of a test is a step of the manager, and of a manager that    *)
(* serves two nodes: its graph stays sound even though the tests pile up   *)
(* waits.  What the tests leave behind and what a lone test sees follow    *)
(* from what each step of the script stands for.                           *)
(***************************************************************************)
EXTENDS DeadlockTest, WaitForGraph_proofs

(* What a test that nobody interferes with has built before each step. *)
LoneTable(t) ==
  /\ at[t] = "1 locks A" => held[A(t)] = None /\ held[B(t)] = None
  /\ at[t] = "2 locks B" => held[A(t)] = 1 /\ held[B(t)] = None
  /\ at[t] \in {"1 asks B", "2 asks A", "detect", "resolve"} =>
       held[A(t)] = 1 /\ held[B(t)] = 2
  /\ at[t] = "1 retries B" => held[A(t)] = 1 /\ held[B(t)] = None
  /\ at[t] \in {"verify", "unlock A"} => held[A(t)] = 1 /\ held[B(t)] = 1

LoneEdges(t) ==
  /\ at[t] \in {"1 locks A", "2 locks B", "1 asks B",
                "1 retries B", "verify", "unlock A"} =>
       waitingFor[1] = {} /\ waitingFor[2] = {}
  /\ at[t] = "2 asks A" => waitingFor[1] = {2} /\ waitingFor[2] = {}
  /\ at[t] \in {"detect", "resolve"} => waitingFor[1] = {2} /\ waitingFor[2] = {1}

LoneAnswer(t) ==
  /\ at[t] = "resolve" => found[t]
  /\ at[t] = "unlock A" => ~found[t]

LoneInv ==
  \A t \in Tester : alone[t] => LoneTable(t) /\ LoneEdges(t) /\ LoneAnswer(t)

(* The test that will give back what node n holds. *)
Answers(t, n, r) ==
  \/ /\ n = 1 /\ r = A(t)
     /\ at[t] \in {"2 locks B", "1 asks B", "2 asks A", "detect", "resolve",
                   "1 retries B", "verify", "unlock A"}
  \/ /\ n = 1 /\ r = B(t)
     /\ at[t] \in {"2 asks A", "detect", "resolve", "1 retries B", "verify",
                   "unlock A", "unlock B"}
  \/ /\ n = 2 /\ r = B(t)
     /\ at[t] \in {"1 asks B", "2 asks A", "detect", "resolve"}
  \/ n = 2 /\ r = A(t) /\ at[t] \in {"detect", "resolve"}

HeldInv ==
  ~left => \A n \in Node, r \in Resource : held[r] = n => \E t \in Tester : Answers(t, n, r)

-----------------------------------------------------------------------------
(* The tests are clients of the manager.                                   *)

LEMMA ScriptNodes ==
  /\ Node = {1, 2}
  /\ \A t \in Tester : name \in [Tester -> Name] => A(t) \in Resource /\ B(t) \in Resource
BY TestAssumption DEF A, B

LEMMA CallsOfTheManager ==
  ASSUME TestTypeOK, [TestNext]_allVars
  PROVE  [Next]_vars
<1> USE DEF TestTypeOK
<1>1. ASSUME NEW t \in Tester, Begin(t) PROVE Next
  BY <1>1 DEF Begin, Next
<1>2. ASSUME NEW t \in Tester, LockSteps(t) PROVE Next
  BY <1>2, ScriptNodes DEF LockSteps, Next
<1>3. ASSUME NEW t \in Tester, Detect(t) PROVE UNCHANGED vars
  BY <1>3 DEF Detect
<1>4. ASSUME NEW t \in Tester, ResolveStep(t) PROVE Next
  BY <1>4, ScriptNodes DEF ResolveStep, Victim, Next
<1>5. ASSUME NEW t \in Tester, Retry(t) PROVE Next
  BY <1>5, ScriptNodes DEF Retry, Next
<1>6. ASSUME NEW t \in Tester, Cleanup(t) PROVE [Next]_vars
  BY <1>6, ScriptNodes DEF Cleanup, Release, Next
<1>7. ASSUME NEW t \in Tester, Quit(t) PROVE UNCHANGED vars
  BY <1>7 DEF Quit, vars
<1>8. CASE UNCHANGED allVars
  BY <1>8 DEF allVars, vars
<1>9. QED
  BY <1>1, <1>2, <1>3, <1>4, <1>5, <1>6, <1>7, <1>8 DEF TestNext

LEMMA TestTypeNext ==
  ASSUME TestTypeOK, [TestNext]_allVars
  PROVE  TestTypeOK'
<1>1. TypeOK'
  BY CallsOfTheManager, TypeNext DEF TestTypeOK
<1> DEFINE ScriptOK ==
      /\ at \in [Tester -> Step] /\ name \in [Tester -> Name]
      /\ found \in [Tester -> BOOLEAN] /\ alone \in [Tester -> BOOLEAN]
      /\ quits \in 0..MaxQuits /\ left \in BOOLEAN
<1> USE DEF TestTypeOK
<1>2. ASSUME NEW t \in Tester, NEW from, NEW to \in Step, Advance(t, from, to)
      PROVE  /\ at' \in [Tester -> Step] /\ alone' \in [Tester -> BOOLEAN]
             /\ name' = name /\ quits' = quits /\ left' = left
  BY <1>2 DEF Advance
<1>3. ASSUME NEW t \in Tester, Begin(t) PROVE ScriptOK'
  BY <1>3 DEF Begin, Step
<1>4. ASSUME NEW t \in Tester, LockSteps(t) PROVE ScriptOK'
  BY <1>4, <1>2 DEF LockSteps, Step
<1>5. ASSUME NEW t \in Tester, Detect(t) PROVE ScriptOK'
  BY <1>5, <1>2 DEF Detect, Step, HasCycle
<1>6. ASSUME NEW t \in Tester, ResolveStep(t) PROVE ScriptOK'
  BY <1>6, <1>2 DEF ResolveStep, Step
<1>7. ASSUME NEW t \in Tester, Retry(t) PROVE ScriptOK'
  BY <1>7, <1>2 DEF Retry, Step
<1>8. ASSUME NEW t \in Tester, Cleanup(t) PROVE ScriptOK'
  BY <1>8, <1>2 DEF Cleanup, Step
<1>9. ASSUME NEW t \in Tester, Quit(t) PROVE ScriptOK'
  <2>1. quits' \in 0..MaxQuits
    BY <1>9, TestAssumption DEF Quit
  <2>2. QED
    BY <1>9, <2>1 DEF Quit, Step
<1>10. ASSUME UNCHANGED allVars PROVE ScriptOK'
  BY <1>10 DEF allVars, testVars
<1>11. ScriptOK'
  BY <1>3, <1>4, <1>5, <1>6, <1>7, <1>8, <1>9, <1>10 DEF TestNext
<1>12. QED
  BY <1>1, <1>11

(* The tables, the script positions and the histories keep their types     *)
(* however the tests overlap.                                              *)
THEOREM TestTypeCorrect == TestSpec => []TestTypeOK
<1>1. TestInit => TestTypeOK
  <2>1. 0 \in 0..MaxQuits
    BY TestAssumption
  <2>2. QED
    BY <2>1 DEF TestInit, Init, TestTypeOK, TypeOK, Step
<1>2. TestTypeOK /\ [TestNext]_allVars => TestTypeOK'
  BY TestTypeNext
<1>3. QED
  BY <1>1, <1>2, PTL DEF TestSpec

(* Whatever the tests do, the manager is used as it may be used: every     *)
(* call of a script is one of its steps, every other step leaves it alone. *)
THEOREM TestsUseTheManager == TestSpec => Spec
<1>1. TestInit => Init
  BY DEF TestInit
<1>2. TestTypeOK /\ [TestNext]_allVars => [Next]_vars
  BY CallsOfTheManager
<1>3. QED
  BY <1>1, <1>2, TestTypeCorrect, PTL DEF TestSpec, Spec

(* Although the tests pile up waits of node 1, an edge always leads to the *)
(* holder of the resource that the waiter was refused last.                *)
THEOREM TestEdgesSound == TestSpec => []EdgesSound
<1>1. Node = {1, 2}
  BY ScriptNodes
<1>2. Spec => [](EdgesSound /\ NoSelfEdge)
  BY <1>1, SoundnessOfTwo
<1>3. QED
  BY <1>2, TestsUseTheManager, PTL

(* A deadlock that a test is told of is one: however the tests overlap, if *)
(* the graph has a cycle then nodes 1 and 2 were each refused, and not     *)
(* given since, a lock that the other still holds.                         *)
THEOREM TestsReportDeadlocks == TestSpec => []CyclesAreDeadlocks
<1>1. Node = {1, 2}
  BY ScriptNodes
<1>2. Spec => []CyclesAreDeadlocks
  BY <1>1, CyclesRealOfTwo
<1>3. QED
  BY <1>2, TestsUseTheManager, PTL

-----------------------------------------------------------------------------
(* What the tests leave behind: whatever a node holds, a test that is      *)
(* still running will give back.                                           *)

LEMMA AnswersKept ==
  ASSUME TestTypeOK, NEW t \in Tester, NEW to,
         at' = [at EXCEPT ![t] = to], name' = name,
         NEW n \in Node, NEW r \in Resource,
         Answers(t, n, r) => Answers(t, n, r)',
         \E u \in Tester : Answers(u, n, r)
  PROVE  \E u \in Tester : Answers(u, n, r)'
<1>1. PICK u \in Tester : Answers(u, n, r)
  OBVIOUS
<1>2. CASE u = t
  BY <1>1, <1>2
<1>3. CASE u # t
  <2>1. at'[u] = at[u] /\ A(u)' = A(u) /\ B(u)' = B(u)
    BY <1>3 DEF TestTypeOK, A, B
  <2>2. Answers(u, n, r)'
    BY <1>1, <2>1 DEF Answers
  <2>3. QED
    BY <2>2
<1>4. QED
  BY <1>2, <1>3

KeepsAnswers(t) == \A n \in Node, r \in Resource : Answers(t, n, r) => Answers(t, n, r)'

(* A lock granted to the test that asked: it answers for it from then on.  *)
LEMMA HeldAfterLock ==
  ASSUME TestTypeOK, HeldInv, NEW t \in Tester, NEW from, NEW to,
         Advance(t, from, to),
         NEW n \in Node, NEW q \in Resource, Lock(n, q),
         Answers(t, n, q)',
         KeepsAnswers(t)
  PROVE  HeldInv'
<1> SUFFICES ASSUME ~left, NEW m \in Node, NEW r \in Resource, held'[r] = m
             PROVE  \E u \in Tester : Answers(u, m, r)'
  BY DEF HeldInv, Advance
<1>1. at' = [at EXCEPT ![t] = to] /\ name' = name
  BY DEF Advance
<1>2. held[r] = m \/ (r = q /\ m = n)
  BY DEF Lock, vars, TestTypeOK, TypeOK
<1>3. CASE held[r] = m
  <2>1. \E u \in Tester : Answers(u, m, r)
    BY <1>3 DEF HeldInv
  <2>2. Answers(t, m, r) => Answers(t, m, r)'
    BY DEF KeepsAnswers
  <2>3. QED
    BY <1>1, <2>1, <2>2, AnswersKept
<1>4. CASE r = q /\ m = n
  BY <1>4
<1>5. QED
  BY <1>2, <1>3, <1>4

LEMMA HeldNext ==
  ASSUME TestTypeOK, HeldInv, [TestNext]_allVars
  PROVE  HeldInv'
<1>1. ASSUME NEW t \in Tester, Begin(t) PROVE HeldInv'
  BY <1>1, NoneAssumption DEF Begin, Reset, HeldInv
<1>2. ASSUME NEW t \in Tester, LockSteps(t) PROVE HeldInv'
  <2>1. 1 \in Node /\ 2 \in Node /\ A(t) \in Resource /\ B(t) \in Resource
    BY ScriptNodes DEF TestTypeOK
  <2>2. CASE Advance(t, "1 locks A", "2 locks B") /\ Lock(1, A(t))
    <3>1. PICK q \in Resource : q = A(t)
      BY <2>1
    <3>2. Answers(t, 1, q)' /\ KeepsAnswers(t)
      BY <2>2, <3>1 DEF Advance, Answers, KeepsAnswers, A, B, TestTypeOK
    <3>3. QED
      BY <2>1, <2>2, <3>1, <3>2, HeldAfterLock
  <2>3. CASE Advance(t, "2 locks B", "1 asks B") /\ Lock(2, B(t))
    <3>1. PICK q \in Resource : q = B(t)
      BY <2>1
    <3>2. Answers(t, 2, q)' /\ KeepsAnswers(t)
      BY <2>3, <3>1 DEF Advance, Answers, KeepsAnswers, A, B, TestTypeOK
    <3>3. QED
      BY <2>1, <2>3, <3>1, <3>2, HeldAfterLock
  <2>4. CASE Advance(t, "1 asks B", "2 asks A") /\ Lock(1, B(t))
    <3>1. PICK q \in Resource : q = B(t)
      BY <2>1
    <3>2. Answers(t, 1, q)' /\ KeepsAnswers(t)
      BY <2>4, <3>1 DEF Advance, Answers, KeepsAnswers, A, B, TestTypeOK
    <3>3. QED
      BY <2>1, <2>4, <3>1, <3>2, HeldAfterLock
  <2>5. CASE Advance(t, "2 asks A", "detect") /\ Lock(2, A(t))
    <3>1. PICK q \in Resource : q = A(t)
      BY <2>1
    <3>2. Answers(t, 2, q)' /\ KeepsAnswers(t)
      BY <2>5, <3>1 DEF Advance, Answers, KeepsAnswers, A, B, TestTypeOK
    <3>3. QED
      BY <2>1, <2>5, <3>1, <3>2, HeldAfterLock
  <2>6. QED
    BY <1>2, <2>2, <2>3, <2>4, <2>5 DEF LockSteps
<1>3. ASSUME NEW t \in Tester, Detect(t) PROVE HeldInv'
  <2> SUFFICES ASSUME ~left, NEW n \in Node, NEW r \in Resource, held[r] = n
               PROVE  \E u \in Tester : Answers(u, n, r)'
    BY <1>3 DEF Detect, Advance, HeldInv, vars
  <2>1. Answers(t, n, r) => Answers(t, n, r)'
    BY <1>3 DEF Detect, Advance, Answers, A, B, TestTypeOK
  <2>2. PICK to : at' = [at EXCEPT ![t] = to] /\ name' = name
    BY <1>3 DEF Detect, Advance
  <2>3. QED
    BY <2>1, <2>2, AnswersKept DEF HeldInv
<1>4. ASSUME NEW t \in Tester, ResolveStep(t) PROVE HeldInv'
  <2> SUFFICES ASSUME ~left, NEW n \in Node, NEW r \in Resource, held'[r] = n
               PROVE  \E u \in Tester : Answers(u, n, r)'
    BY <1>4 DEF ResolveStep, Advance, HeldInv
  <2>1. n # 2 /\ held[r] = n
    BY <1>4, NoneAssumption, ScriptNodes DEF ResolveStep, Resolve, HeldAfterAbort, Victim
  <2>2. Answers(t, n, r) => Answers(t, n, r)'
    BY <1>4, <2>1 DEF ResolveStep, Advance, Answers, A, B, TestTypeOK
  <2>3. at' = [at EXCEPT ![t] = "1 retries B"] /\ name' = name
    BY <1>4 DEF ResolveStep, Advance
  <2>4. QED
    BY <2>1, <2>2, <2>3, AnswersKept DEF HeldInv
<1>5. ASSUME NEW t \in Tester, Retry(t) PROVE HeldInv'
  <2>1. PICK q \in Resource : q = B(t)
    BY ScriptNodes DEF TestTypeOK
  <2>2. Answers(t, 1, q)' /\ KeepsAnswers(t)
    BY <1>5, <2>1 DEF Retry, Advance, Answers, KeepsAnswers, A, B, TestTypeOK
  <2>3. QED
    BY <1>5, <2>1, <2>2, ScriptNodes, HeldAfterLock DEF Retry
<1>6. ASSUME NEW t \in Tester, Cleanup(t) PROVE HeldInv'
  <2> SUFFICES ASSUME ~left, NEW n \in Node, NEW r \in Resource, held'[r] = n
               PROVE  \E u \in Tester : Answers(u, n, r)'
    BY <1>6 DEF Cleanup, Advance, HeldInv
  <2>1. ASSUME NEW q \in Resource, Release(1, q)
        PROVE  held[r] = n /\ (r = q => n # 1)
    BY <2>1, NoneAssumption, ScriptNodes DEF Release, Unlock, vars, TestTypeOK, TypeOK
  <2>2. CASE Advance(t, "unlock A", "unlock B") /\ Release(1, A(t))
    <3>1. held[r] = n /\ (r = A(t) => n # 1)
      BY <2>1, <2>2, ScriptNodes DEF TestTypeOK
    <3>2. Answers(t, n, r) => Answers(t, n, r)'
      BY <2>2, <3>1 DEF Advance, Answers, A, B, TestTypeOK
    <3>3. QED
      BY <2>2, <3>1, <3>2, AnswersKept DEF HeldInv, Advance
  <2>3. CASE Advance(t, "unlock B", "idle") /\ Release(1, B(t))
    <3>1. held[r] = n /\ (r = B(t) => n # 1)
      BY <2>1, <2>3, ScriptNodes DEF TestTypeOK
    <3>2. Answers(t, n, r) => Answers(t, n, r)'
      BY <2>3, <3>1 DEF Advance, Answers, A, B, TestTypeOK
    <3>3. QED
      BY <2>3, <3>1, <3>2, AnswersKept DEF HeldInv, Advance
  <2>4. QED
    BY <1>6, <2>2, <2>3 DEF Cleanup
<1>7. ASSUME NEW t \in Tester, Quit(t) PROVE HeldInv'
  BY <1>7 DEF Quit, HeldInv
<1>8. CASE UNCHANGED allVars
  <2>1. held' = held /\ at' = at /\ name' = name /\ left' = left
    BY <1>8 DEF allVars, testVars, vars
  <2>2. \A t \in Tester, n \in Node, r \in Resource : Answers(t, n, r)' <=> Answers(t, n, r)
    BY <2>1 DEF Answers, A, B
  <2>3. QED
    BY <2>1, <2>2 DEF HeldInv
<1>9. QED
  BY <1>1, <1>2, <1>3, <1>4, <1>5, <1>6, <1>7, <1>8 DEF TestNext

(* Tests that run to their end leave nothing held and nobody waiting,      *)
(* however they overlapped, also when they shared a resource name.         *)
THEOREM CleanUp == TestSpec => []TestsCleanUp
<1>1. TestInit => HeldInv
  BY NoneAssumption DEF TestInit, Init, HeldInv
<1>2. TestTypeOK /\ HeldInv /\ [TestNext]_allVars => HeldInv'
  BY HeldNext
<1>3. TestTypeOK /\ EdgesSound /\ HeldInv => TestsCleanUp
  <2> SUFFICES ASSUME TestTypeOK, EdgesSound, HeldInv,
                      \A t \in Tester : at[t] = "idle", ~left
               PROVE  /\ \A r \in Resource : held[r] = None
                      /\ \A n \in Node : waitingFor[n] = {}
    BY DEF TestsCleanUp
  <2>1. \A t \in Tester, n \in Node, r \in Resource : ~Answers(t, n, r)
    BY DEF Answers
  <2>2. \A r \in Resource : held[r] \notin Node
    BY <2>1 DEF HeldInv
  <2>3. \A r \in Resource : held[r] = None
    BY <2>2 DEF TestTypeOK, TypeOK
  <2>4. \A n \in Node : \A m \in waitingFor[n] : m \in Node /\ held[waitingResource[n]] = m
                                              /\ waitingResource[n] \in Resource
    BY DEF EdgesSound, TestTypeOK, TypeOK
  <2>5. QED
    BY <2>2, <2>3, <2>4
<1>4. QED
  BY <1>1, <1>2, <1>3, TestTypeCorrect, TestEdgesSound, PTL DEF TestSpec

-----------------------------------------------------------------------------
(* What a lone test sees: the tables it built itself.                      *)

LEMMA CycleOfTwo ==
  ASSUME Node = {1, 2}
  PROVE  /\ waitingFor[1] = {2} /\ waitingFor[2] = {1} => HasCycle
         /\ waitingFor[1] = {} /\ waitingFor[2] = {} => ~HasCycle
<1>1. ASSUME waitingFor[1] = {2}, waitingFor[2] = {1} PROVE HasCycle
  <2> DEFINE S == {1, 2}
  <2>1. S \in SUBSET Node /\ S # {} /\ \A n \in S : waitingFor[n] \cap S # {}
    BY <1>1
  <2>2. QED
    BY <2>1 DEF HasCycle
<1>2. QED
  BY <1>1 DEF HasCycle

LEMMA LoneNext ==
  ASSUME TestTypeOK, LoneInv, [TestNext]_allVars
  PROVE  LoneInv'
<1> DEFINE Lone(t) == LoneTable(t) /\ LoneEdges(t) /\ LoneAnswer(t)
<1>1. ASSUME NEW t \in Tester, Begin(t) PROVE LoneInv'
  <2>1. \A u \in Tester : alone'[u] => u = t
    BY <1>1 DEF Begin
  <2>2. at'[t] = "1 locks A"
    BY <1>1 DEF Begin, TestTypeOK
  <2>3. LoneTable(t)'
    <3>1. A(t)' \in Resource /\ B(t)' \in Resource
      BY TestTypeNext, TestAssumption DEF TestTypeOK, A, B
    <3>2. QED
      BY <1>1, <2>2, <3>1 DEF Begin, Reset, LoneTable
  <2>4. LoneEdges(t)' /\ LoneAnswer(t)'
    BY <1>1, <2>2, ScriptNodes DEF Begin, Reset, LoneEdges, LoneAnswer
  <2>5. QED
    BY <2>1, <2>3, <2>4 DEF LoneInv
<1>2. ASSUME NEW t \in Tester, NEW from, NEW to, Advance(t, from, to),
             alone[t] => Lone(t)'
      PROVE  LoneInv'
  BY <1>2 DEF Advance, LoneInv
<1>3. ASSUME NEW t \in Tester, LockSteps(t) PROVE LoneInv'
  <2> SUFFICES ASSUME alone[t], LoneTable(t), LoneEdges(t) PROVE Lone(t)'
    BY <1>2, <1>3 DEF LockSteps, LoneInv
  <2>1. CASE Advance(t, "1 locks A", "2 locks B") /\ Lock(1, A(t))
    <3>1. at[t] = "1 locks A" /\ at'[t] = "2 locks B" /\ name' = name
      BY <2>1 DEF Advance, TestTypeOK
    <3>2. /\ held[A(t)] = None /\ held[B(t)] = None
          /\ waitingFor[1] = {} /\ waitingFor[2] = {}
      BY <3>1 DEF LoneTable, LoneEdges
    <3>3. held' = [held EXCEPT ![A(t)] = 1] /\ UNCHANGED waitingFor
      BY <2>1, <3>2, NoneAssumption, ScriptNodes
         DEF Lock, Refuses, vars, TestTypeOK, TypeOK
    <3>4. LoneTable(t)'
      BY <3>1, <3>2, <3>3, ScriptNodes DEF LoneTable, TestTypeOK, TypeOK, A, B
    <3>5. LoneEdges(t)'
      BY <3>1, <3>2, <3>3 DEF LoneEdges
    <3>6. QED
      BY <3>1, <3>4, <3>5 DEF LoneAnswer
  <2>2. CASE Advance(t, "2 locks B", "1 asks B") /\ Lock(2, B(t))
    <3>1. at[t] = "2 locks B" /\ at'[t] = "1 asks B" /\ name' = name
      BY <2>2 DEF Advance, TestTypeOK
    <3>2. /\ held[A(t)] = 1 /\ held[B(t)] = None
          /\ waitingFor[1] = {} /\ waitingFor[2] = {}
      BY <3>1 DEF LoneTable, LoneEdges
    <3>3. held' = [held EXCEPT ![B(t)] = 2] /\ UNCHANGED waitingFor
      BY <2>2, <3>2, NoneAssumption, ScriptNodes
         DEF Lock, Refuses, vars, TestTypeOK, TypeOK
    <3>4. LoneTable(t)'
      BY <3>1, <3>2, <3>3, ScriptNodes DEF LoneTable, TestTypeOK, TypeOK, A, B
    <3>5. LoneEdges(t)'
      BY <3>1, <3>2, <3>3 DEF LoneEdges
    <3>6. QED
      BY <3>1, <3>4, <3>5 DEF LoneAnswer
  <2>3. CASE Advance(t, "1 asks B", "2 asks A") /\ Lock(1, B(t))
    <3>1. at[t] = "1 asks B" /\ at'[t] = "2 asks A" /\ name' = name
      BY <2>3 DEF Advance, TestTypeOK
    <3>2. /\ held[A(t)] = 1 /\ held[B(t)] = 2
          /\ waitingFor[1] = {} /\ waitingFor[2] = {}
      BY <3>1 DEF LoneTable, LoneEdges
    <3>3. UNCHANGED held /\ waitingFor'[1] = {2} /\ waitingFor'[2] = {}
      <4>1. held[B(t)] # None /\ held[B(t)] # 1
        BY <3>2, NoneAssumption, ScriptNodes
      <4>2. held' = held /\ waitingFor' = [waitingFor EXCEPT ![1] = @ \cup {2}]
        BY <2>3, <3>2, <4>1 DEF Lock
      <4>3. QED
        BY <3>2, <4>2, ScriptNodes DEF TestTypeOK, TypeOK
    <3>4. LoneTable(t)'
      BY <3>1, <3>2, <3>3, ScriptNodes DEF LoneTable, TestTypeOK, TypeOK, A, B
    <3>5. LoneEdges(t)'
      BY <3>1, <3>2, <3>3 DEF LoneEdges
    <3>6. QED
      BY <3>1, <3>4, <3>5 DEF LoneAnswer
  <2>4. CASE Advance(t, "2 asks A", "detect") /\ Lock(2, A(t))
    <3>1. at[t] = "2 asks A" /\ at'[t] = "detect" /\ name' = name
      BY <2>4 DEF Advance, TestTypeOK
    <3>2. /\ held[A(t)] = 1 /\ held[B(t)] = 2
          /\ waitingFor[1] = {2} /\ waitingFor[2] = {}
      BY <3>1 DEF LoneTable, LoneEdges
    <3>3. UNCHANGED held /\ waitingFor'[1] = {2} /\ waitingFor'[2] = {1}
      <4>1. held[A(t)] # None /\ held[A(t)] # 2
        BY <3>2, NoneAssumption, ScriptNodes
      <4>2. held' = held /\ waitingFor' = [waitingFor EXCEPT ![2] = @ \cup {1}]
        BY <2>4, <3>2, <4>1 DEF Lock
      <4>3. QED
        BY <3>2, <4>2, ScriptNodes DEF TestTypeOK, TypeOK
    <3>4. LoneTable(t)'
      BY <3>1, <3>2, <3>3, ScriptNodes DEF LoneTable, TestTypeOK, TypeOK, A, B
    <3>5. LoneEdges(t)'
      BY <3>1, <3>2, <3>3 DEF LoneEdges
    <3>6. QED
      BY <3>1, <3>4, <3>5 DEF LoneAnswer
  <2>5. QED
    BY <1>3, <2>1, <2>2, <2>3, <2>4 DEF LockSteps
<1>4. ASSUME NEW t \in Tester, Detect(t) PROVE LoneInv'
  <2> SUFFICES ASSUME alone[t], LoneTable(t), LoneEdges(t) PROVE Lone(t)'
    BY <1>2, <1>4 DEF Detect, LoneInv
  <2>1. LoneTable(t)' /\ LoneEdges(t)'
    BY <1>4 DEF Detect, Advance, LoneTable, LoneEdges, TestTypeOK, A, B, vars
  <2>2. LoneAnswer(t)'
    BY <1>4, ScriptNodes, CycleOfTwo DEF Detect, Advance, LoneEdges, LoneAnswer, TestTypeOK
  <2>3. QED
    BY <2>1, <2>2
<1>5. ASSUME NEW t \in Tester, ResolveStep(t) PROVE LoneInv'
  <2> SUFFICES ASSUME alone[t], LoneTable(t), LoneEdges(t) PROVE Lone(t)'
    BY <1>2, <1>5 DEF ResolveStep, LoneInv
  <2>1. at[t] = "resolve" /\ at'[t] = "1 retries B" /\ name' = name
    BY <1>5 DEF ResolveStep, Advance, TestTypeOK
  <2>2. held[A(t)] = 1 /\ held[B(t)] = 2 /\ waitingFor[1] = {2}
    BY <2>1 DEF LoneTable, LoneEdges
  <2>3. held'[A(t)] = 1 /\ held'[B(t)] = None
    <3>1. A(t) \in Resource /\ B(t) \in Resource
      BY ScriptNodes DEF TestTypeOK
    <3>2. held' = [r \in Resource |-> IF held[r] = 2 THEN None ELSE held[r]]
      BY <1>5 DEF ResolveStep, Resolve, HeldAfterAbort, Victim
    <3>3. 1 # 2
      OBVIOUS
    <3>4. QED
      BY <2>2, <3>1, <3>2, <3>3
  <2>4. LoneTable(t)'
    BY <2>1, <2>3 DEF LoneTable, A, B
  <2>5. waitingFor'[1] = {} /\ waitingFor'[2] = {}
    BY <1>5, <2>2, ScriptNodes DEF ResolveStep, Resolve, EdgesAfterAbort, Victim
  <2>6. LoneEdges(t)'
    BY <2>1, <2>5 DEF LoneEdges
  <2>7. QED
    BY <2>1, <2>4, <2>6 DEF LoneAnswer
<1>6. ASSUME NEW t \in Tester, Retry(t) PROVE LoneInv'
  <2> SUFFICES ASSUME alone[t], LoneTable(t), LoneEdges(t) PROVE Lone(t)'
    BY <1>2, <1>6 DEF Retry, LoneInv
  <2>1. at[t] = "1 retries B" /\ at'[t] = "verify" /\ name' = name
    BY <1>6 DEF Retry, Advance, TestTypeOK
  <2>2. held[A(t)] = 1 /\ held[B(t)] = None
    BY <2>1 DEF LoneTable
  <2>3. held' = [held EXCEPT ![B(t)] = 1] /\ UNCHANGED waitingFor
    BY <1>6, <2>2, NoneAssumption, ScriptNodes DEF Retry, Lock, Refuses
  <2>4. LoneTable(t)'
    BY <2>1, <2>2, <2>3, ScriptNodes DEF LoneTable, TestTypeOK, TypeOK, A, B
  <2>5. LoneEdges(t)'
    BY <2>1, <2>3 DEF LoneEdges
  <2>6. QED
    BY <2>1, <2>4, <2>5 DEF LoneAnswer
<1>7. ASSUME NEW t \in Tester, Cleanup(t) PROVE LoneInv'
  <2>1. at'[t] \in {"unlock B", "idle"}
    BY <1>7 DEF Cleanup, Advance, TestTypeOK
  <2>2. Lone(t)'
    BY <2>1 DEF LoneTable, LoneEdges, LoneAnswer
  <2>3. QED
    BY <1>2, <1>7, <2>2 DEF Cleanup
<1>8. ASSUME NEW t \in Tester, Quit(t) PROVE LoneInv'
  <2> SUFFICES ASSUME NEW u \in Tester, alone[u] PROVE Lone(u)'
    BY <1>8 DEF Quit, LoneInv
  <2>1. CASE u = t
    <3>1. at'[u] = "idle"
      BY <1>8, <2>1 DEF Quit, TestTypeOK
    <3>2. QED
      BY <3>1 DEF LoneTable, LoneEdges, LoneAnswer
  <2>2. CASE u # t
    BY <1>8, <2>2 DEF Quit, LoneInv, LoneTable, LoneEdges, LoneAnswer, TestTypeOK, A, B, vars
  <2>3. QED
    BY <2>1, <2>2
<1>9. CASE UNCHANGED allVars
  BY <1>9 DEF allVars, testVars, vars, LoneInv, LoneTable, LoneEdges, LoneAnswer, A, B
<1>10. QED
  BY <1>1, <1>3, <1>4, <1>5, <1>6, <1>7, <1>8, <1>9 DEF TestNext

(* A test that no other test interferes with does what its summary says:   *)
(* it finds the deadlock it built, node 1 has both resources after node 2  *)
(* was aborted, and there is no deadlock any more; whatever earlier tests  *)
(* left behind.                                                            *)
THEOREM LoneTest == TestSpec => []LoneTestSucceeds
<1>1. TestInit => LoneInv
  BY DEF TestInit, LoneInv
<1>2. TestTypeOK /\ LoneInv /\ [TestNext]_allVars => LoneInv'
  BY LoneNext
<1>3. LoneInv => LoneTestSucceeds
  BY DEF LoneInv, LoneTable, LoneAnswer, LoneTestSucceeds
<1>4. QED
  BY <1>1, <1>2, <1>3, TestTypeCorrect, PTL DEF TestSpec
=============================================================================
