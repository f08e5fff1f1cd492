------------------------ MODULE CycleDetection_proofs ------------------------
(***************************************************************************)
(* The search of DetectCycle is right about every graph: it answers        *)
(* "cycle" only if there is one, "clear" only if there is none, and what   *)
(* it reports contains the cycle.  With clients that wait for one lock at  *)
(* a time the answer is whether the lock table is deadlocked.              *)
(***************************************************************************)
EXTENDS CycleDetection, WaitForGraph_proofs, SequenceTheorems

(* The nodes for which dfs has returned. *)
Finished == visited \ recStack

(* The path holds the nodes of the calls under way, once each, and follows *)
(* wait edges.                                                             *)
PathIsStack ==
  /\ recStack = {path[i] : i \in 1..Len(path)}
  /\ recStack \subseteq visited
  /\ \A i, j \in 1..Len(path) : path[i] = path[j] => i = j
PathIsWalk == \A i \in 1..(Len(path) - 1) : path[i + 1] \in waitingFor[path[i]]

(* A neighbour that was looked at is finished, or its call is under way,   *)
(* made by this one.                                                       *)
LeftAreEdges == \A n \in visited : left[n] \subseteq waitingFor[n]
LookedAt ==
  \A n \in visited : \A m \in waitingFor[n] \ left[n] :
    m \in Finished \/ \E i \in 1..(Len(path) - 1) : path[i] = n /\ path[i + 1] = m

(* Edges of finished nodes lead to finished nodes, and close no cycle. *)
FinishedClosed == \A n \in Finished : waitingFor[n] \subseteq Finished
NoCycleBehind ==
  \A S \in SUBSET Finished : S # {} => \E n \in S : waitingFor[n] \cap S = {}

Searching ==
  /\ PathIsStack /\ PathIsWalk
  /\ LeftAreEdges /\ LookedAt
  /\ FinishedClosed /\ NoCycleBehind
AtRest == visited = {} /\ recStack = {} /\ path = <<>>

SearchInv ==
  /\ pc = "idle" => AtRest
  /\ pc = "search" => Searching
  /\ AnswerMatchesGraph
  /\ ReportHoldsCycle

-----------------------------------------------------------------------------
LEMMA DetectTypeNext == DetectTypeOK /\ [DetectNext]_allVars => DetectTypeOK'
<1> SUFFICES ASSUME DetectTypeOK, [DetectNext]_allVars PROVE DetectTypeOK'
  OBVIOUS
<1>1. CASE ChangeGraph
  <2>1. TypeOK'
    BY <1>1, TypeNext DEF ChangeGraph, DetectTypeOK
  <2>2. QED
    BY <1>1, <2>1 DEF ChangeGraph, DetectTypeOK, search
<1>2. ASSUME UNCHANGED vars PROVE TypeOK'
  BY <1>2 DEF vars, TypeOK, DetectTypeOK
<1>3. CASE Begin
  BY <1>2, <1>3 DEF Begin, DetectTypeOK
<1>4. CASE NextRoot
  <2>1. CASE \E n \in RootsLeft : Visit(n, left)
    BY <1>2, <1>4, <2>1 DEF NextRoot, Visit, DetectTypeOK, TypeOK, RootsLeft
  <2>2. CASE pc' = "clear" /\ UNCHANGED <<visited, recStack, path, left>>
    BY <1>2, <1>4, <2>2 DEF NextRoot, DetectTypeOK
  <2>3. QED
    BY <1>4, <2>1, <2>2 DEF NextRoot
<1>5. ASSUME NEW m \in Node, LookAt(m) PROVE DetectTypeOK'
  <2>1. Top \in Node
    BY <1>5 DEF LookAt, DetectTypeOK, Top
  <2> DEFINE rest == [left EXCEPT ![Top] = @ \ {m}]
  <2>2. rest \in [Node -> SUBSET Node]
    BY <2>1 DEF DetectTypeOK
  <2>3. CASE Visit(m, rest) /\ UNCHANGED <<pc, cycle>>
    <3> HIDE DEF rest
    <3>1. left' \in [Node -> SUBSET Node]
      BY <2>2, <2>3 DEF Visit, DetectTypeOK, TypeOK
    <3>2. QED
      BY <1>2, <1>5, <2>3, <3>1 DEF LookAt, Visit, DetectTypeOK
  <2>4. CASE pc' = "cycle" /\ cycle' = Reported(m)
             /\ UNCHANGED <<visited, recStack, path, left>>
    BY <1>2, <1>5, <2>4 DEF LookAt, Reported, DetectTypeOK
  <2>5. CASE left' = rest /\ UNCHANGED <<pc, visited, recStack, path, cycle>>
    BY <1>2, <1>5, <2>2, <2>5 DEF LookAt, DetectTypeOK
  <2>6. QED
    BY <1>5, <2>3, <2>4, <2>5 DEF LookAt
<1>6. CASE ReturnFromDfs
  <2>1. path' \in Seq(Node)
    BY <1>6 DEF ReturnFromDfs, DetectTypeOK
  <2>2. QED
    BY <1>2, <1>6, <2>1 DEF ReturnFromDfs, Unstack, DetectTypeOK
<1>7. CASE Return
  BY <1>2, <1>7 DEF Return, NothingLeft, DetectTypeOK
<1>8. CASE UNCHANGED allVars
  BY <1>2, <1>8 DEF allVars, search, DetectTypeOK
<1>9. QED
  BY <1>1, <1>3, <1>4, <1>5, <1>6, <1>7, <1>8 DEF DetectNext, SearchStep

(* The state of a search is well formed, for any clients. *)
THEOREM DetectTypeCorrect == DetectSpec => []DetectTypeOK
<1>1. DetectInit => DetectTypeOK
  BY DEF DetectInit, Init, DetectTypeOK, TypeOK, NothingLeft
<1>2. QED
  BY <1>1, DetectTypeNext, PTL DEF DetectSpec
-----------------------------------------------------------------------------
(* Entering dfs(n) from the node on top, or as a root, with what is left   *)
(* to look at elsewhere.                                                   *)
LEMMA VisitKeeps ==
  ASSUME DetectTypeOK, Searching,
         NEW n \in Node, n \notin visited,
         NEW rest \in [Node -> SUBSET Node],
         Visit(n, rest),
         UNCHANGED <<vars, pc, cycle>>,
         \/ path = <<>> /\ rest = left
         \/ path # <<>> /\ n \in waitingFor[Top] /\ rest = [left EXCEPT ![Top] = @ \ {n}]
  PROVE  Searching'
<1> USE DEF DetectTypeOK, TypeOK, Visit, vars
<1>1. /\ Len(path') = Len(path) + 1 /\ Len(path) \in Nat
      /\ \A i \in 1..Len(path) : path'[i] = path[i] /\ path[i] \in Node
      /\ path'[Len(path) + 1] = n
  OBVIOUS
<1>2. \A i \in 1..Len(path) : path[i] # n
  BY DEF Searching, PathIsStack
<1>3. PathIsStack'
  BY <1>1, <1>2 DEF Searching, PathIsStack
<1>4. PathIsWalk'
  <2>1. ASSUME NEW i \in 1..(Len(path') - 1) PROVE path'[i + 1] \in waitingFor'[path'[i]]
    <3>1. CASE i = Len(path)
      BY <1>1, <2>1, <3>1 DEF Top
    <3>2. CASE i # Len(path)
      BY <1>1, <2>1, <3>2 DEF Searching, PathIsWalk
    <3>3. QED
      BY <3>1, <3>2
  <2>2. QED
    BY <2>1 DEF PathIsWalk
<1>5. Finished' = Finished
  BY DEF Finished, Searching, PathIsStack
<1>6. LookedAt'
  <2>1. ASSUME NEW k \in visited', NEW m \in waitingFor'[k] \ left'[k]
        PROVE  m \in Finished' \/ \E i \in 1..(Len(path') - 1) : path'[i] = k /\ path'[i + 1] = m
    <3>1. k # n
      BY <2>1
    <3>2. k \in visited /\ k \in Node /\ m \in waitingFor[k] \ rest[k]
      BY <2>1, <3>1
    <3>3. CASE m \in waitingFor[k] \ left[k]
      <4>1. CASE m \in Finished
        BY <1>5, <4>1
      <4>2. CASE \E i \in 1..(Len(path) - 1) : path[i] = k /\ path[i + 1] = m
        BY <1>1, <4>2
      <4>3. QED
        BY <3>2, <3>3, <4>1, <4>2 DEF Searching, LookedAt
    <3>4. CASE m \in left[k]
      <4>1. path # <<>> /\ k = Top /\ m = n
        BY <3>2, <3>4
      <4>2. Len(path) \in 1..(Len(path') - 1) /\ path'[Len(path)] = k
            /\ path'[Len(path) + 1] = m
        BY <1>1, <4>1 DEF Top
      <4>3. QED
        BY <4>2
    <3>5. QED
      BY <3>2, <3>3, <3>4
  <2>2. QED
    BY <2>1 DEF LookedAt
<1>7. FinishedClosed' /\ NoCycleBehind'
  BY <1>5 DEF Searching, FinishedClosed, NoCycleBehind
<1>8. LeftAreEdges'
  <2>1. ASSUME NEW k \in Node PROVE rest[k] \subseteq left[k]
    <3>1. CASE rest = left
      BY <3>1
    <3>2. CASE rest = [left EXCEPT ![Top] = @ \ {n}]
      BY <3>2
    <3>3. QED
      BY <3>1, <3>2
  <2>2. \A k \in visited : k \in Node
    OBVIOUS
  <2>3. QED
    BY <2>1, <2>2 DEF Searching, LeftAreEdges
<1>9. QED
  BY <1>3, <1>4, <1>6, <1>7, <1>8 DEF Searching

(* A neighbour that was seen and is not on the stack is finished. *)
LEMMA SkipKeeps ==
  ASSUME DetectTypeOK, Searching, path # <<>>,
         NEW m \in visited, m \notin recStack,
         left' = [left EXCEPT ![Top] = @ \ {m}],
         UNCHANGED <<vars, pc, visited, recStack, path, cycle>>
  PROVE  Searching'
<1> USE DEF DetectTypeOK, TypeOK, vars
<1>1. /\ \A k \in visited : k \in Node /\ left'[k] \subseteq left[k]
      /\ \A k \in visited : left[k] \ left'[k] \subseteq {m}
      /\ m \in Finished
  BY DEF Finished
<1>2. LookedAt' /\ LeftAreEdges'
  BY <1>1 DEF Searching, LookedAt, LeftAreEdges, Finished
<1>3. PathIsStack' /\ PathIsWalk'
  BY DEF Searching, PathIsStack, PathIsWalk
<1>4. FinishedClosed' /\ NoCycleBehind'
  <2>1. Finished' = Finished
    BY DEF Finished
  <2>2. QED
    BY <2>1 DEF Searching, FinishedClosed, NoCycleBehind
<1>5. QED
  BY <1>2, <1>3, <1>4 DEF Searching

LEMMA FrontFacts ==
  ASSUME NEW S, NEW s \in Seq(S), s # <<>>
  PROVE  /\ Len(s) \in Nat \ {0}
         /\ Len(SubSeq(s, 1, Len(s) - 1)) = Len(s) - 1
         /\ \A i \in 1..(Len(s) - 1) : SubSeq(s, 1, Len(s) - 1)[i] = s[i]
<1>1. Len(s) \in Nat \ {0} /\ \A i \in 1..Len(s) : s[i] \in S
  OBVIOUS
<1> DEFINE k == Len(s) - 1
           f == SubSeq(s, 1, k)
<1>2. 1 \in Int /\ k \in Nat /\ \A i \in 1..k : s[i] \in S
  BY <1>1
<1> HIDE DEF k
<1>3. /\ Len(f) = IF 1 <= k THEN k - 1 + 1 ELSE 0
      /\ \A i \in 1..(k - 1 + 1) : f[i] = s[1 + i - 1]
  BY <1>2, SubSeqProperties
<1> HIDE DEF f
<1>4. Len(f) = k /\ \A i \in 1..k : f[i] = s[i]
  BY <1>2, <1>3
<1>5. QED
  BY <1>1, <1>4 DEF k, f

(* When dfs returns, all neighbours of its node were finished before it.   *)
LEMMA ReturnKeeps ==
  ASSUME DetectTypeOK, Searching, ReturnFromDfs
  PROVE  Searching'
<1> DEFINE n == Top
<1> USE DEF DetectTypeOK, TypeOK, vars, ReturnFromDfs, Unstack
<1>1. /\ Len(path) \in Nat \ {0}
      /\ Len(path') = Len(path) - 1
      /\ \A i \in 1..(Len(path) - 1) : path'[i] = path[i]
      /\ \A i \in 1..Len(path) : path[i] \in Node
      /\ n = path[Len(path)] /\ n \in Node
  <2>1. Len(path) \in Nat \ {0} /\ \A i \in 1..Len(path) : path[i] \in Node
    OBVIOUS
  <2>2. /\ Len(path') = Len(path) - 1
        /\ \A i \in 1..(Len(path) - 1) : path'[i] = path[i]
    BY FrontFacts
  <2>3. QED
    BY <2>1, <2>2 DEF Top
<1> HIDE DEF n
<1>2. recStack' = recStack \ {n} /\ left[n] = {}
  BY DEF n
<1>3. n \in visited /\ n \in recStack
  BY <1>1 DEF Searching, PathIsStack
<1>4. PathIsStack'
  <2>1. recStack' = {path'[i] : i \in 1..Len(path')}
    BY <1>1, <1>2 DEF Searching, PathIsStack
  <2>2. \A i, j \in 1..Len(path') : path'[i] = path'[j] => i = j
    BY <1>1 DEF Searching, PathIsStack
  <2>3. QED
    BY <1>2, <2>1, <2>2 DEF Searching, PathIsStack
<1>5. PathIsWalk'
  BY <1>1 DEF Searching, PathIsWalk
<1>6. Finished' = Finished \cup {n} /\ n \notin Finished
  BY <1>2, <1>3 DEF Finished
<1>7. waitingFor[n] \subseteq Finished
  <2> SUFFICES ASSUME NEW m \in waitingFor[n] PROVE m \in Finished
    OBVIOUS
  <2>1. m \in Finished \/ \E i \in 1..(Len(path) - 1) : path[i] = n /\ path[i + 1] = m
    BY <1>2, <1>3 DEF Searching, LookedAt
  <2>2. ~ \E i \in 1..(Len(path) - 1) : path[i] = n
    BY <1>1 DEF Searching, PathIsStack
  <2>3. QED
    BY <2>1, <2>2
<1>8. FinishedClosed'
  BY <1>6, <1>7 DEF Searching, FinishedClosed
<1>9. NoCycleBehind'
  <2> SUFFICES ASSUME NEW S \in SUBSET Finished', S # {}
               PROVE  \E k \in S : waitingFor[k] \cap S = {}
    BY DEF NoCycleBehind
  <2>1. CASE S \subseteq {n}
    BY <1>6, <1>7, <2>1
  <2>2. CASE ~(S \subseteq {n})
    <3>1. S \ {n} \in SUBSET Finished /\ S \ {n} # {}
      BY <1>6, <2>2
    <3>2. PICK k \in S \ {n} : waitingFor[k] \cap (S \ {n}) = {}
      BY <3>1 DEF Searching, NoCycleBehind
    <3>3. n \notin waitingFor[k]
      BY <1>6, <3>1, <3>2 DEF Searching, FinishedClosed
    <3>4. QED
      BY <3>2, <3>3
  <2>3. QED
    BY <2>1, <2>2
<1>10. LookedAt'
  <2>1. ASSUME NEW k \in visited', NEW m \in waitingFor'[k] \ left'[k]
        PROVE  m \in Finished' \/ \E i \in 1..(Len(path') - 1) : path'[i] = k /\ path'[i + 1] = m
    <3>1. CASE m \in Finished
      BY <1>6, <3>1
    <3>2. ASSUME NEW i \in 1..(Len(path) - 1), path[i] = k, path[i + 1] = m
          PROVE  m \in Finished' \/ \E j \in 1..(Len(path') - 1) : path'[j] = k /\ path'[j + 1] = m
      <4>1. CASE i = Len(path) - 1
        BY <1>1, <1>6, <3>2, <4>1
      <4>2. CASE i # Len(path) - 1
        <5>1. i \in 1..(Len(path') - 1)
          BY <1>1, <4>2
        <5>2. path'[i] = k /\ path'[i + 1] = m
          BY <1>1, <3>2, <5>1
        <5>3. QED
          BY <5>1, <5>2
      <4>3. QED
        BY <4>1, <4>2
    <3>3. QED
      BY <2>1, <3>1, <3>2 DEF Searching, LookedAt
  <2>2. QED
    BY <2>1 DEF LookedAt
<1>11. LeftAreEdges'
  BY DEF Searching, LeftAreEdges
<1>12. QED
  BY <1>4, <1>5, <1>8, <1>9, <1>10, <1>11 DEF Searching

-----------------------------------------------------------------------------
(* An answer is right when it is given. *)
LEMMA CycleFound ==
  ASSUME DetectTypeOK, Searching, path # <<>>,
         NEW m \in waitingFor[Top], m \in recStack,
         pc' = "cycle", cycle' = Append(path, m), UNCHANGED vars
  PROVE  AnswerMatchesGraph' /\ ReportHoldsCycle'
<1> USE DEF DetectTypeOK, TypeOK, vars
<1>1. /\ Len(path) \in Nat \ {0}
      /\ \A i \in 1..Len(path) : path[i] \in Node
      /\ m \in Node
      /\ Len(cycle') = Len(path) + 1
      /\ \A i \in 1..Len(path) : cycle'[i] = path[i]
      /\ cycle'[Len(path) + 1] = m
  BY DEF Top
<1>2. PICK k \in 1..Len(path) : path[k] = m
  BY DEF Searching, PathIsStack
<1>3. ReportHoldsCycle'
  <2>1. ASSUME NEW i \in 1..Len(path) PROVE cycle'[i + 1] \in waitingFor[cycle'[i]]
    <3>1. CASE i = Len(path)
      BY <1>1, <3>1 DEF Top
    <3>2. CASE i # Len(path)
      BY <1>1, <3>2 DEF Searching, PathIsWalk
    <3>3. QED
      BY <3>1, <3>2
  <2>2. cycle'[k] = cycle'[Len(cycle')]
    BY <1>1, <1>2
  <2>3. Len(cycle') - 1 = Len(path) /\ waitingFor' = waitingFor
    BY <1>1
  <2>4. QED
    BY <2>1, <2>2, <2>3 DEF ReportHoldsCycle
<1>4. HasCycle
  <2> DEFINE S == {path[i] : i \in k..Len(path)}
  <2>1. S \in SUBSET Node /\ S # {}
    BY <1>1
  <2>2. ASSUME NEW i \in k..Len(path) PROVE waitingFor[path[i]] \cap S # {}
    <3>1. CASE i = Len(path)
      BY <1>1, <1>2, <3>1 DEF Top
    <3>2. CASE i # Len(path)
      <4>1. i + 1 \in k..Len(path) /\ i \in 1..(Len(path) - 1)
        BY <1>1, <3>2
      <4>2. path[i + 1] \in waitingFor[path[i]]
        BY <4>1 DEF Searching, PathIsWalk
      <4>3. QED
        BY <4>1, <4>2
    <3>3. QED
      BY <3>1, <3>2
  <2>3. \A n \in S : waitingFor[n] \cap S # {}
    BY <2>2
  <2> HIDE DEF S
  <2>4. QED
    BY <2>1, <2>3 DEF HasCycle
<1>5. QED
  BY <1>3, <1>4 DEF AnswerMatchesGraph, HasCycle

LEMMA NoCycleFound ==
  ASSUME DetectTypeOK, Searching, path = <<>>, RootsLeft = {},
         pc' = "clear", UNCHANGED vars
  PROVE  AnswerMatchesGraph' /\ ReportHoldsCycle'
<1> USE DEF DetectTypeOK, TypeOK, vars
<1>1. Finished = visited
  BY DEF Searching, PathIsStack, Finished
<1>2. ASSUME NEW S \in SUBSET Node, S # {}, \A n \in S : waitingFor[n] \cap S # {}
      PROVE  FALSE
  <2>1. S \subseteq Finished
    BY <1>1, <1>2 DEF RootsLeft
  <2>2. QED
    BY <1>2, <2>1 DEF Searching, NoCycleBehind
<1>3. ~HasCycle
  BY <1>2 DEF HasCycle
<1>4. QED
  BY <1>3 DEF AnswerMatchesGraph, HasCycle, ReportHoldsCycle

LEMMA SearchInvNext ==
  ASSUME DetectTypeOK, SearchInv, [DetectNext]_allVars
  PROVE  SearchInv'
<1> USE DEF SearchInv, AtRest
<1>0. ASSUME pc' \notin {"cycle", "clear"} PROVE AnswerMatchesGraph' /\ ReportHoldsCycle'
  BY <1>0 DEF AnswerMatchesGraph, ReportHoldsCycle
<1>1. CASE ChangeGraph
  BY <1>0, <1>1 DEF ChangeGraph, search
<1>2. CASE Begin
  <2>1. Searching'
    BY <1>2 DEF Begin, Searching, PathIsStack, PathIsWalk, LeftAreEdges, LookedAt, FinishedClosed,
                NoCycleBehind, Finished
  <2>2. QED
    BY <1>0, <1>2, <2>1 DEF Begin
<1>3. CASE NextRoot
  <2>1. ASSUME NEW n \in RootsLeft, Visit(n, left), UNCHANGED pc PROVE SearchInv'
    <3>1. Searching'
      BY <1>3, <2>1, VisitKeeps DEF NextRoot, RootsLeft, DetectTypeOK
    <3>2. QED
      BY <1>0, <1>3, <2>1, <3>1 DEF NextRoot
  <2>2. CASE RootsLeft = {} /\ pc' = "clear"
    BY <1>3, <2>2, NoCycleFound DEF NextRoot
  <2>3. QED
    BY <1>3, <2>1, <2>2 DEF NextRoot
<1>4. ASSUME NEW m \in Node, LookAt(m) PROVE SearchInv'
  <2> DEFINE rest == [left EXCEPT ![Top] = @ \ {m}]
  <2>1. pc = "search" /\ path # <<>> /\ m \in left[Top] /\ Top \in Node /\ Searching
    BY <1>4 DEF LookAt, Top, DetectTypeOK
  <2>2. m \in waitingFor[Top]
    BY <1>4, <2>1 DEF LookAt, Searching, LeftAreEdges, PathIsStack, Top, DetectTypeOK
  <2>3. rest \in [Node -> SUBSET Node]
    BY <2>1 DEF DetectTypeOK
  <2>4. CASE m \notin visited /\ Visit(m, rest) /\ UNCHANGED <<pc, cycle>>
    <3>1. Searching'
      BY <1>4, <2>1, <2>2, <2>3, <2>4, VisitKeeps DEF LookAt
    <3>2. QED
      BY <1>0, <2>1, <2>4, <3>1
  <2>5. CASE Closes(m) /\ pc' = "cycle" /\ cycle' = Reported(m)
    BY <1>4, <2>1, <2>2, <2>5, CycleFound DEF LookAt, Closes, Reported
  <2>6. CASE m \in visited /\ ~Closes(m) /\ left' = rest
             /\ UNCHANGED <<pc, visited, recStack, path, cycle>>
    <3>1. Searching'
      BY <1>4, <2>1, <2>6, SkipKeeps DEF LookAt, Closes
    <3>2. QED
      BY <1>0, <2>1, <2>6, <3>1
  <2>7. QED
    BY <1>4, <2>4, <2>5, <2>6 DEF LookAt
<1>5. CASE ReturnFromDfs
  BY <1>0, <1>5, ReturnKeeps DEF ReturnFromDfs
<1>6. CASE Return
  BY <1>0, <1>6 DEF Return
<1>7. CASE UNCHANGED allVars
  <2>1. Searching => Searching'
    BY <1>7 DEF allVars, vars, search, Searching, PathIsStack, PathIsWalk, LeftAreEdges, LookedAt,
                FinishedClosed, NoCycleBehind, Finished
  <2>2. AnswerMatchesGraph' /\ ReportHoldsCycle'
    BY <1>7 DEF allVars, vars, search, AnswerMatchesGraph, HasCycle, ReportHoldsCycle
  <2>3. QED
    BY <1>7, <2>1, <2>2 DEF allVars, search
<1>8. QED
  BY <1>1, <1>2, <1>3, <1>4, <1>5, <1>6, <1>7 DEF DetectNext, SearchStep

-----------------------------------------------------------------------------
LEMMA SearchInvariant == DetectSpec => [](DetectTypeOK /\ SearchInv)
<1>1. DetectInit => SearchInv
  BY DEF DetectInit, SearchInv, AtRest, AnswerMatchesGraph, ReportHoldsCycle
<1>2. DetectTypeOK /\ SearchInv /\ [DetectNext]_allVars => SearchInv'
  BY SearchInvNext
<1>3. QED
  BY <1>1, <1>2, DetectTypeCorrect, PTL DEF DetectSpec

(* The search is right about any graph the manager can hold, also with     *)
(* clients that pile up waits.                                             *)
THEOREM SearchCorrect == DetectSpec => []AnswerMatchesGraph
<1>1. SearchInv => AnswerMatchesGraph
  BY DEF SearchInv
<1>2. QED
  BY <1>1, SearchInvariant, PTL

(* A report of DetectCycle is a walk along wait edges that closes. *)
THEOREM ReportCorrect == DetectSpec => []ReportHoldsCycle
<1>1. SearchInv => ReportHoldsCycle
  BY DEF SearchInv
<1>2. QED
  BY <1>1, SearchInvariant, PTL

(* Searches do not touch the lock table: the manager with searches behaves *)
(* as WaitForGraph, whose theorems carry over.                             *)
LEMMA SearchesAreInvisible == DetectSpec => Spec
<1>1. DetectInit => Init
  BY DEF DetectInit
<1>2. [DetectNext]_allVars => [Next]_vars
  BY DEF DetectNext, allVars, ChangeGraph, Begin, SearchStep, NextRoot, LookAt,
         ReturnFromDfs, Return
<1>3. QED
  BY <1>1, <1>2, PTL DEF DetectSpec, Spec

(* With clients that wait for one lock at a time, DetectCycle answers      *)
(* exactly whether the locks, with all that was refused, are deadlocked.   *)
THEOREM DetectionExact ==
  ASSUME SingleWait
  PROVE  DetectSpec => []AnswerMatchesLocks
<1>1. (HasCycle <=> Locks!Deadlocked) /\ AnswerMatchesGraph => AnswerMatchesLocks
  BY DEF AnswerMatchesGraph, AnswerMatchesLocks, ReportsOnlyDeadlocks
<1>2. DetectSpec => [](HasCycle <=> Locks!Deadlocked)
  BY SearchesAreInvisible, CyclesExact
<1>3. QED
  BY <1>1, <1>2, SearchCorrect, PTL

(* Between two nodes DetectCycle never reports a deadlock that is none,    *)
(* whatever they ask for, also when they pile up waits.                    *)
THEOREM ReportsRealOfTwo ==
  ASSUME NEW a, NEW b, Node = {a, b}
  PROVE  DetectSpec => []ReportsOnlyDeadlocks
<1>1. CyclesAreDeadlocks /\ AnswerMatchesGraph => ReportsOnlyDeadlocks
  BY DEF AnswerMatchesGraph, CyclesAreDeadlocks, ReportsOnlyDeadlocks
<1>2. DetectSpec => []CyclesAreDeadlocks
  BY SearchesAreInvisible, CyclesRealOfTwo
<1>3. QED
  BY <1>1, <1>2, SearchCorrect, PTL

-----------------------------------------------------------------------------
(* Only the step that ends a search shows outside, with the right answer.  *)
LEMMA SearchSimulates ==
  ASSUME DetectTypeOK, DetectTypeOK', AnswerMatchesGraph', [DetectNext]_allVars
  PROVE  [Test!Next]_(Test!detectorVars)
<1> USE DEF Test!Next, Test!detectorVars, vars
<1>1. Test!Cyclic <=> HasCycle
  BY DEF Test!Cyclic, HasCycle
<1>2. CASE ChangeGraph
  <2>1. waitingFor' \in [Node -> SUBSET Node]
    BY DEF DetectTypeOK, TypeOK
  <2>2. QED
    BY <1>2, <2>1 DEF ChangeGraph, search, Test!Change
<1>3. CASE Begin
  BY <1>3 DEF Begin, Test!Ask
<1>4. CASE SearchStep
  <2>1. pc = "search" /\ waitingFor' = waitingFor /\ pc' \in {"search", "cycle", "clear"}
    BY <1>4 DEF SearchStep, NextRoot, LookAt, ReturnFromDfs
  <2>2. HasCycle' <=> HasCycle
    BY <2>1 DEF HasCycle
  <2>3. CASE pc' = "search"
    BY <2>1, <2>3
  <2>4. CASE pc' = "cycle"
    BY <1>1, <2>1, <2>2, <2>4 DEF AnswerMatchesGraph, Test!Answer
  <2>5. CASE pc' = "clear"
    BY <1>1, <2>1, <2>2, <2>5 DEF AnswerMatchesGraph, Test!Answer
  <2>6. QED
    BY <2>1, <2>3, <2>4, <2>5
<1>5. CASE Return
  BY <1>5 DEF Return, Test!Deliver
<1>6. CASE UNCHANGED allVars
  BY <1>6 DEF allVars, search
<1>7. QED
  BY <1>2, <1>3, <1>4, <1>5, <1>6 DEF DetectNext

(* The depth-first search implements a single look at the whole graph, for *)
(* any nodes and whatever the clients do: calls of DetectCycle may be      *)
(* taken for one step.                                                     *)
THEOREM DetectRefinement == DetectSpec => ImplementsDetector
<1>1. DetectInit => Test!Init
  BY DEF DetectInit, Init, Test!Init
<1>2. QED
  BY <1>1, SearchSimulates, DetectTypeCorrect, SearchCorrect, PTL
  DEF DetectSpec, ImplementsDetector, Test!Spec
=============================================================================
