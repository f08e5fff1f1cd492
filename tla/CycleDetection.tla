--------------------------- MODULE CycleDetection ---------------------------
(***************************************************************************)
(* DetectCycle and dfs of src/deadlock/dag.go over the graph that          *)
(* WaitForGraph builds.  DetectCycle holds dm.mu, so the graph rests while *)
(* a search runs.  The call stack of dfs is the path it carries and, for   *)
(* each node, the neighbours its loop has yet to look at.  Roots are taken *)
(* in any order (a Go map), and so are neighbours (the list is a set).     *)
(***************************************************************************)
EXTENDS WaitForGraph, Naturals, Sequences

VARIABLES
  pc,        \* "idle", "search", or the answer: "cycle", "clear"
  visited,   \* nodes dfs was called for
  recStack,  \* nodes whose call of dfs has not returned
  path,      \* the nodes of the calls under way, outermost first
  left,      \* neighbours the loop of a call has yet to look at
  cycle      \* what is returned with the answer

search == <<pc, visited, recStack, path, left, cycle>>
allVars == <<vars, search>>

DetectTypeOK ==
  /\ TypeOK
  /\ pc \in {"idle", "search", "cycle", "clear"}
  /\ visited \in SUBSET Node
  /\ recStack \in SUBSET Node
  /\ path \in Seq(Node)
  /\ left \in [Node -> SUBSET Node]
  /\ cycle \in Seq(Node)

NothingLeft == [n \in Node |-> {}]

DetectInit ==
  /\ Init
  /\ pc = "idle"
  /\ visited = {} /\ recStack = {}
  /\ path = <<>> /\ cycle = <<>>
  /\ left = NothingLeft

-----------------------------------------------------------------------------
(* Any other method, while dm.mu is free. *)
ChangeGraph == pc = "idle" /\ Next /\ UNCHANGED search

Begin ==
  /\ pc = "idle"
  /\ pc' = "search"
  /\ UNCHANGED <<vars, visited, recStack, path, left, cycle>>

(* Enter dfs(n), called from a loop with the neighbours rest. *)
Visit(n, rest) ==
  /\ visited' = visited \cup {n}
  /\ recStack' = recStack \cup {n}
  /\ path' = Append(path, n)
  /\ left' = [rest EXCEPT ![n] = waitingFor[n]]

(* The loop of DetectCycle over the nodes with an entry. *)
RootsLeft_All == {n \in Node : waitingFor[n] # {}}
RootsLeft == {n \in Node : waitingFor[n] # {}} \ visited

NextRoot ==
  /\ pc = "search" /\ path = <<>>
  /\ \/ /\ \E n \in RootsLeft : Visit(n, left)
        /\ UNCHANGED pc
     \/ /\ RootsLeft = {}
        /\ pc' = "clear"
        /\ UNCHANGED <<visited, recStack, path, left>>
  /\ UNCHANGED <<vars, cycle>>

Top == path[Len(path)]

(* A neighbour that was seen before closes a cycle if its call of dfs is   *)
(* still under way.                                                        *)
Closes_Seen(m) == m \in visited
Closes(m) == m \in recStack

Reported_Path(m) == path
Reported(m) == Append(path, m)

LookAt(m) ==
  /\ pc = "search" /\ path # <<>> /\ m \in left[Top]
  /\ LET rest == [left EXCEPT ![Top] = @ \ {m}] IN
       \/ /\ m \notin visited
          /\ Visit(m, rest)
          /\ UNCHANGED <<pc, cycle>>
       \/ /\ m \in visited /\ Closes(m)
          /\ pc' = "cycle"
          /\ cycle' = Reported(m)
          /\ UNCHANGED <<visited, recStack, path, left>>
       \/ /\ m \in visited /\ ~Closes(m)
          /\ left' = rest
          /\ UNCHANGED <<pc, visited, recStack, path, cycle>>
  /\ UNCHANGED vars

Unstack_Kept(n) == recStack
Unstack(n) == recStack \ {n}

ReturnFromDfs ==
  /\ pc = "search" /\ path # <<>> /\ left[Top] = {}
  /\ recStack' = Unstack(Top)
  /\ path' = SubSeq(path, 1, Len(path) - 1)
  /\ UNCHANGED <<vars, pc, visited, left, cycle>>

(* The answer is returned, the maps of the search are garbage. *)
Return ==
  /\ pc \in {"cycle", "clear"}
  /\ pc' = "idle"
  /\ visited' = {} /\ recStack' = {}
  /\ path' = <<>> /\ cycle' = <<>>
  /\ left' = NothingLeft
  /\ UNCHANGED vars

SearchStep == NextRoot \/ (\E m \in Node : LookAt(m)) \/ ReturnFromDfs

DetectNext == ChangeGraph \/ Begin \/ SearchStep \/ Return

DetectSpec == DetectInit /\ [][DetectNext]_allVars

(* The goroutine of a search keeps running; nobody needs to start one. *)
DetectFairSpec == DetectSpec /\ WF_allVars(SearchStep) /\ WF_allVars(Return)

-----------------------------------------------------------------------------
(* The search answers what is true of the graph, whatever the graph.       *)
AnswerMatchesGraph ==
  /\ pc = "cycle" => HasCycle
  /\ pc = "clear" => ~HasCycle

(* dag.go:11, "Cycles in the graph indicate deadlocks": when DetectCycle   *)
(* reports a cycle, nodes really wait for each other's locks.              *)
ReportsOnlyDeadlocks == pc = "cycle" => Locks!Deadlocked

(* With clients that wait for one lock at a time the answer is exact: it   *)
(* is whether the locks, with all that was refused, are deadlocked.        *)
AnswerMatchesLocks ==
  /\ ReportsOnlyDeadlocks
  /\ pc = "clear" => ~Locks!Deadlocked

(* What is reported is a walk along wait edges that ends where it has been *)
(* before: the cycle is in it, after the nodes that only lead to it.       *)
ReportHoldsCycle ==
  pc = "cycle" =>
    /\ \A i \in 1..(Len(cycle) - 1) : cycle[i + 1] \in waitingFor[cycle[i]]
    /\ \E i \in 1..(Len(cycle) - 1) : cycle[i] = cycle[Len(cycle)]

(* To its callers the search is a single look at the graph: it answers for *)
(* the graph of that moment, and nobody sees it half done.                 *)
Test == INSTANCE Detector WITH edges <- waitingFor, phase <- pc
ImplementsDetector == Test!Spec

(* A search under way comes to an answer, whatever the graph: it calls dfs *)
(* for a node at most once.                                                *)
SearchEnds == pc = "search" ~> pc \in {"cycle", "clear"}
=============================================================================
