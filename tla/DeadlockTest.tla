---------------------------- MODULE DeadlockTest ----------------------------
(***************************************************************************)
(* The client's deadlock-test command (handleDeadlockTest in               *)
(* src/client/client.go): a script of calls to the deadlock manager of the *)
(* leader, on behalf of nodes 1 and 2.  Several clients may run it at the  *)
(* same time, with the same or with different resource names; the manager  *)
(* cannot tell them apart.  Between two calls of one test anything of the  *)
(* others may happen (the script pauses half a second after each).         *)
(*                                                                         *)
(* A call answers or fails; if it fails, or the client is stopped, the     *)
(* test ends there.  The calls that only read (showDAGGraph) are left out; *)
(* DAGDetect is one step, as CycleDetection shows it may be, and answers   *)
(* whether the graph has a cycle.                                          *)
(***************************************************************************)
EXTENDS WaitForGraph, Naturals

CONSTANTS Tester,    \* clients that run the command
          Name,      \* resource names given to it
          MaxQuits   \* bound: tests that end early

ASSUME TestAssumption ==
  /\ Node = {1, 2} /\ Resource = Name \X {"A", "B"} /\ ~SingleWait
  /\ MaxQuits \in Nat

VARIABLES
  at,     \* the step of the script a tester is to do next
  name,   \* the resource name it was given
  found,  \* what its last DAGDetect answered
  alone,  \* history: no other test did a step since its reset
  quits,  \* tests that ended early, bounded
  left    \* history: a test ended early since the last reset

testVars == <<at, name, found, alone, quits, left>>
allVars == <<vars, testVars>>

Step == {"idle", "1 locks A", "2 locks B", "1 asks B", "2 asks A", "detect",
         "resolve", "1 retries B", "verify", "unlock A", "unlock B"}

TestTypeOK ==
  /\ TypeOK
  /\ at \in [Tester -> Step]
  /\ name \in [Tester -> Name]
  /\ found \in [Tester -> BOOLEAN]
  /\ alone \in [Tester -> BOOLEAN]
  /\ quits \in 0..MaxQuits
  /\ left \in BOOLEAN

TestInit ==
  /\ Init
  /\ at = [t \in Tester |-> "idle"]
  /\ name \in [Tester -> Name]
  /\ found = [t \in Tester |-> FALSE]
  /\ alone = [t \in Tester |-> FALSE]
  /\ quits = 0
  /\ left = FALSE

A(t) == <<name[t], "A">>
B(t) == <<name[t], "B">>

(* The next call of the script; every other test is no longer alone. *)
Advance(t, from, to) ==
  /\ at[t] = from
  /\ at' = [at EXCEPT ![t] = to]
  /\ alone' = [u \in Tester |-> u = t /\ alone[t]]
  /\ UNCHANGED <<name, quits, left>>

-----------------------------------------------------------------------------
(* findLeader, then DAGReset: it clears what other tests have locked, too. *)
Begin(t) ==
  /\ at[t] = "idle"
  /\ at' = [at EXCEPT ![t] = "1 locks A"]
  /\ \E r \in Name : name' = [name EXCEPT ![t] = r]
  /\ found' = [found EXCEPT ![t] = FALSE]
  /\ alone' = [u \in Tester |-> u = t]
  /\ left' = FALSE
  /\ Reset
  /\ UNCHANGED quits

(* Steps 1 to 4; whether a lock is granted makes no difference. *)
LockSteps(t) ==
  /\ \/ Advance(t, "1 locks A", "2 locks B") /\ Lock(1, A(t))
     \/ Advance(t, "2 locks B", "1 asks B") /\ Lock(2, B(t))
     \/ Advance(t, "1 asks B", "2 asks A") /\ Lock(1, B(t))
     \/ Advance(t, "2 asks A", "detect") /\ Lock(2, A(t))
  /\ UNCHANGED found

Detect(t) ==
  /\ \/ Advance(t, "detect", "resolve")
     \/ Advance(t, "verify", "unlock A")
  /\ found' = [found EXCEPT ![t] = HasCycle]
  /\ UNCHANGED vars

(* Node 2 is aborted whether or not a deadlock was found. *)
Victim_One == 1
Victim == 2

ResolveStep(t) ==
  /\ Advance(t, "resolve", "1 retries B")
  /\ Resolve(Victim)
  /\ UNCHANGED found

Retry(t) ==
  /\ Advance(t, "1 retries B", "verify")
  /\ Lock(1, B(t))
  /\ UNCHANGED found

(* The manager ignores the release of what is not held. *)
Release(n, r) == Unlock(n, r) \/ (held[r] # n /\ UNCHANGED vars)

Cleanup(t) ==
  /\ \/ Advance(t, "unlock A", "unlock B") /\ Release(1, A(t))
     \/ Advance(t, "unlock B", "idle") /\ Release(1, B(t))
  /\ UNCHANGED found

(* A call fails or the client is stopped: nothing is undone. *)
Quit(t) ==
  /\ at[t] # "idle"
  /\ quits < MaxQuits
  /\ at' = [at EXCEPT ![t] = "idle"]
  /\ quits' = quits + 1
  /\ left' = TRUE
  /\ UNCHANGED <<vars, name, found, alone>>

TestNext ==
  \E t \in Tester :
    \/ Begin(t) \/ LockSteps(t) \/ Detect(t) \/ ResolveStep(t)
    \/ Retry(t) \/ Cleanup(t) \/ Quit(t)

TestSpec == TestInit /\ [][TestNext]_allVars

-----------------------------------------------------------------------------
(* client.go:776-783, the summary of the command: a test that nobody else  *)
(* interferes with finds the deadlock it built, gets both resources for    *)
(* node 1 after the abort, and then finds none; also when earlier tests    *)
(* ended early and left locks and waits behind.                            *)
LoneTestSucceeds ==
  \A t \in Tester : alone[t] =>
    /\ at[t] = "resolve" => found[t]
    /\ at[t] = "unlock A" => ~found[t] /\ held[A(t)] = 1 /\ held[B(t)] = 1

(* When all tests are over and none ended early since the last reset,      *)
(* nothing is held and nobody waits, however they overlapped.              *)
TestsCleanUp ==
  (\A t \in Tester : at[t] = "idle") /\ ~left =>
    /\ \A r \in Resource : held[r] = None
    /\ \A n \in Node : waitingFor[n] = {}

(* README.md:196, "Detects deadlocks (circular dependencies) when multiple *)
(* nodes compete for the same resources": a test that asks while the locks *)
(* are deadlocked is told so.                                              *)
DeadlockFound == \A t \in Tester : Detect(t) /\ Locks!Deadlocked => found'[t]
EveryDeadlockFound == [][DeadlockFound]_allVars
=============================================================================
