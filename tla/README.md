# dynamo-go in TLA+

Specifications, model-checking runs and machine-checked proofs for the Go
program under `src/`: a small replicated key-value store with a Bully leader
election, Ricart-Agrawala mutual exclusion and a wait-for graph that detects
deadlocks.

## The system

Every node is one process (`src/main.go`). It holds a `Node` (`src/node/node.go`),
serves Go `net/rpc` calls (`src/node/rpc_handlers.go`), one goroutine per call,
and runs two goroutines of its own: the startup election and the heartbeat
monitor. Nothing is persisted; a restarted process begins from `NewNode`. A
command-line client calls any node.

| component | state | operations | talks to |
| --- | --- | --- | --- |
| mutual exclusion, `mutex/ricart_agrawala.go` | `RequestingCS`, `RequestTime`, `DeferredQueue`, `LamportClock`, one copy per node | `RequestCriticalSection`, `ReleaseCriticalSection`, handlers `RequestCS`, `ReleaseCS` | the same component of the other nodes |
| `MutexPut`, `node/rpc_handlers.go` | `DataStore` | critical section around a local write and its replication | mutual exclusion, `Put` at the owners |
| election, `election/bully.go` | `LeaderID`, `IsLeader`, `electionInProgress` | `StartElection`, the monitor, handlers `Election`, `Coordinator`, `Heartbeat` | the other nodes |
| deadlock manager, `deadlock/dag.go` | `heldResources`, `waitingFor`, `waitingResource`, a log | `Lock`, `Unlock`, `DetectCycle`, `Resolve`, `Reset` | only its callers; one independent copy per node |
| storage, `node/rpc_handlers.go` | `DataStore` | `Put`, `Get`, `Delete`, replication, propagation of deletes | partition manager, the other nodes |
| partitioning, `partition/` | hash ring, replication factor, `enabled` | `AddNode`, `RemoveNode`, `GetPartitionOwners`, setters | storage |
| client, `client/client.go` | none | one command at a time; `quorum-get` with read repair, the deadlock test | all handlers |

What is hard in this code, and what makes each part correct:

* **Mutual exclusion.** Three kinds of actors share a node's request: callers,
  handlers, and the goroutines that send deferred replies. Handlers move the
  clock before they take the lock. Calls time out and may still be processed
  later; processes die. Correct means: a grant goes only to the older request;
  two callers that hold each other's grants are never inside together; the
  queue is emptied; every call returns.
* **MutexPut.** The lock must cover the whole replication, and a dying caller
  leaves calls behind. Correct means: a write that was alone inside is at every
  owner when it returns.
* **Election.** Two goroutines of one node may start an election; answers time
  out; announcements are sent by goroutines nobody waits for. Correct means:
  one election of a node at a time, no leader below a running node, and in the
  end a leader that everybody follows. The last two hold only in part, see below.
* **Deadlock manager.** Waits are kept per node, although a release is about a
  resource. Every node has a manager of its own, any of which accepts calls, and
  a client uses that of the node that said it leads. Several clients may use it
  at once in the name of the same nodes. Correct means: an edge is there exactly
  while its waiter waits for its target; the search reports a cycle exactly if
  locks are deadlocked; locks are at one node at a time.
* **Storage.** Writes carry timestamps nobody compares, deletes travel by
  themselves, a repair writes back what was read earlier, and a replica that is
  down is skipped. Correct means: an acknowledged key is not lost, copies agree
  once a write has run by itself, every command returns.
* **Partitioning.** The owners of a key depend on a ring that is kept twice (a
  map and a sorted list), where virtual nodes may collide, and that is only
  filled while partitioning is enabled. Correct means: the two halves agree; the
  owners are the closest members, as many as the factor allows, whatever the
  order in which nodes were added; a change of members moves few of them.

`PROJECT.json` lists the places where this bites as hazards, line by line.

## Modules

| module | what it is |
| --- | --- |
| `RicartAgrawala` | mutual exclusion and the `RequestCS` handler |
| `MCRicartAgrawala` | homes and crash bounds for its runs |
| `RicartAgrawala_proofs` | its theorems |
| `MutexPut` | extends `RicartAgrawala` by the data: write, replication, loss on a crash |
| `MCMutexPut` | values for its run |
| `MutexPut_proofs` | its theorems |
| `Replication` | put, delete and quorum-get with read repair on the replicas of one key |
| `MCReplication` | crash bounds and symmetry for its runs |
| `Replication_proofs` | its theorems |
| `WaitForGraph` | the deadlock manager |
| `LockTable` | what it promises: owners and waiters per resource |
| `WaitForGraph_proofs` | its theorems, the refinement among them |
| `CycleDetection` | extends `WaitForGraph` by the depth-first search of `DetectCycle` |
| `Detector` | what a search promises: one look at the whole graph |
| `CycleDetection_proofs` | its theorems, the refinement of `Detector` among them |
| `DeadlockTest` | extends `WaitForGraph` by clients that run the `deadlock-test` command |
| `MCDeadlockTest` | the resources and the symmetry of its runs |
| `DeadlockTest_proofs` | its theorems |
| `Bully` | the election |
| `LeaderLocks` | extends `Bully` by a lock table per node and the clients that look for the leader |
| `LeaderLocks_proofs` | the theorems of `Bully` and of `LeaderLocks` |
| `HashRing` | the hash ring, the partition manager and the targets of a put |
| `MCHashRing` | the placements of its runs |
| `HashRing_proofs` | its theorems |

### RicartAgrawala

A *caller* is one execution of `MutexPut` on its home node; a node may serve
several. The node's fields are `requesting`, `requestTime`, `deferred`, `clock`.
`pc` says where a caller is:

| `pc` | code |
| --- | --- |
| `idle` | not called, or returned |
| `registered` | between `MutexLock.Unlock()` and the read of `RequestTime` (line 37) |
| `collect` | waiting for the calls or for the overall timer (88-93) |
| `deferred` | `waitForDeferredReplies` |
| `cs` | in the function given to `ExecuteInCriticalSection` |

A `RequestCS` call is a message in `net`; `Receive` is its `UpdateClock`, which
comes before `MutexLock`, and `RequestCS` is the decision under the lock, so a
request of the serving node can fall between the two. A call that timed out goes
on as a message without a caller: its handler may still run and still queue
something. The "deferred reply" is what the code makes it, another `RequestCS`
call with a fresh timestamp. It grants nothing; nobody waits for it.

Abstracted: the order of the queue (it is drained as a whole, by one goroutine
per entry); log output; `ReplyCount`, which nothing reads; all other users of
the clock, which are one action, `OtherTraffic`. A jump of the clock is several
of these. The outcome of a call reaches the caller with the decision of the
handler; a reply in flight is a caller that has not acted on it yet, and a lost
reply is `CallTimeout` just before.

### MutexPut

The steps of `RicartAgrawala` with the data of one key. Entering fixes
`Targets`: the home node, then the owners other than it in ring order.
`WriteNext` performs one write; a node that is down is skipped.
`replicateToPartitionNodes` skips a node on any error of `Dial` or `Call`; that
calls between running nodes succeed is assumed, here and in `Replication`.
The call has no timeout: that it comes back is an assumption of the liveness run. A caller that dies in the middle of a call
leaves the call in `stray`. The owners are the constant `Owners`. `alone` and
`interrupted` are history variables, used only by the property.

### Replication

One key. A client runs one command at a time; `pc` is `put` while a server runs
its `Put`, `second` between the two reads of `quorum-get`, `repair` before the
repair. `server`, `value` and `todo` are the server, the timestamp carried, and
the replicas `replicateToPartitionNodes` has yet to reach; it goes through them
one after the other, in an order that depends on the key and is left open. A
delete removes the key at its server and leaves one goroutine per target in
`deleting`, which arrive in any order and at any time. `Get` changes nothing and
appears only within `quorum-get`.

An item is its timestamp. It is the client's wall clock (`time.Now().UnixNano()`),
taken before the call, so a put may carry an older one than what is stored; that
no two puts share one is assumed. Between running nodes calls succeed; a node
that is down cannot be dialled. A crash loses the node's data, ends the commands
it serves, and leaves what it was sending to arrive or be lost. The owners
(`Copies`) are a constant: all nodes when partitioning is off, the owners of the
key otherwise. `crashes`, `acked`, `alone` and `tidy` are history variables, used
only by the properties.

### WaitForGraph and LockTable

Each method of `DAGManager` holds `mu` throughout and is one action. The lists
of `waitingFor` are sets: every use of them is indifferent to order and
repetition. `SingleWait` restricts the clients to asking, while they wait, only
for what they wait for; one run of the program's client does that, but `Lock`
does not demand it, and overlapping runs do not (`DeadlockTest`).

What really waits is more than the graph says once waits pile up: the record of
a second wait replaces the first, and `Unlock` and `Resolve` clear edges by
record and by target. The history variable `refused` therefore keeps every
refusal until the resource is released, its holder or its waiter is aborted, or
the manager is reset; `Locks` is the lock table with those waiters, and what
the graph or a search says is compared with `Locks!Deadlocked`. `refused` guards
no action. `LockTable` keeps waiters per resource. `WaitForGraph` maps to it by
reading the waiters of `r` off the nodes that have an edge and are recorded for
`r`; the record alone is not enough, since `Resolve` leaves it behind.

### CycleDetection

`DetectCycle` holds `mu`, so the graph rests while a search runs
(`ChangeGraph` needs `pc = "idle"`). The recursion of `dfs` is a machine: `path`
is the call stack, `left[n]` what the loop of the call for `n` has yet to look
at, and `Visit`, `LookAt` and `ReturnFromDfs` are a call, one turn of the loop
and a return. `visited` and `recStack` are the code's. Roots and neighbours come
in any order. What is returned is the whole path with the neighbour that closed
the cycle, as in the code, so it may begin with nodes that only lead to it.
`Detector` is what the caller sees of all this: the answer for the graph of one
moment. The mapping reads its `edges` off `waitingFor` and its `phase` off `pc`.

### DeadlockTest

Each tester is a client that runs the script of `handleDeadlockTest`; `at` is
the call it is to do next. All testers act as nodes 1 and 2, which is what the
script sends. Results of `DAGLock` do not change its course, and node 2 is
aborted whether or not a deadlock was found. Calls of different tests interleave
freely, and a test may end after any call (`Quit`), leaving its locks. All tests
find the same leader here; what a change of leader does is in `LeaderLocks`.
`DAGDetect` is one step, as it holds `mu`; that a search may be taken for one
is what `CycleDetection` shows with `Detector`. `alone`, `left` are history variables.

### Bully

`at[n][t]` is where task `t` (the startup goroutine or the monitor) of node `n`
is. `Election` and `Heartbeat` handlers change nothing (but the clock), so those
calls are their outcome: answered while the peer runs, failed while it does not,
and, if `Slow`, failed by the timer although it runs. `Coordinator` calls change
the receiver, so they are messages: `coord[m][n]` counts those under way.
`IsLeader` is always `LeaderID = ID`, so there is one variable. Heartbeats sent
by the leader are left out, since the handler ignores who sends them.

### LeaderLocks

The steps of `Bully` beside those of clients. `table[n]` is what is locked in
the manager of node `n`; who holds it and who waits is in `WaitForGraph`.
`server[c]` is the node a client is connected to. `findLeader` asks one node
after the other and keeps the connection to the first that says it leads; only
that answer matters, so it is one step, and what happens to the leadership
between it and the calls that follow is what the module is about. A crash clears
the table and cuts the connections. `led` is a history variable.

### HashRing

A key is its hash, a number below `HashSpace`, and the virtual nodes of a node
hash to any of the sets `Placements` allows, chosen once: MD5 is a function
nobody relies on beyond that. `ring` and `sortedHashes` are both kept, the list
with its repetitions after a collision. `sort.Slice` is `Sorted`, by rank: at
position `k` stands the value with fewer than `k` values below it and at least
`k` up to it. `GetNodes` walks the list as the code does: `Met` are the nodes met
clockwise, `Taken` is what the loop has collected after each of them.
The program itself only adds the configured nodes (`NewNode`); `RemoveNode`,
`SetEnabled` and `SetReplicationFactor` are the interface of the manager, called
here in any order. A put asks the manager twice, for `IsEnabled` and for the owners
(rpc_handlers.go:91 and 93), each under its lock; `PutTargets` takes both answers
at one moment, as nobody calls `SetEnabled` in between. `AddNode` of a member and `RemoveNode` of a stranger change
nothing, and neither does anything while partitioning is off.
`PutReachesOwners` relates `IsOwner` to what `replicateToPartitionNodes` does. It
leaves out one state: partitioning enabled on an empty ring. Then everybody
counts as an owner and a put stays where it was served; `MCHashRing_enable.cfg`
shows how `SetEnabled` leads there.

## Runs

All bounds are constants of the modules: `MaxClock` (no new request or idle
clock tick from this value on), `MaxCrashes`, `MaxStarts`, `MaxDeletes`,
`MaxPending` (announcements of a node to one peer under way at once; a further
call counts as failed), `MaxQuits` (tests that end early), `HashSpace`, and the number of `Stamp`s, which
is the number of puts.

| run | instance | shows |
| --- | --- | --- |
| `ra_safety` | 2 nodes, a caller each, `MaxClock` 2, node 2 may crash once (0.9 million states) | `GrantsFollowRequestOrder`, `GrantedExclusion`, `QueueOnlyWhileRequesting` |
| `ra_exclusion` | 2 nodes, no crash | **violated**: `AnsweredExclusion` |
| `ra_clients` | 2 callers on one node | **violated**: `ClientExclusion` |
| `mutexput` | 2 nodes that both own the key, `MaxClock` 1, node 1 may crash once, fair | `ExclusiveWriteReplicated`, `EveryCallReturns`, `QueueDrains` |
| `replication` | 3 nodes with every key, 2 clients, 2 puts, 1 delete, node 2 may crash once, clients symmetric (0.6 million states) | `Agreement`, `NeverLost` |
| `repl_repair` | 2 nodes, 2 clients, no crash, no delete | **violated**: `RepairsOnlyOlder` |
| `detect` | 3 nodes, 3 resources, single waits, fair (66 thousand states) | `EdgesSound`, `NoLostEdge`, `ImplementsLockTable`, `ImplementsDetector`, `AnswerMatchesLocks`, `ReportHoldsCycle`, `SearchEnds` |
| `deadlock_test` | 3 clients, 2 resource names, one test may end early, clients and names symmetric (0.2 million states) | `LoneTestSucceeds`, `TestsCleanUp`, `CyclesAreDeadlocks` |
| `leader_crash` | 3 nodes, 1 crash, prompt calls, 1 client, `MaxPending` 1, fair monitors (0.2 million states) | `OneElection`, `LeaderIsHighest`, `OneTable`, `HighestLeads` |
| `leader_restart` | 2 nodes, crash, restart, slow calls, 2 clients, `MaxPending` 2, fair (0.4 million states) | `OneElection`, `LocksWhereLed`, `KeepsTrying` |
| `bully_leaderless` | 2 nodes, crash and restart | **violated**: `SomeoneLeads` |
| `hashring` | 3 nodes, 2 virtual nodes each, 6 hashes, factors 0, 2, 4 (79 thousand states) | `RingConsistent`, `OwnersAreClosest`, `OwnersStable`, `PutReachesOwners` |

The bounds are small but reach the interesting cases. In `ra_safety` both nodes
request with equal and with different timestamps, request again after a release
with leftovers of the first round in the network, and lose a peer at any point;
two nodes suffice for the pairwise properties, and the theorems cover any
number. In `replication` two puts, or a put and a repair or a delete, overlap at
every copy in every order; node 2, the second node read, may die as a copy or
while it serves a put that has reached one of the two others, which must agree
again later. Every node has every key, as with the shipped `config.json` (three
nodes, factor 3). `detect` has chains and cycles of three
waiters, and graphs where two paths lead to one node. In `deadlock_test` two
clients share a name while a third uses another, at every offset.
`leader_crash` has a leader, a successor and a third node that learns from
either, with the client at any of them in turn; `leader_restart` has a process
that lost its locks and comes back. `hashring` has every placement of two points
per node without a collision, every one on the first four hashes, where they
collide, factors below one and beyond the number of nodes, and keys past the last
point.

### The violated runs

Each states a sentence of the repository and refutes it.

* `AnsweredExclusion` (README.md:161, "only ONE node can write data at a time",
  and 172, "Once ALL alive nodes grant"): both nodes run and answer in time; the
  deferred one waits for a timer only (`waitForDeferredReplies`) and then enters.
  That a call which *times out* counts as a grant is documented (README.md:97) and
  not what this run is about, so the property asks nothing of callers with such
  a call. `MutualExclusion`, the plain sentence, is kept for
  `ExclusionSuffices`.
* `ClientExclusion` (README.md:176): callers of one node share one request and
  ask only the other nodes.
* `RepairsOnlyOlder` (README.md:502, "If one node has an older or missing value, it
  will automatically repair that node"): the repair is an ordinary `Put`, which
  does not compare timestamps; a put that came after the read is overwritten.
* `SomeoneLeads` (README.md:131, "Automatically elects a leader"): with a crash
  and a restart, two announcements cross, each node follows the other, and both
  are satisfied, since `Heartbeat` answers whether the receiver leads or not.

### Further configurations

These are kept beside the runs, one property each; TLC refutes all but the
last, which holds, in under a minute. They mark where the assumptions of the passing runs end.

| configuration, with its module | property | what TLC finds |
| --- | --- | --- |
| `MCRicartAgrawala_overwrite.cfg` | `GrantsExclude` (README.md:161) | a second `MutexPut` of a node replaces `RequestTime` (ricart_agrawala.go:33); the handler compares with the newer one and grants what the earlier request should have deferred, without timeout or crash |
| `MCRicartAgrawala_flag.cfg` | `CurrentGrantsExclude` (README.md:161) | the release of one `MutexPut` lowers the flag (172) under which another of the node would defer |
| `MCRicartAgrawala_restart.cfg` | `GrantsExclude` | the clock of a restarted node begins at 0 (node.go:142); its request looks older than the one it granted before the crash, and is granted |
| `MCReplication_ack.cfg` | `ReturnsWhenAllAcknowledge` (PARTITIONING.md:146, "Return when all replicas acknowledge") | a replica that is down is skipped (rpc_handlers.go:115) and the put reports success |
| `MCCycleDetection_waits.cfg` with `CycleDetection` | `ReportsOnlyDeadlocks` (dag.go:11, "Cycles in the graph indicate deadlocks") | a node that asks for a second resource, held by a third node, while it waits for the first keeps the edge of the first after its release (dag.go:57) |
| `MCDeadlockTest_missed.cfg` | `EveryDeadlockFound` (README.md:196, "Detects deadlocks") | `Unlock` drops all edges of a node whose last recorded wait ends, also those of a wait that goes on (dag.go:87); of overlapping tests one is told that there is no deadlock while nodes 1 and 2 wait for each other |
| `MCLeaderLocks_stale.cfg` with `LeaderLocks` | `LocksByLeader` (rpc_handlers.go:509, "only works on leader") | `DAGLock` does not ask whether its node leads: a late announcement of the dead leader deposes the node a client is connected to, and the client locks there all the same |
| `MCHashRing_enable.cfg` | `EnablingKeepsReach` (PARTITIONING.md:180, "supports dynamic configuration") | a manager created with partitioning off has ignored every `AddNode`; `SetEnabled(true)` leaves it with an empty ring |
| `MCReplication_live.cfg` | `CommandsReturn` | holds: every put and quorum read ends, a node that is down being skipped. It is the other side of `ReturnsWhenAllAcknowledge`: the code cannot have both |

Not shown by any of them: a node below the leader that starts late is told
nothing, as `Heartbeat` ignores who sends it, so it may know no leader; and after a
restart two nodes may each have granted locks, so `OneTable` is for crashes alone.

### Fairness

The runs `ra_*`, `replication`, `repl_repair`, `deadlock_test` and `hashring`
assume none. `MutexPut` assumes that a caller that
started keeps running: goroutines are scheduled and `time.After` fires. It also
assumes that a replica write returns, with success or an error, which the code
does not ensure: `client.Call` (rpc_handlers.go:128) has no timeout, so a peer that
accepts the connection and never answers would hold the caller. Of the requests
and answers of the mutual exclusion nothing is assumed, nor that anyone ever
calls. `FairSpec` of `Replication`, for
the further configurations, assumes that a command that was issued goes on and
that the goroutines of a delete run.
`Bully` assumes the same of its two goroutines, and that a call to a peer gets
through or fails. The steps of one goroutine are one fairness condition, as it
does one thing at a time; its alternatives (answered or timed out) are not
forced separately. `LeaderLocks` assumes what `Bully` does and nothing of the
clients. `HighestLeads` is checked under less, `MonitorFairness`: the monitors run
and elections end; startup elections may never begin, and announcements never
arrive. `CycleDetection` assumes that a search that was begun goes on, as it
waits for nothing once it holds `mu`. Crashes, starts and requests need never
happen.

## Proofs

Theorems hold for all values of the constants that meet the named assumptions:
any number of nodes, callers, resources, crashes and clock bounds.

* **RicartAgrawala_proofs.** `TypeCorrect` and `QueueOwner` need no further
  assumption than the types. `GrantOrder` and `Exclusion` assume
  `OneCallerPerNode`, and must: `ra_clients` shows what happens otherwise. The
  properties are not inductive. `IInv` adds: an active caller's node is
  requesting with the timestamp the caller sent (`ActiveRequests`, `SentTime`);
  a call with a caller under way carries that timestamp and its outcome is
  pending (`LiveCalls`); a node that has taken a call past `UpdateClock` has a
  clock beyond it (`ServedTime`), so that any request it makes afterwards is
  younger; hence a grant comes before the granter's request whenever both are
  active (`GrantTime`). Exclusion follows: two mutual grants would each come
  before the other.
* **MutexPut_proofs.** `PutTypeCorrect` and `ReplicatedWhenAlone`, for any nodes,
  owners, callers and crashes; several callers of one node are allowed, as the
  property is about a call that was alone whatever the reason. `PutInv`: only
  callers inside have something to write (`WritesInside`); a caller marked alone
  is (`AloneInside`); writes of dead callers exist only after some caller died
  inside (`NoStray`); and such a lone caller has left its value at every healthy
  target it is done with (`Covered`). Of the steps of `RicartAgrawala` it needs
  only that they are its steps (`PutStepIsStep`) and whom they take in and out of
  the critical section. Hence `PutSpec` implies `Spec` (`PutUsesMutex`), and
  `WritersExclude` takes the theorems about grants over. `ExclusionSuffices` says
  what the writes ask of the mutex: in a behaviour with `MutualExclusion` and
  `ClientExclusion`, neither of which the code ensures (`ra_exclusion`,
  `ra_clients`), every call returns replicated, alone or not. While no two calls are inside, whoever is inside has
  been alone from its entry (`AllAlone`).
* **Replication_proofs.** `TypeCorrect`, `KeyNeverLost` and `CopiesAgree`, for any
  nodes, clients, timestamps and crashes. All steps fall into eight kinds, as far
  as the data is concerned (`StepKinds`). For `NeverLost`, as long as nothing was
  deleted a healthy copy that has the key keeps it (`KeyStays`), which needs that
  no command writes the absent item (`RealValues`), and a put has covered every
  healthy copy it is done with (`Covered`). For `Agreement`, a put that is alone
  has left its value everywhere it has been (`Solo`), and a tidy state is in
  agreement, has one lone put, or has a delete on its way to each copy that still
  holds the key (`TidyCases`). A healthy copy, one that never crashed, is up, so
  it is not skipped (`HealthyUp`).
* **WaitForGraph_proofs.** `TypeCorrect` for any clients; `Soundness`,
  `EdgesKept` and `Refinement` for clients with single waits. `EdgesSound` is
  inductive with the types; the refinement uses it, because `Unlock` clears
  waiters by record and `Resolve` by edge, and the two agree only if every edge
  points to the holder of the recorded resource. `SoundnessOfTwo` needs no single
  waits but just two nodes: an edge then leads to the other node whichever
  refusal it stems from, and no node waits for itself (`NoSelfEdge`).
  What the graph means for the locks is said with `refused`, which keeps the waits
  `Unlock` may drop: every record with an edge is a refusal (`RecordRefused`), so
  sound edges make a cycle a deadlock (`CycleIsDeadlock`). Hence
  `CyclesRealOfTwo`, without single waits; with them no other refusal
  is open (`OnlyRecorded`), so that also a deadlock is a cycle, `CyclesExact`.
  Without single waits a deadlock need not be a cycle, and with three nodes a
  cycle need not be a deadlock (`MCDeadlockTest_missed.cfg`,
  `MCCycleDetection_waits.cfg`).
* **CycleDetection_proofs.** `DetectTypeCorrect`, `SearchCorrect` and
  `ReportCorrect` for any clients, `DetectionExact` for single waits,
  `ReportsRealOfTwo` for two nodes.
  `SearchInv` is the classical argument about a depth-first search in progress:
  the path is `recStack` without repetitions (`PathIsStack`) and a walk along
  edges (`PathIsWalk`); what is left of a loop are edges of its node
  (`LeftAreEdges`), and what was looked at has returned or is the call made from
  there (`LookedAt`); nodes whose call returned have edges only to such nodes
  (`FinishedClosed`), and no set of them is a cycle (`NoCycleBehind`). When no
  root is left, every node with an edge has returned, so there is no cycle.
  `DetectionExact` and `ReportsRealOfTwo` add what `CyclesExact` and
  `CyclesRealOfTwo` say of cycles: the answer is whether the locks, with all that
  was refused, are deadlocked, or between two nodes, that a report is one.
  `DetectRefinement`: only the step that ends a search shows in `Detector`, and it
  shows the right answer.
* **DeadlockTest_proofs**, for any clients and resource names. The calls of the
  script are steps of the manager (`TestsUseTheManager`), and its nodes are two,
  so `TestEdgesSound` and `TestsReportDeadlocks` hold however the tests overlap
  and pile up waits; that they may miss one shows
  `MCDeadlockTest_missed.cfg`. `CleanUp` rests on `HeldInv`: unless a test was stopped half
  way, for whatever is held some test has yet to do the step that gives it back.
  `LoneTest` rests on `LoneInv`: at each step, a test that was alone since its
  reset finds the locks, edges and answer that its own steps made.
* **LeaderLocks_proofs.** Of the election: `ElectionsExclusive` (for any crashes,
  starts and slow calls) from the flag being raised whenever a goroutine is in an
  election.
  `LeaderHighest` under `CrashOnly`: nodes run from the beginning, only crash,
  and calls are prompt. A refused call stays the truth about a node
  (`RefusedIsDown`), an election has called everybody above (`AskedAbove`), and
  only an election makes a leader (`NoSelfCall`).
  Of the locks: `LocksOnlyWhereLed` for any crashes, starts and delays:
  a leader led, a client is connected to a process that led, and a lock is where a
  client was (`LedInv`). `TableUnique` under `CrashOnly`: a node that led stays
  without a running node above it, since nodes do not come back
  (`LedIsHighest`); two nodes in use are then one. It rests on the invariant of
  the election.
* **HashRing_proofs**, for any nodes, hash space, placements and factors.
  `RingTypeCorrect` and `Consistency` hold with collisions, too; `RingInv` adds
  that without them a member has all its virtual nodes on the ring
  (`MembersPlaced`). They rest on what `Sorted` does to any sequence: the same
  values, in ascending order (`SortedValues`). `PutReaches` and `OwnersClosest`
  rest on what the walk of `GetNodes` collects from any sequence of nodes
  (`WholeWalk`): the nodes in the order of their first visits, and every visited
  one unless the list was full before. Around the ring no hash is nearer to the
  key than the one before (`HashesMet`), so a node is met first at its distance
  (`MemberMet`), and the order of first visits is that of distances. Two lists of
  the closest members begin alike (`ClosestAgree`); from this follow `OwnersStay`,
  where the lists are those before and after a node joins or leaves, and
  `OwnersAgreed`, which says that nodes that filled their rings in different
  orders agree on the owners. `OwnersClosest`, `OwnersStay` and `OwnersAgreed` are
  about rings without collisions, as distances may be equal otherwise.

The induction theorems of the library need an operator as parameter, which the
provers cannot instantiate. Where a loop is followed through its data, `Taken`
above all, the proofs take the least number that would fail (`LeastNumber`,
`UpToBound`), which exists by well-foundedness of the natural numbers, and show
that `Taken` is the function its recursion describes (`WalkExists`). The other
proofs are about steps and need no induction but that of the invariant rule.

Only model-checked: everything temporal under fairness (`EveryCallReturns`,
`QueueDrains`, `HighestLeads`, `KeepsTrying`, `SearchEnds`),
which is beyond the prover. Every other property of the passing runs is the
statement of a theorem, under the assumption named there.

## Plan

Done: all modules above, with their proofs. Left: the effects of a change of the
ring on `Replication`, should the program ever call the setters, and what can be
proved towards the liveness properties: measures that every step of a caller, a
command or a search decreases.

## Not modelled

The client's commands that only list and print, the reading of configuration,
the sockets, the handlers that only report (`ListKeys`, `GetPartitionInfo`,
`DAGGraph`, `DAGLogs`, and all of `Status` but the leader), the statistics of
the partition manager, and `deadlock/wait_die.go`, which is empty. The operation
log of the deadlock manager is left out: nothing reads it but `DAGLogs`.
Integer overflow of the clock is not modelled: it is an `int64` that
grows by one per event, or jumps to a wall-clock nanosecond value with the
client's timestamps.
