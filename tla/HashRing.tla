------------------------------ MODULE HashRing ------------------------------
(***************************************************************************)
(* Which nodes store a key: src/partition/consistent_hash.go (the ring)    *)
(* and src/partition/partition_manager.go (the manager, whose methods take *)
(* its mutex), with the targets of a Put in src/node/rpc_handlers.go.      *)
(*                                                                         *)
(* A hash is a number below HashSpace; a key is its hash.  Where the       *)
(* virtual nodes of a node hash to is chosen once (point); two nodes may   *)
(* collide.  NewNode only adds the configured nodes; the other operations  *)
(* are the interface of the manager.                                       *)
(***************************************************************************)
EXTENDS Naturals, FiniteSets, SequencesExt

CONSTANTS
  Node,
  HashSpace,   \* hashes are 0 .. HashSpace - 1
  Placements,  \* the ways virtual nodes may hash: functions Node -> set of hashes,
               \* at least one each (NewConsistentHash corrects a count of zero)
  Factors      \* replication factors asked for, 0 among them

Hash == 0..(HashSpace - 1)

ASSUME HashAssumption ==
  HashSpace \in Nat \ {0} /\ Placements \subseteq [Node -> (SUBSET Hash) \ {{}}]
ASSUME FactorAssumption == Factors \subseteq Nat

VARIABLES
  point,         \* the hashes of a node's virtual nodes
  ring,          \* hash -> node
  sortedHashes,  \* with repetitions after a collision
  members,       \* physicalNodes
  factor,        \* replicationFactor
  enabled

vars == <<point, ring, sortedHashes, members, factor, enabled>>

RingTypeOK ==
  /\ point \in Placements
  /\ DOMAIN ring \subseteq Hash /\ \A h \in DOMAIN ring : ring[h] \in Node
  /\ sortedHashes \in Seq(Hash)
  /\ members \subseteq Node
  /\ factor \in Nat \ {0}
  /\ enabled \in BOOLEAN

(* NewPartitionManager: an unusable factor means three. *)
Init ==
  /\ point \in Placements
  /\ ring = [h \in {} |-> 0] /\ sortedHashes = <<>> /\ members = {}
  /\ factor \in {IF f < 1 THEN 3 ELSE f : f \in Factors}
  /\ enabled \in BOOLEAN

-----------------------------------------------------------------------------
(* sort.Slice, ascending: at position k the value with fewer than k values *)
(* below it and at least k values up to it.                                *)
Below(s, h) == Cardinality({i \in DOMAIN s : s[i] < h})
UpTo(s, h) == Cardinality({i \in DOMAIN s : s[i] <= h})
Sorted(s) ==
  [k \in 1..Len(s) |-> CHOOSE h \in ToSet(s) : Below(s, h) < k /\ k <= UpTo(s, h)]

AddedHashes(n) == Sorted(sortedHashes \o SetToSeq(point[n]))

AddNode(n) ==
  /\ enabled /\ n \notin members
  /\ members' = members \cup {n}
  /\ ring' = [h \in DOMAIN ring \cup point[n] |-> IF h \in point[n] THEN n ELSE ring[h]]
  /\ sortedHashes' = AddedHashes(n)
  /\ UNCHANGED <<point, factor, enabled>>

(* The hashes are rebuilt from what is left of the ring. *)
RemainingHashes_Stale(n) == SelectSeq(sortedHashes, LAMBDA h : ring[h] # n)
RemainingHashes(n) == Sorted(SetToSeq(DOMAIN ring \ point[n]))

RemoveNode(n) ==
  /\ enabled /\ n \in members
  /\ members' = members \ {n}
  /\ ring' = [h \in DOMAIN ring \ point[n] |-> ring[h]]
  /\ sortedHashes' = RemainingHashes(n)
  /\ UNCHANGED <<point, factor, enabled>>

(* While partitioning is off, AddNode and RemoveNode do nothing. *)
SetEnabled(b) ==
  /\ enabled' = b
  /\ UNCHANGED <<point, ring, sortedHashes, members, factor>>

UsableFactor_AsGiven(f) == f
UsableFactor(f) == IF f < 1 THEN 1 ELSE f

SetReplicationFactor(f) ==
  /\ factor' = UsableFactor(f)
  /\ UNCHANGED <<point, ring, sortedHashes, members, enabled>>

Next ==
  \/ \E n \in Node : AddNode(n) \/ RemoveNode(n)
  \/ \E b \in BOOLEAN : SetEnabled(b)
  \/ \E f \in Factors : SetReplicationFactor(f)

Spec == Init /\ [][Next]_vars

-----------------------------------------------------------------------------
(* Lookup.                                                                 *)

(* The first position whose hash is not below the key's, or, past the end  *)
(* of the ring, the first of all.                                          *)
AtOrAfter_After(h, key) == h > key
AtOrAfter(h, key) == h >= key

Start_Modulo(key) == 1 + (key % Len(sortedHashes))
Start(key) ==
  LET after == {i \in DOMAIN sortedHashes : AtOrAfter(sortedHashes[i], key)}
  IN  IF after = {} THEN 1 ELSE CHOOSE i \in after : \A j \in after : i <= j

NodeAt(i) == ring[sortedHashes[((i - 1) % Len(sortedHashes)) + 1]]

(* The nodes met clockwise from there, one for each listed hash. *)
Met(key) == [i \in 1..Len(sortedHashes) |-> NodeAt(Start(key) + i - 1)]

(* Each node is taken when it is met first, until there are enough: what   *)
(* is taken after so many steps.                                           *)
Taken(met, count) ==
  LET found[i \in 0..Len(met)] ==
        IF i = 0 THEN <<>>
        ELSE LET soFar == found[i - 1]
             IN  IF Len(soFar) < count /\ met[i] \notin ToSet(soFar)
                 THEN Append(soFar, met[i]) ELSE soFar
  IN  found

GetNodes(key, wanted) ==
  LET count == IF wanted > Cardinality(members) THEN Cardinality(members) ELSE wanted
  IN  IF DOMAIN ring = {} THEN <<>> ELSE Taken(Met(key), count)[Len(sortedHashes)]

GetPartitionOwners(key) == IF enabled THEN GetNodes(key, factor) ELSE <<>>

(* No owners listed means that everybody is one. *)
IsOwner(n, key) ==
  LET owners == GetPartitionOwners(key) IN owners = <<>> \/ n \in ToSet(owners)

(* Where a Put served by n goes: itself, and whom replicateToPartitionNodes *)
(* picks, if nobody calls SetEnabled between its two questions.            *)
PutTargets_ReplicasOnly(n, key) ==
  LET owners == GetPartitionOwners(key) IN
  {n} \cup (IF enabled THEN {owners[i] : i \in 2..Len(owners)} ELSE Node)
PutTargets(n, key) ==
  {n} \cup (IF enabled THEN ToSet(GetPartitionOwners(key)) ELSE Node)

-----------------------------------------------------------------------------
(* The two halves of the ring belong together: every listed hash is one of *)
(* the ring, and is a point of the member it leads to.  A lookup then      *)
(* never yields a node that is not there, also after collisions, where one *)
(* node's removal deletes a hash that another one uses.                    *)
RingConsistent ==
  /\ ToSet(sortedHashes) = DOMAIN ring
  /\ \A i, j \in DOMAIN sortedHashes : i < j => sortedHashes[i] <= sortedHashes[j]
  /\ \A h \in DOMAIN ring : ring[h] \in members /\ h \in point[ring[h]]

NoCollision == \A m, n \in Node : m # n => point[m] \cap point[n] = {}

(* How far clockwise from the key the first virtual node of n is. *)
Distance(n, key) ==
  LET d == {(h + HashSpace - key) % HashSpace : h \in point[n]}
  IN  CHOOSE x \in d : \A y \in d : x <= y

(* Without collisions the owners of a key are the members closest to it    *)
(* clockwise, in that order, as many as the factor asks for and the ring   *)
(* has; hence distinct, and independent of the order nodes were added in.  *)
OwnersAreClosest ==
  NoCollision =>
    \A key \in Hash :
      LET s == GetNodes(key, factor) IN
        /\ Len(s) = IF factor > Cardinality(members) THEN Cardinality(members) ELSE factor
        /\ \A i, j \in DOMAIN s : i < j => Distance(s[i], key) < Distance(s[j], key)
        /\ \A i \in DOMAIN s, m \in members \ ToSet(s) : Distance(s[i], key) < Distance(m, key)

(* A node that joins takes its place among the owners of a key and at most *)
(* displaces the last; one that leaves only lets others move up.           *)
Others(s, n) ==
  IF n \in ToSet(s) THEN RemoveAt(s, CHOOSE i \in DOMAIN s : s[i] = n) ELSE s
KeepsOwners ==
  NoCollision =>
    \A key \in Hash :
      \A before \in {GetNodes(key, factor)}, after \in {GetNodes(key, factor)'} :
        /\ \A n \in members' \ members : IsPrefix(Others(after, n), before)
        /\ \A n \in members \ members' : IsPrefix(Others(before, n), after)
OwnersStable == [][members' # members => KeepsOwners]_vars

(* A Put through any node reaches every node that counts itself an owner.  *)
EveryPutReaches ==
  \A m \in Node, key \in Hash :
    IsOwner(m, key) => \A n \in Node : m \in PutTargets(n, key)

(* PARTITIONING.md:145, "Replicate to all replica nodes": every Put does   *)
(* reach its owners, except while partitioning is enabled on an   *)
(* empty ring: then everybody is an owner, and the Put stays where it was  *)
(* served.                                                                 *)
PutReachesOwners == (enabled => DOMAIN ring # {}) => EveryPutReaches

(* PARTITIONING.md:180, "The `PartitionManager` supports dynamic           *)
(* configuration", with SetEnabled as its first call: to turn partitioning *)
(* on or off takes no owner out of the reach of puts.                      *)
EnablingKeepsReach ==
  [][enabled' # enabled /\ EveryPutReaches => EveryPutReaches']_vars
=============================================================================
