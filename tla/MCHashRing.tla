---------------------------- MODULE MCHashRing ----------------------------
(* Two virtual nodes per node: every placement without collisions, and     *)
(* every placement on the first four hashes, where they do collide.        *)
EXTENDS HashRing

TwoEach ==
  {p \in [Node -> {s \in SUBSET Hash : Cardinality(s) = 2}] :
     \/ \A m, n \in Node : m # n => p[m] \cap p[n] = {}
     \/ \A n \in Node : p[n] \subseteq 0..3}
=============================================================================
