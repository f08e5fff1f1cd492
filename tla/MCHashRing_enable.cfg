\* Three nodes, two virtual nodes each, on a ring of six hashes.
SPECIFICATION Spec
CONSTANTS
  Node = {1, 2, 3}
  HashSpace = 6
  Placements <- TwoEach
  Factors = {0, 2, 4}
PROPERTIES
  EnablingKeepsReach
