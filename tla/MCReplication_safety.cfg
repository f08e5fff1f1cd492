\* Three nodes with every key, two clients; node 2 may crash once.
SPECIFICATION Spec
CONSTANTS
  Node = {1, 2, 3}
  Copies = {1, 2, 3}
  First = 1
  Second = 2
  Client = {c1, c2}
  Stamp = {1, 2}
  MaxDeletes = 1
  MaxCrashes <- NodeTwoCrashes
INVARIANTS
  TypeOK
  Agreement
  NeverLost
SYMMETRY Symmetry
CHECK_DEADLOCK FALSE
