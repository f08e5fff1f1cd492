\* Two nodes with every key, two clients, no crash, no delete.
SPECIFICATION Spec
CONSTANTS
  Node = {1, 2}
  Copies = {1, 2}
  First = 1
  Second = 2
  Client = {c1, c2}
  Stamp = {1, 2}
  MaxDeletes = 0
  MaxCrashes <- NoCrash
PROPERTIES
  RepairsOnlyOlder
CHECK_DEADLOCK FALSE
