\* Two nodes with every key, two clients; each node may crash once.
SPECIFICATION FairSpec
CONSTANTS
  Node = {1, 2}
  Copies = {1, 2}
  First = 1
  Second = 2
  Client = {c1, c2}
  Stamp = {1, 2}
  MaxDeletes = 0
  MaxCrashes <- EachCrashes
PROPERTIES
  CommandsReturn
CHECK_DEADLOCK FALSE
