\* Two nodes with every key, one put, node 2 may crash once.
SPECIFICATION FairSpec
CONSTANTS
  Node = {1, 2}
  Copies = {1, 2}
  First = 1
  Second = 2
  Client = {c1}
  Stamp = {1}
  MaxDeletes = 0
  MaxCrashes <- NodeTwoCrashes
PROPERTIES
  ReturnsWhenAllAcknowledge
CHECK_DEADLOCK FALSE
