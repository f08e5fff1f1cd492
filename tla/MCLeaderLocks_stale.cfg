\* Two nodes, one crash, prompt calls, one client.
SPECIFICATION LockFairSpec
CONSTANTS
  Node = {1, 2}
  NoLeader = NoLeader
  InitiallyUp = {1, 2}
  MaxCrashes = 1
  MaxStarts = 0
  MaxPending = 2
  Slow = FALSE
  Client = {c1}
  Resource = {r1}
PROPERTIES
  LocksByLeader
CHECK_DEADLOCK FALSE
