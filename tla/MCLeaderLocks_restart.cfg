\* Two nodes, one crash, one restart, calls that exceed their timers, two clients.
SPECIFICATION LockFairSpec
CONSTANTS
  Node = {1, 2}
  NoLeader = NoLeader
  InitiallyUp = {1, 2}
  MaxCrashes = 1
  MaxStarts = 1
  MaxPending = 2
  Slow = TRUE
  Client = {c1, c2}
  Resource = {r1}
INVARIANTS
  OneElection
  LocksWhereLed
PROPERTIES
  KeepsTrying
