\* Three nodes up from the start, one crash, prompt calls, one client at a time;
\* a second announcement of a node to a peer fails while the first is under way.
SPECIFICATION LockMonitorSpec
CONSTANTS
  Node = {1, 2, 3}
  NoLeader = NoLeader
  InitiallyUp = {1, 2, 3}
  MaxCrashes = 1
  MaxStarts = 0
  MaxPending = 1
  Slow = FALSE
  Client = {c1}
  Resource = {r1}
INVARIANTS
  LockTypeOK
  OneElection
  LeaderIsHighest
  OneTable
PROPERTIES
  HighestLeads
