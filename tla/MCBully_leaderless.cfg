\* One crash and restart, prompt calls.
SPECIFICATION FairSpec
CONSTANTS
  Node = {1, 2}
  NoLeader = NoLeader
  InitiallyUp = {1, 2}
  MaxCrashes = 1
  MaxStarts = 1
  MaxPending = 2
  Slow = FALSE
PROPERTIES
  SomeoneLeads
CHECK_DEADLOCK FALSE
