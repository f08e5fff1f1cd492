\* Two callers on two nodes that both own the key, node 1 may crash once.
SPECIFICATION PutFairSpec
CONSTANTS
  c1 = c1
  c2 = c2
  NoCaller = NoCaller
  NoValue = NoValue
  Node = {1, 2}
  Caller = {c1, c2}
  Home <- HomesApart
  Owners <- OwnersTwoOne
  MaxClock = 1
  MaxCrashes <- NodeOneCrashes
INVARIANTS
  PutTypeOK
PROPERTIES
  ExclusiveWriteReplicated
  EveryCallReturns
  QueueDrains
CHECK_DEADLOCK FALSE
