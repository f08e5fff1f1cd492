\* Two clients served by the same node.
SPECIFICATION Spec
CONSTANTS
  c1 = c1
  c2 = c2
  c3 = c3
  NoCaller = NoCaller
  Node = {1, 2}
  Caller = {c1, c2}
  Home <- HomeShared
  MaxClock = 2
  MaxCrashes <- NoCrash
INVARIANT ClientExclusion
CHECK_DEADLOCK FALSE
