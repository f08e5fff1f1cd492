\* Two clients served by node 1, one by node 2, no crash.
SPECIFICATION Spec
CONSTANTS
  c1 = c1
  c2 = c2
  c3 = c3
  NoCaller = NoCaller
  Node = {1, 2}
  Caller = {c1, c2, c3}
  Home <- TwoAtNodeOne
  MaxClock = 4
  MaxCrashes <- NoCrash
INVARIANT CurrentGrantsExclude
CHECK_DEADLOCK FALSE
