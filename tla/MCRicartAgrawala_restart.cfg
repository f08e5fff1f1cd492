\* Two nodes, one request pending on each; node 2 may crash and start again.
SPECIFICATION Spec
CONSTANTS
  c1 = c1
  c2 = c2
  c3 = c3
  NoCaller = NoCaller
  Node = {1, 2}
  Caller = {c1, c2}
  Home <- HomesApart
  MaxClock = 2
  MaxCrashes <- NodeTwoCrashes
INVARIANT GrantsExclude
CHECK_DEADLOCK FALSE
