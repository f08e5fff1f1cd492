\* Two nodes, no crash, peers that answer: the forced entry.
SPECIFICATION Spec
CONSTANTS
  c1 = c1
  c2 = c2
  c3 = c3
  NoCaller = NoCaller
  Node = {1, 2}
  Caller = {c1, c2}
  Home <- HomesApart
  MaxClock = 2
  MaxCrashes <- NoCrash
INVARIANT AnsweredExclusion
CHECK_DEADLOCK FALSE
