\* Three nodes and resources, clients that pile up waits.
SPECIFICATION DetectSpec
CONSTANTS
  Node = {n1, n2, n3}
  Resource = {r1, r2, r3}
  None = None
  SingleWait = FALSE
INVARIANT ReportsOnlyDeadlocks
