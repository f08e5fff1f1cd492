\* Three nodes and resources, clients that wait for one lock at a time.
SPECIFICATION DetectFairSpec
CONSTANTS
  Node = {n1, n2, n3}
  Resource = {r1, r2, r3}
  None = None
  SingleWait = TRUE
INVARIANTS
  DetectTypeOK
  EdgesSound
  AnswerMatchesLocks
  ReportHoldsCycle
PROPERTIES
  NoLostEdge
  ImplementsLockTable
  SearchEnds
  ImplementsDetector
