\* Three clients, two resource names, one of the clients may be stopped once.
SPECIFICATION TestSpec
CONSTANTS
  Node = {1, 2}
  Resource <- Resources
  None = None
  SingleWait = FALSE
  Tester = {t1, t2, t3}
  Name = {x, y}
  MaxQuits = 1
SYMMETRY Symmetry
INVARIANTS
  TestTypeOK
  LoneTestSucceeds
  TestsCleanUp
  CyclesAreDeadlocks
