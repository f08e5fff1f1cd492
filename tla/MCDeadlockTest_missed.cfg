\* Three clients, two resource names, nobody stops.
SPECIFICATION TestSpec
CONSTANTS
  Node = {1, 2}
  Resource <- Resources
  None = None
  SingleWait = FALSE
  Tester = {t1, t2, t3}
  Name = {x, y}
  MaxQuits = 0
SYMMETRY Symmetry
PROPERTY EveryDeadlockFound
