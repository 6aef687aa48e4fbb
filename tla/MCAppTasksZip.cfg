CONSTANTS
  Tasks = {t1, t2, t3}
  None = None
  Part = Part
  MaxGen = 2
  Faults = TRUE
SPECIFICATION Spec
INVARIANTS NeverDeletesData
CHECK_DEADLOCK FALSE
