CONSTANTS
  Tasks = {t1, t2, t3}
  None = None
  Part = Part
  MaxGen = 2
  Faults = TRUE
SPECIFICATION Spec
SYMMETRY AnyOrder
INVARIANTS TypeOK BarHasTask OneOfAKind DataIsKept
PROPERTIES FailureIsShown
CHECK_DEADLOCK FALSE
