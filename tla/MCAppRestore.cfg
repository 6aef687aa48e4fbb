CONSTANTS
  Names = {n1, n2, z1}
  Zips = {z1}
  None = None
  Cut = Cut
  Part = Part
  MaxGen = 1
  Faults = TRUE
SPECIFICATION Spec
INVARIANTS RestoreGoesOn DisplacedIsKept 
PROPERTIES RestartIsTried
CHECK_DEADLOCK FALSE
