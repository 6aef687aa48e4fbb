CONSTANTS
  Calls = {c1}
  Stamps = {s1, s2, s3}
  None = None
  Torn = Torn
  MaxVersion = 2
  Faults = TRUE
SPECIFICATION Spec
INVARIANT NeverOnNewerData
PROPERTY RolledBackIsOld
CHECK_DEADLOCK FALSE
