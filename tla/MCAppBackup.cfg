CONSTANTS
  Jobs = {j1}
  Containers = {c1, c2}
  Kinds = {"folder", "zip", "kopia"}
  None = None
  Torn = Torn
  Part = Part
  MaxGen = 3
  MaxCrashes = 1
  Faults = TRUE
  Operators = TRUE
  N = 3
  Partial <- MCPartial
  MaxTick = 4
SPECIFICATION MCSpec
INVARIANTS DownGoesOn TornOnlyWhenDisturbed FailedLeavesNothing
INVARIANTS MirrorIsExact UpToDateIsCurrent StoppedPassSucceeds
PROPERTIES KeepsPromise AppComesBack
CHECK_DEADLOCK FALSE
