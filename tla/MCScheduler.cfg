CONSTANTS
  Manual = {byHand}
  Night = Night
  None = None
  Day = 4
  Hours = {1, 3}
  Jitter = 1
  Grace = 1
  MaxEdits = 2
  Faults = TRUE
SPECIFICATION Spec
INVARIANTS OneRun EditTakesEffect NoNightSkipped ToldTheTruth
