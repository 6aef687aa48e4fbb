CONSTANTS
  Workers = {w1, w2}
  Timers = {t1, t2}
  Clients = {c1}
  Cap = 2
  MaxChange = 2
  MaxBreak = 1
SPECIFICATION LiveSpec
INVARIANT ToldShowsLast
PROPERTY FinalStateArrives
