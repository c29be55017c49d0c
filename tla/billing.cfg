\* A fault or request: a request, a run that died, a second delivery or a reset.
SPECIFICATION FairSpec
CONSTANTS
  Task = {t1, t2}
  Worker = {w1, w2}
  Request = {c1}
  Beat = Beat
  Quota = 2
  Day = 2
  QuietMidnight = TRUE
  MaxTime = 2
  MaxEvents = 1
  None = None
INVARIANTS
  TypeOK
  NotOvercharged
  CostExact
  NotRefused
PROPERTIES
  BillCloses
  ResetComes
CHECK_DEADLOCK FALSE
