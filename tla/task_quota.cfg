\* One user, two tasks, two requests at once; a database or broker hiccup anywhere.
SPECIFICATION Spec
CONSTANTS
  Task = {t1, t2}
  Client = {c1, c2}
  Recoverer = {r1}
  Worker = {w1, w2}
  TaskQuota = 1
  MaxRetries = 2
  Prompt = TRUE
  OneStart = TRUE
  Faults = {"exception", "broker"}
  MaxFaults = 1
  MaxStarts = 3
  MaxMessages = 4
  MaxCancels = 0
  None = None
SYMMETRY Everyone
INVARIANTS
  QuotaHolds
CHECK_DEADLOCK FALSE
