SPECIFICATION Spec
CONSTANTS
  Task = {t1}
  Client = {c1}
  Recoverer = {r1}
  Worker = {w1}
  TaskQuota = 1
  MaxRetries = 2
  Prompt = TRUE
  OneStart = FALSE
  Faults = {}
  MaxFaults = 0
  MaxStarts = 1
  MaxMessages = 2
  MaxCancels = 1
  None = None
PROPERTIES
  CancelFinal
CHECK_DEADLOCK FALSE
