SPECIFICATION FairSpec
CONSTANTS
  Task = {t1}
  Client = {c1}
  Recoverer = {r1}
  Worker = {w1}
  TaskQuota = 1
  MaxRetries = 2
  Prompt = TRUE
  OneStart = FALSE
  Faults = {"worker", "redelivery", "starter", "recoverer", "broker"}
  MaxFaults = 1
  MaxStarts = 2
  MaxMessages = 4
  MaxCancels = 1
  None = None
INVARIANTS
  TypeOK
  QueuedIsDriven
  PlyNeverFailed
PROPERTIES
  ActiveEnds
CHECK_DEADLOCK FALSE
