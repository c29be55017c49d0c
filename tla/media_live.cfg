SPECIFICATION FairSpec
CONSTANTS
  Client = {c1}
  Recoverer = {r1}
  Worker = {w1}
  Id = {i1, i2, i3, i4}
  MaxRetries = 1
  Prompt = TRUE
  Faults <- MC_Faults
  MaxFaults = 1
  MaxAsks = 1
  None = None
INVARIANTS
  TypeOK
  PendingIsDriven
PROPERTIES
  MediaSettles
CHECK_DEADLOCK FALSE
