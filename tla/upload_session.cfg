SPECIFICATION FairSpec
CONSTANTS
  N = 2
  Request = {r1, r2}
  Overlap <- MC_Patient
  MaxFaults = 2
  Beat = Beat
INVARIANTS
  TypeOK
  NothingLeft
PROPERTIES
  SessionKept
  Resumable
CHECK_DEADLOCK FALSE
