SPECIFICATION FairSpec
CONSTANTS
  Request = {r1, r2}
  Version = {v1, v2}
  FileSize = 5
  ChunkSize = 2
  Patient = TRUE
  MaxEvents = 2
  None = None
INVARIANTS
  TypeOK
  MergeRight
  Accounted
  CompletedWhole
PROPERTY
  DownloadEnds
CHECK_DEADLOCK FALSE
