SPECIFICATION Spec
CONSTANTS
  Input = {i1, i2}
  Client = {c1, c2}
  Worker = {w1, w2}
  MaxRuns = 3
  MaxEvents = 5
  None = None
SYMMETRY Interchangeable
INVARIANTS
  TypeOK
  MeshOfPly
  InputsKept
  OneGeneration
PROPERTY
  PlyStays
CHECK_DEADLOCK FALSE
