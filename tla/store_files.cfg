\* One request at a time, a worker, a cleanup that meets nobody, aborts anywhere.
SPECIFICATION Spec
CONSTANTS
  Content = {c1, c2}
  File = {f1, f2, f3}
  Client = {p1}
  Worker = {w1, w2}
  Quiet = TRUE
  MaxIds = 3
  MaxAborts = 1
  None = None
SYMMETRY Alike
INVARIANTS
  TypeOK
  LiveHasBlob
  OrphanListed
CHECK_DEADLOCK FALSE
