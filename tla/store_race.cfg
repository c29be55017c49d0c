\* A worker stores a content again while the cleanup deletes it.
SPECIFICATION Spec
CONSTANTS
  Content = {c1}
  File = {f1, f2}
  Client = {p1}
  Worker = {w1}
  Quiet = FALSE
  MaxIds = 2
  MaxAborts = 0
  None = None
INVARIANTS
  LiveHasBlob
CHECK_DEADLOCK FALSE
