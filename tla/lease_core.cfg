\* Two workers of one node, one user, with crashes, expiry and a recoverer.
SPECIFICATION Spec
CONSTANTS
  w1 = w1  w2 = w2
  t1 = t1  t2 = t2
  u1 = u1  s1 = s1
  k1 = k1  k2 = k2  k3 = k3
  r1 = r1
  Worker = {w1, w2}
  Task = {t1, t2}
  User = {u1}
  Owner <- MC_OneOwner
  Scope = {s1}
  ScopeOf <- MC_OneScope
  Device <- MC_OneDevice
  Quota <- MC_QuotaOne
  TTL = 2
  Token = {k1, k2, k3}
  Recoverer = {r1}
  Timely = FALSE
  Free = Free
  None = None
SYMMETRY MC_Symmetry
INVARIANTS
  TypeOK
  SlotsWithinQuota
  LeaseHeldOnce
PROPERTIES
  OnlyOwnLease
