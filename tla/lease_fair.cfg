\* Fair behaviours, renewal in time, no recoverer: exclusion, and leases that come back.
SPECIFICATION FairSpec
CONSTANTS
  w1 = w1  w2 = w2
  t1 = t1  t2 = t2
  u1 = u1  s1 = s1
  k1 = k1  k2 = k2  k3 = k3
  r1 = r1
  Worker = {w1, w2}
  Task = {t1, t2}
  User = {u1}
  Owner <- MC_OneOwner
  Scope = {s1}
  ScopeOf <- MC_OneScope
  Device <- MC_TwoDevices
  Quota <- MC_QuotaOne
  TTL = 2
  Token = {k1, k2}
  Recoverer = {}
  Timely = TRUE
  Free = Free
  None = None
INVARIANTS
  OneProcessPerDevice
  RunningWithinQuota
PROPERTIES
  DeviceComesBack
  SlotComesBack
  KeepsPromise
