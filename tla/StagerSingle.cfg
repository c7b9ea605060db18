SPECIFICATION Spec
CONSTANTS
  a = a  b = b  c = c  d = d  e = e  s = s
  NoFile = NoFile  NoJob = NoJob  NoCap = NoCap
  Path = {a, b, c}
  Managed = {a, b}
  Missing = {}
  Canon <- Plain
  Plan <- Mixed
  Real <- Grown
  Companion <- NoCompanion
  Hint <- OneByOne
  Worker = {w1, w2}
  Capacity = 3
  HasOverflow = FALSE
  PrimaryCap = NoCap
  LeftOver = {c}
  Fault = {"copy", "rename", "evict"}
  MaxRestarts = 1
INVARIANTS
  TypeOK
  NeverPartial
  EveryJobOwnedOnce
  ReservationExact
  NoStrandedTmp
PROPERTIES
  ImplementsStagingFairly
