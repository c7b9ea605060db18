SPECIFICATION Spec
CONSTANTS
  a = a  b = b  c = c  d = d  e = e  s = s
  NoFile = NoFile  NoJob = NoJob  NoCap = NoCap
  Path = {a, b, c}
  Managed = {a, b, c}
  Missing = {}
  Canon <- Plain
  Plan <- Mixed
  Real <- Mixed
  Companion <- NoCompanion
  Hint <- OneByOne
  Worker = {w1, w2}
  Capacity = 3
  HasOverflow = FALSE
  PrimaryCap = NoCap
  LeftOver = {}
  Fault = {}
  MaxRestarts = 0
INVARIANTS
  WithinCapacity
