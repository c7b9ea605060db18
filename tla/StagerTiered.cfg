SPECIFICATION Spec
CONSTANTS
  a = a  b = b  c = c  d = d  e = e  s = s
  NoFile = NoFile  NoJob = NoJob  NoCap = NoCap
  Path = {a, b, c, d, e, s}
  Managed = {a, b, c, d, s}
  Missing = {d}
  Canon <- SymlinkToA
  Plan <- Spread
  Real <- Spread
  Companion <- SidecarOfA
  Hint <- Batches
  Worker = {w1, w2}
  Capacity = 2
  HasOverflow = TRUE
  PrimaryCap = 3
  LeftOver = {e}
  Fault = {"mkdir", "copy", "unlink_tmp"}
  MaxRestarts = 0
INVARIANTS
  PrimaryWithinCap
  StagedStaysHot
PROPERTIES
  ImplementsStaging
SYMMETRY Threads
