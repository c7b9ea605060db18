SPECIFICATION Spec
CONSTANTS
  a = a  b = b  x = x  z = z  NoFile = NoFile
  Path = {a, z}
  Managed = {a, z}
  Canon <- LinkToA
  HasOverflow = FALSE
  Archived = {z}
  Thread = {t1}
  SpinChecks = 1
  HotFault = TRUE
  MaxVersion = 2
INVARIANTS
  TypeOK
PROPERTIES
  FailsOnlyIfColdFails
  StaleOnlyIfExposed
