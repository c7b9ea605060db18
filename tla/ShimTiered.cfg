SPECIFICATION Spec
CONSTANTS
  a = a  b = b  x = x  z = z  NoFile = NoFile
  Path = {x, z}
  Managed = {z}
  Canon <- LinkToZ
  HasOverflow = TRUE
  Archived = {z}
  Thread = {t1}
  SpinChecks = 1
  HotFault = TRUE
  MaxVersion = 2
INVARIANTS
  StagedIsServed
PROPERTIES
  FoundStaysFound
  CallsReturn
  StaleOnlyIfExposed
