SPECIFICATION Spec
CONSTANTS
  NoFile = NoFile
  Archive <- MCArchive
  Size = {0, 3}
  Word = 4
  MaxChanges = 1
INVARIANTS
  TypeOK
  PresentIsFound
  PlainIsPreferred
  ShortOnlyIfBelieved
  OverOnlyIfGuessed
CHECK_DEADLOCK FALSE
