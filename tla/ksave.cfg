SPECIFICATION Spec
CONSTANTS
  Syms = {"A", "B", "C"}
  Values = {"y", "n"}
  Default = "n"
  No = "n"
  Missing = Missing
  Lost = Lost
  NoFile = NoFile
  Retries = FALSE
  MaxEvents = 5
INVARIANTS
  TypeOK
  UnsavedIsMarked
  AutoLast
  NoChangeMissed
PROPERTY
  SavesAtomically
CHECK_DEADLOCK FALSE
