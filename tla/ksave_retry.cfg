SPECIFICATION Spec
CONSTANTS
  Syms = {"A", "B"}
  Values = {"y", "n"}
  Default = "n"
  No = "n"
  Missing = Missing
  Lost = Lost
  NoFile = NoFile
  Retries = TRUE
  MaxEvents = 6
PROPERTY SavedIsCurrent
CHECK_DEADLOCK FALSE
