SPECIFICATION Spec
CONSTANTS
  Tables <- MCTables
  Trees <- MCTrees
  Ids <- MCIds
  SetId = {"4755"}
  Cleared <- MCCleared
  Numbered <- MCNumbered
  FieldLimit = 7
  IntSize = 8
  MaxRuns = 3
INVARIANTS
  SuccessMeansDone
  ImagesAlike
CHECK_DEADLOCK FALSE
