SPECIFICATION Spec
CONSTANTS
  BoolSyms = {"A", "B"}
  TriSyms = {"T"}
  IntSyms = {}
  Pools <- MCPools
INVARIANTS
  MeaningKept
  PrintKeepsMeaning
PROPERTIES
  StagesKeep
CHECK_DEADLOCK FALSE
