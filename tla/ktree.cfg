SPECIFICATION Spec
CONSTANTS
  BoolSyms = {"A", "B", "D"}
  TriSyms = {"C"}
  IntSyms = {}
  Names <- MCNames
  Choice = "C"
  Budgets <- MCBudgets
INVARIANTS
  TreeIntact
  ScopeRespected
  NoHiddenPrompt
  RecursionReported
CHECK_DEADLOCK FALSE
