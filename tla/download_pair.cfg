SPECIFICATION Spec
CONSTANTS
  b1 = b1
  b2 = b2
  Builders = {b1, b2}
  Chunks = 2
  Setups <- MCSetupsPair
  Inodes <- MCInodes
  MaxRuns = 1
  MaxFaults = 1
INVARIANTS
  ParallelSettles
CHECK_DEADLOCK FALSE
