SPECIFICATION Spec
CONSTANTS
  b1 = b1
  b2 = b2
  Builders = {b1}
  Chunks = 3
  Setups <- MCSetups
  Inodes <- MCInodes
  MaxRuns = 3
  MaxFaults = 2
PROPERTIES
  FetchesAtomically
  CompleteStays
  RetryWorks
CHECK_DEADLOCK FALSE
