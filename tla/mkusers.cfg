SPECIFICATION Spec
CONSTANTS
  root = root
  daemon = daemon
  u1 = u1
  u2 = u2
  gdaemon = gdaemon
  wheel = wheel
  g1 = g1
  g2 = g2
  Users <- MCUsers
  Groups <- MCGroups
  Root = root
  SkelUid <- MCSkelUid
  SkelUgid <- MCSkelUgid
  SkelGid <- MCSkelGid
  SkelMembers <- MCSkelMembers
  Tables <- MCTables
  MinId = 3
  MaxId = 4
  MaxRuns = 2
INVARIANTS
  IdsUnique
  RowsHonoured
  StableIds
PROPERTIES
  Repeatable
CHECK_DEADLOCK FALSE
