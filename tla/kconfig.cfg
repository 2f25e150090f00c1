SPECIFICATION Spec
CONSTANTS
  BoolSyms = {"A", "B", "C", "D", "E", "V1", "V2"}
  TriSyms = {}
  IntSyms = {"N"}
  Numeral <- MCNumeral
  HashOrder <- MCHashOrder
  Setups <- MCSetups
  MaxRuns = 2
  MaxActs = 3
  Seeded = {"A"}
INVARIANTS
  CacheCoherent
  OneChosen
  OfferedTakesEffect
PROPERTIES
  WrittenIsRead
  DefconfigRestores
  SilentEndLosesNothing
  NothingLeftToAsk
  ConfEnds

