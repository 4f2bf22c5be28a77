SPECIFICATION FairSpec
CONSTANTS
  PatternSize = 2
  MaxTextSize = 4
  Unit = 1
  Costs <- UnitCosts
  Thresholds <- UnitThresholds
  Garbage <- Unassigned
INVARIANTS
  TypeOK
  MatchesExact
  BestMatchKept
  NoMatchExplained
PROPERTIES
  ErasedForBetter
  Terminates
CHECK_DEADLOCK FALSE
