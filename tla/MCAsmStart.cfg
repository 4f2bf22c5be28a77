SPECIFICATION FairSpec
CONSTANTS
  PatternSize = 2
  MaxTextSize = 4
  Unit = 1
  Costs <- UnitCosts
  Thresholds <- UnitThresholds
  Garbage <- Unassigned
INVARIANT StartsBeforeItEnds
CHECK_DEADLOCK FALSE
