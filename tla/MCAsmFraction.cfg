SPECIFICATION Spec
CONSTANTS
  PatternSize = 3
  MaxTextSize = 3
  Unit = 3
  Costs <- FractionCosts
  Thresholds <- FractionThresholds
  Garbage <- Unassigned
INVARIANTS
  StartExact
CHECK_DEADLOCK FALSE
