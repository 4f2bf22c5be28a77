SPECIFICATION FeaturesSpec
CONSTANTS
  MaxComps = 3
  MaxRuns = 2
  ER = 3
  EC = 3
  Strips = 3
  Images <- MCImages
INVARIANTS
  InPlace
  MoreOnlyIfStale
  StaleExplained
  GridExact
CHECK_DEADLOCK FALSE
