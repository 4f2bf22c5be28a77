SPECIFICATION FairSpec
CONSTANTS
  q1 = q1
  q2 = q2
  TextCount = 3
  Query <- MCQuery
  Batches <- MCBatches
  MaxMatches = 2
  UnreadableSets <- MCUnreadable
  BlankSets <- MCBlank
  NoInfoSets <- MCNoInfo
INVARIANTS
  StoredOnce
  NothingSkipped
  
  SearchHasQuery
PROPERTIES
  Terminates
CHECK_DEADLOCK FALSE
