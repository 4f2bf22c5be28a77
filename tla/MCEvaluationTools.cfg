SPECIFICATION Spec
CONSTANTS
  Text <- MCText
  Query <- MCQuery
  UnreadableSets <- MCUnreadable
  Point <- MCPoint
  MaxRecords = 2
  MaxSessions = 3
  p1 = p1
  p2 = p2
  NoFile = NoFile
  Unreadable = Unreadable
  Unparsable = Unparsable
  Page = {p1, p2}
  MethodCount = 2
  Threshold = {1, 2}
  Record <- MCRecord
  Garbage <- MCGarbage
  GroundTruths <- MCGroundTruths
  Outputs <- MCOutputs
  AbsentSets <- MCAbsent
  MarkedSets <- MCMarked
INVARIANTS
  BoxesOnDisplay
  PairsDisplayed
  CurvesExact
PROPERTIES
  AllPagesCounted
CHECK_DEADLOCK FALSE
