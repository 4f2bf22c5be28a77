SPECIFICATION FairSpec
CONSTANT Inputs <- MCInputs
INVARIANTS
  OverlapSettled
  DisjointBoxes
  ResultExact
PROPERTIES
  SmallPartsJoined
  Terminates
  ImplementsGrouping
CHECK_DEADLOCK FALSE
