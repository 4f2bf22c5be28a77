SPECIFICATION Spec
CONSTANTS
  Height = 3
  Width = 4
INVARIANTS
  ScanLosesNoClash
  ExtractsComponents
  ListInRasterOrder
PROPERTIES
  LinkedOnce
CHECK_DEADLOCK FALSE
