SPECIFICATION Spec
CONSTANTS
  Top = 2
  Bottom = 6
  Left = 2
  Right = 5
  Images <- MCImages
  MaxLines = 5
  MinLines = 2
  Documents <- MCDocuments
  Height = 9
  Columns <- MCColumns
  Pages <- MCPages
  Unreadable = Unreadable
  Thin = 5
  Least = 3
INVARIANT AverageInLast
CHECK_DEADLOCK FALSE
