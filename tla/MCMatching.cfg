SPECIFICATION MatchingSpec
CONSTANTS
  ClusterCount = 5
  N = 3
  Samples <- MCSamples
  Labels <- MCLabels
  Vectors <- MCVectors
  t1 = t1
  q1 = q1
  Maps <- MCMaps
  GarbagePoints <- MCGarbage
  Text = {t1}
  Query = {q1}
  ValueDistances <- MCDistances
  Infinity = 100
INVARIANTS
  Paired
  NearestLast
  CostsInUnit
  ClassNearest
  WarpingOptimal
CHECK_DEADLOCK FALSE
