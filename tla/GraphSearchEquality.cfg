SPECIFICATION HybridSpec
CONSTANTS
  GroupLabels <- MCLabels
  GroupSizes <- MCSizes
  Dist <- MCDist
  MaxDegree = 2
  Lbuild = 2
  NumCross = 2
  Scenarios = {"general"}
  QueryLabels <- MCQueryLabels
  QueryDist <- MCQueryDist
  NewToOld <- MCNewToOld
  LsearchList = {2}
  K = 2
  NumEntry = 2
INVARIANT EqualityExact
