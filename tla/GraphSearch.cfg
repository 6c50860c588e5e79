SPECIFICATION HybridSpec
CONSTANTS
  GroupLabels <- MCLabels
  GroupSizes <- MCSizes
  Dist <- MCDist
  MaxDegree = 2
  Lbuild = 2
  NumCross = 2
  Scenarios = {"general", "equality"}
  QueryLabels <- MCQueryLabels
  QueryDist <- MCQueryDist
  NewToOld <- MCNewToOld
  LsearchList = {2, 8}
  K = 2
  NumEntry = 2
INVARIANTS EdgesFollowLabels CrossEdgesClosest GroupsConnected OnlyAdmitted AnswersExact
PROPERTY Answered
