CONSTANTS
  NumPoints = 8
  Threads = {t1}
  Dist <- ScatteredDist
  EntryPoint = 1
  MaxDegree = 2
  SlackDegree = 3
  Lbuild = 8
  MaxCandidates = 7
  Alphas <- MCAlphas
SPECIFICATION Spec
INVARIANTS
  Connected
PROPERTIES
  NoLostEdge
