CONSTANTS
  NumPoints = 5
  Threads = {t1, t2}
  Dist <- OrderedDist
  EntryPoint = 2
  MaxDegree = 1
  SlackDegree = 1
  Lbuild = 3
  MaxCandidates = 3
  Alphas <- MCAlphas
SPECIFICATION Spec
INVARIANTS
  TypeOK
  DegreeBound
  NeverStranded
PROPERTIES
  Advances
  Terminates
