SPECIFICATION SearchSpec
CONSTANTS
  CallEnds <- MCOneCall
  Levels <- MCTwoLevels
  Dist <- MCDist
  M = 2
  Gammas = {1}
  MBeta = 1
  Threads = {t1}
  ParallelAbove = 100
  QueryDist <- MCQueryDist
  Filters <- MCFilters
  Sizes <- MCSizes
INVARIANT LinksInPlace
