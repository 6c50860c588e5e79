SPECIFICATION SearchSpec
CONSTANTS
  CallEnds <- MCCallEnds
  Levels <- MCLevels
  Dist <- MCDist
  M = 2
  Gammas = {1, 2}
  MBeta = 1
  Threads = {t1, t2}
  ParallelAbove = 1
  QueryDist <- MCQueryDist
  Filters <- MCFilters
  Sizes <- MCSizes
INVARIANTS ListsSound EntryAtTop HeapCounts FilteredExact
PROPERTY RoundsAdvance AddedAndAnswered
