SPECIFICATION Spec
CONSTANTS
  Elements = {1, 2}
  Modulus = 3
  Threads = {t1, t2}
  CacheIds = {1, 2, 3, 4}
  FirstCaches <- MCFirstCaches
  Memory <- MCMemory
  NumQueries = 4
INVARIANTS OneHolder PoolBounded OwnMarks
PROPERTY QueriesFinish
