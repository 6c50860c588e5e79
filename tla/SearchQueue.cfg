CONSTANTS
  Capacity = 2
  Ids <- MCIds
  Dists <- MCDists
SPECIFICATION Spec
INVARIANTS
  TypeOK
  ListIsBestFirst
PROPERTIES
  ExpandsOnce
  RefinesBestFirst
