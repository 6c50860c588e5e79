SPECIFICATION ScanSpec
CONSTANTS
  Labels = {1, 2, 3}
  NumVectors = 4
  K = 2
  QueryDist <- MCQueryDist
INVARIANTS IdsDense MinSuperSetsExact OverlapExact RangesSound IsHasseDiagram DescendantsExact CoverageExact GroundTruth
