SPECIFICATION Spec
CONSTANTS
  Labels = {1, 2}
  NumVectors = 3
INVARIANT BitsAreDescendants
