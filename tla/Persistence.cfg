SPECIFICATION DiskSpec
CONSTANTS
  Labels = {1, 2, 3}
  NumVectors = 3
  Scenarios = {"general", "equality"}
INVARIANTS NoTornIndex TrieSurvives LabelsSurvive BitmapExact
