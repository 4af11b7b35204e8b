SPECIFICATION AnalysisSpec
CONSTANTS
  d1 = d1
  d2 = d2
  v1 = v1
  v2 = v2
  Disk = d1
  Volumes <- MCVolumes
  ExtentLists <- MCExtentLists
  MaxExtents = 2
  Layouts <- MCLayouts
SYMMETRY Symmetry
INVARIANTS
  PredictionHolds
  NeverUnderstated
