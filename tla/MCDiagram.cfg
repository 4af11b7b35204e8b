SPECIFICATION Spec
CONSTANTS
  GptSectors = 2
  Lengths = {1, 3, 8}
  Starts = {2, 3, 4, 5, 6, 7}
  Sizes = {0, 1, 2, 4}
  Keys = {3, 4, 5}
  Jobs <- MCJobs
INVARIANTS
  TypeOK
  RegionsCover
  PartitionsShown
  RegionsTile
  PreviewMatchesPlan
