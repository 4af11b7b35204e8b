SPECIFICATION Spec
CONSTANTS
  DwordSectors = 4
  Lengths = {1, 3, 4, 6}
  Capacity = 8
INVARIANTS
  ProgressHonest
PROPERTIES
  WriteReturns
  ImplementsSinkCalls
