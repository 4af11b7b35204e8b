SPECIFICATION Spec
CONSTANTS
  DwordSectors = 4
  Lengths = {1, 2}
  ImageSize = 3
  Window = 2
INVARIANTS
  EveryMethodTried
  FlushWaitsForCommand
PROPERTIES
  CallsReturn
  ImplementsSinkCalls
