SPECIFICATION Spec
CONSTANTS
  DwordSectors = 4
  Lengths = {1, 2}
  ImageSize = 2
  Window = 2
INVARIANT
  FlushedIsStored
