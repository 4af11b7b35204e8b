SPECIFICATION CloneSpec
CONSTANTS
  d1 = d1
  d2 = d2
  v1 = v1
  v2 = v2
  Disk = d1
  Volumes <- MCVolumes
  ExtentLists <- MCExtentLists
  MaxExtents = 2
  GptSectors = 2
  DwordSectors = 4
  Jobs <- Builders
  SourceLength = 7
  Tables <- MCTables
  VolumeLength <- MCVolumeLength
  Sink = "file"
  BufferLengths = {1, 2}
INVARIANTS
  CompletedExactlyOnce
  MapComplete
  SuccessIsComplete
  SupportedFromShadow
  OwnCopyOrLive
  ShadowsReadAreThere
