SPECIFICATION StreamSpec
CONSTANTS
  GptSectors = 2
  DwordSectors = 4
  SinksUsed = {"file", "disk", "ssh"}
  BuffersUsed = {1, 3, 5}
  Excludes = {{}, {1}}
  Jobs <- MCJobs
INVARIANTS
  StreamTypeOK
  LayoutPreserved
  CloneComplete
  NeverIncomplete
  FallbackReported
  StatusTruthful
  HandleDiscipline
PROPERTIES
  ImplementsCopy
  EndsUnlessStalled
