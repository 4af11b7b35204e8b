SPECIFICATION StreamSpec
CONSTANTS
  GptSectors = 2
  DwordSectors = 4
  SinksUsed = {"file"}
  BuffersUsed = {3}
  Excludes = {{1}}
  Jobs <- MCJobs
INVARIANTS
  ExcludedIsZero
