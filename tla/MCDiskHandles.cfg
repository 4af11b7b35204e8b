SPECIFICATION Spec
CONSTANTS
  Disks = {d1, d2}
  Threads = {t1, t2, t3}
  None = None
INVARIANTS
  SourceProtected
  LostOnlyByFailedQuery
