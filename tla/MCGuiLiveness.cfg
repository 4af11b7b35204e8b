SPECIFICATION Spec
CONSTANTS
  d1 = d1
  d2 = d2
  p1 = p1
  w1 = w1
  w2 = w2
  None = None
  Disks = {d1}
  PartNums = {}
  Workers <- MCWorkers
PROPERTIES
  SnapshotAnswered
  CloneAnswered
  AbandonedWorkerEnds
