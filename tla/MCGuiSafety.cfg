SPECIFICATION Spec
CONSTANTS
  d1 = d1
  d2 = d2
  p1 = p1
  w1 = w1
  w2 = w2
  None = None
  Disks <- MCDisks
  PartNums <- MCPartNums
  Workers <- MCWorkers
SYMMETRY Symmetry
INVARIANTS
  ConfirmReachesWorker
  DoneMeansCloned
  StreamsInSight
  NoForgottenWorker
  AnalysisOfSelection
  OverlapOnlyAfterCancel
