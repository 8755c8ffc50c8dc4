CONSTANTS
  d1 = d1
  d2 = d2
  None = None
  DispatchIds = {d1, d2}
  MaxSends = 1
  MaxFaults = 1
  MaxJobs = 2
SPECIFICATION Spec
INVARIANTS
  TypeOK
  CorrelatedUntilStray
  NothingMissed
  SavedInOrder
  DeletedIsGone
SYMMETRY MCSymmetry
CHECK_DEADLOCK FALSE
