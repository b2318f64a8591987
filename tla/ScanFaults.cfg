SPECIFICATION Spec
CONSTANTS
  Row = {r1, r2}
  FirstRow = r1
  NoRow = NoRow
  Request = {}
  Sweep = Sweep
  Creator = Creator
  MaxAttempts = 2
  MaxFaults = 1
  MaxStrays = 1
  MaxStops = 1
  MaxDeletes = 1
SYMMETRY Symmetry
INVARIANTS
  RefusedScanRunsNoSource
  RunningScanKeepsItsRow
PROPERTIES
  KeepsPromise
  FailedScanSucceedsOnlyIfReviewed
