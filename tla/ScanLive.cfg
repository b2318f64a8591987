SPECIFICATION LiveSpec
CONSTANTS
  Row = {r1, r2}
  FirstRow = r1
  NoRow = NoRow
  Request = {}
  Sweep = Sweep
  Creator = Creator
  MaxAttempts = 2
  MaxFaults = 1
  MaxStrays = 1
  MaxStops = 0
  MaxDeletes = 0
PROPERTIES
  EveryOpenScanCloses
