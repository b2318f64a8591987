SPECIFICATION Spec
CONSTANTS
  Row = {r1, r2}
  FirstRow = r1
  NoRow = NoRow
  Request = {q1}
  Sweep = Sweep
  Creator = Creator
  MaxAttempts = 1
  MaxFaults = 0
  MaxStrays = 0
  MaxStops = 0
  MaxDeletes = 0
VIEW ViewOfContests
INVARIANT RunningScanKeepsItsRow
