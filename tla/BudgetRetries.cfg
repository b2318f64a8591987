SPECIFICATION Spec
CONSTANTS
  MaxAttempts = 2
  Resources = 1
  Concurrency = 1
  Limit = 2
  MaxScored = 1
  FetchCost = 1
  CheapCost = 1
  PremiumCost = 0
  ContextCost = 0
  BatchCost = 1
  ReportCost = 1
  MaxIngestCost = 1
INVARIANT RowCostWasBilled
CHECK_DEADLOCK FALSE
