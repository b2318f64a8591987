SPECIFICATION Spec
CONSTANTS
  MaxAttempts = 1
  Resources = 3
  Concurrency = 2
  Limit = 6
  MaxScored = 1
  FetchCost = 2
  CheapCost = 1
  PremiumCost = 1
  ContextCost = 1
  BatchCost = 2
  ReportCost = 1
  MaxIngestCost = 1
INVARIANTS TypeOK ScoredStaysNearMax DeferredOnlyNearLimit
PROPERTY ScoringStaysNearLimit
CHECK_DEADLOCK FALSE
