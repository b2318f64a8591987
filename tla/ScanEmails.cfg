SPECIFICATION Spec
CONSTANTS
  Users = 3
  BatchLimit = 2
  MaxAttempts = 2
  MaxChanges = 1
INVARIANTS
  RetryRepeatsNothing
  NobodyIsLeftOut
  RecordedWasEmailed
  SettledTitleIsShown
PROPERTIES
  WorkflowEnds
  KeepsDelivery
CHECK_DEADLOCK FALSE
