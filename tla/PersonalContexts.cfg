SPECIFICATION Spec
CONSTANTS
  Sender = {u1}
  Entry = {e1}
  Attempt = {a1, a2}
  NoAttempt = NoAttempt
  Review = {r1}
  MaxAttempts = 2
  MaxRevision = 2
  MaxTurns = 1
  MaxFaults = 2
INVARIANTS
  TextIsWhole
  UnprocessedIsDirty
  AnnotationIsCurrent
  BilledIsRecorded
PROPERTY ContextSettles
CHECK_DEADLOCK FALSE
