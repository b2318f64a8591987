SPECIFICATION Spec
CONSTANTS
  Episode = {e1, e2}
  MaxChapters = 1
  Years = 1
  MaxFaults = 1
PROPERTIES
  PendingIsDeleted
  RecordingEnds
CHECK_DEADLOCK FALSE
