SPECIFICATION Spec
CONSTANTS
  Call = {c1, c2, c3}
  NoKey = NoKey
  NoOverride = NoOverride
  MaxKeys = 3
  Override = {2}
  MaxReplaceAttempts = 2
  MaxMonth = 1
  MaxFaults = 1
SYMMETRY Symmetry
INVARIANTS
  NoKeyLeaks
  StoredKeyIsLive
  KeyIsSized
PROPERTY ResetReplacesOldKeys
CHECK_DEADLOCK FALSE
