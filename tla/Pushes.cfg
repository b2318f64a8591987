SPECIFICATION Spec
CONSTANTS
  Phone = {p1, p2}
  User = {u1, u2}
  NoUser = NoUser
  ChunkSize = 2
  MaxAttempts = 2
  MaxChecks = 2
  MaxRows = 2
  MaxMoves = 1
  MaxFaults = 1
SYMMETRY Symmetry
INVARIANTS
  MovedPhoneGetsNothing
  RepeatsOnlyIfUnsure
  NobodyIsSkipped
  ReceiptsAreActedOn
PROPERTY KeepsDelivery
CHECK_DEADLOCK FALSE
