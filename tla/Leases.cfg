SPECIFICATION Spec
CONSTANTS
  Holder = {h1, h2}
  NoHolder = NoHolder
  RenewInterval = 3
  MaxDelay = 10
  MaxTime = 17
  MaxFaults = 2
SYMMETRY Symmetry
INVARIANTS OneRunAtATime RunningTaskHoldsLiveLease
PROPERTY LiveLeaseIsUndisturbed
CHECK_DEADLOCK FALSE
