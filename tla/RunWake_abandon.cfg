SPECIFICATION Spec
CONSTANTS
  Workers = {w1, w2}
  Pollers = {w1, w2}
  MaxSteps = 2
  Free = Free
  Other = Other
  MaxIntents = 1
  MaxAttempts = 2
  LeaseTicks = 1
  InitialDelay = 0
  Elapsed = 3
  BaseBackoff = 1
  MaxBackoff = 2
  MaxFaults = 1
SYMMETRY ConsumerSymmetry
INVARIANTS
  OpenStaysPrepared
CHECK_DEADLOCK FALSE
