SPECIFICATION JobsSpec
CONSTANTS
  Workers = {w1, d}
  Observers = {d}
  Specs <- MCSpecs
  Interval = 1
  Deadline = 5
  Elapsed = 3
  MaxRounds = 2
  MaxAttempts = 2
  InitialBackoff = 1
  MaxBackoff = 2
  IdleCap = 2
  LeaseTicks = 2
  HasExecutor = TRUE
  Horizon = 5
INVARIANTS
  RoundsMatch
  RoundsCounted
PROPERTY
  RoundsAreFinal
CHECK_DEADLOCK FALSE
