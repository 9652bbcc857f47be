SPECIFICATION FairSpec
CONSTANTS
  Workers = {w1, w2}
  Pollers = {w1}
  MaxSteps = 2
  Free = Free
  Other = Other
  MaxIntents = 1
  MaxAttempts = 2
  LeaseTicks = 1
  InitialDelay = 0
  Elapsed = 3
  BaseBackoff = 1
  MaxBackoff = 2
  MaxFaults = 2
INVARIANTS
  PreparedIsKept
  TimelineValid
  FactsMatch
PROPERTIES
  ResultsAreFinal
  WakesSettle
CHECK_DEADLOCK FALSE
