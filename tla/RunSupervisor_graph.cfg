SPECIFICATION Spec
CONSTANTS
  Workers = {w1}
  Messages = {m1}
  None = None
  Mission = Mission
  Interactive = TRUE
  MaxTurns = 2
  MaxPending = 1
  MaxAttempts = 2
  MaxGeneration = 1
SYMMETRY SupervisorSymmetry
CHECK_DEADLOCK FALSE
INVARIANT
  RestoreFindsRoot
