SPECIFICATION Spec
CONSTANTS
  Workers = {w1, w2}
  Messages = {m1, m2}
  None = None
  Mission = Mission
  Interactive = FALSE
  MaxTurns = 2
  MaxPending = 1
  MaxAttempts = 2
  MaxGeneration = 2
SYMMETRY SupervisorSymmetry
CHECK_DEADLOCK FALSE
INVARIANTS
  RootBound
  OwnerViewCurrent
  ClaimsAreKept
  TerminalClosed
PROPERTIES
  TakeoverResumes
  ImplementsFence
  StopIsDeferred
