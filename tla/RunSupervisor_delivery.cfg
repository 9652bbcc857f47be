SPECIFICATION Spec
CONSTANTS
  Workers = {w1}
  Messages = {m1, m2}
  None = None
  Mission = Mission
  Interactive = TRUE
  MaxTurns = 2
  MaxPending = 2
  MaxAttempts = 3
  MaxGeneration = 2
SYMMETRY SupervisorSymmetry
CHECK_DEADLOCK FALSE
INVARIANTS
  DeliveryBinding
  ExactlyOnce
PROPERTIES
  CorrectionsAnswered
  ImplementsDelivery
