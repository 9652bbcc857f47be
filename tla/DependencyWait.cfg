SPECIFICATION Spec
CONSTANTS
  Agents = {root, c1, c2}
  Root = root
  Keys = {k1, k2}
  Policies = {"fail"}
  Generations = {1}
  Terms = {1}
  MaxOpen = 3
  MaxDepth = 2
  LivelockLimit = 1
  InboxLimit = 2
  MaxRecorded = 2
  Moves = {"waiting","completed"}
  Horizon = 1
INVARIANTS
  WaitsAcyclic
  ToldOnce
PROPERTY
  SourceIsWoken
SYMMETRY Symmetry
CHECK_DEADLOCK FALSE
