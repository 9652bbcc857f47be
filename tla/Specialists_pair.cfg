SPECIFICATION Spec
CONSTANTS
  Root = root
  Children = {c1,c2}
  MaxTurns = 3
  Limits = {1}
  TokenLimit = 0
  Batch = 1
  MessageBatch = 1
  InboxLimit = 2
  HistoryLimit = 2
  MaxBegun = 1
  MaxGeneration = 2
  Addressed = {}
INVARIANTS
  OrderKept EveryEndIsReported
SYMMETRY Symmetry
CHECK_DEADLOCK FALSE
