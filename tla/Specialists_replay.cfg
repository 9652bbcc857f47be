SPECIFICATION Spec
CONSTANTS
  Root = root
  Children = {c1}
  MaxTurns = 3
  Limits = {1}
  TokenLimit = 0
  Batch = 1
  MessageBatch = 1
  InboxLimit = 1
  HistoryLimit = 1
  MaxBegun = 1
  MaxGeneration = 1
  Addressed = {}
INVARIANTS
  StartedTurnCanPrepare
CHECK_DEADLOCK FALSE
