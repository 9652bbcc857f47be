SPECIFICATION Spec
CONSTANTS
  Root = root
  Children = {c1}
  MaxTurns = 3
  Limits = {2}
  TokenLimit = 0
  Batch = 1
  MessageBatch = 1
  InboxLimit = 1
  HistoryLimit = 1
  MaxBegun = 2
  MaxGeneration = 2
  Addressed = {root,c1}
INVARIANTS
  BudgetHolds AttemptsMatchNodes SnapshotCurrent
  ReadOnce PreparedBelongs ChildrenFollowRun
PROPERTY OutcomeUnderOwnLease
CHECK_DEADLOCK FALSE
