SPECIFICATION Spec
CONSTANTS
  Plans <- MCPlans
  Logs <- MCLogs
  RowLimit = 2
  PerBucket = 1
  PointLimit = 2
  PoolLimit = 1
  Limits = {1, 3}
INVARIANT CountsAddUp
INVARIANT BudgetSaysSo
INVARIANT EmptyIsTrue
CHECK_DEADLOCK FALSE
