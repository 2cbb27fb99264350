SPECIFICATION WindowSpec
CONSTANTS
  MinDuration = 10
  MaxDuration = 24
  MinInterval = 5
  MaxInterval = 8
  MaxCount = 4
  MaxBatch = 8
  MaxLate = 2
  MaxOutage = 3
  MaxRetries = 1
INVARIANT NoBacklog
INVARIANT AllAccounted
INVARIANT OverrunBounded
CHECK_DEADLOCK FALSE
