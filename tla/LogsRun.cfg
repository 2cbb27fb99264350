SPECIFICATION RunSpec
CONSTANTS
  Soft = 10
  Deadline = 30
  StopMax = 3
  JoinMax = 2
  CleanupMax = 8
  CloseMax = 8
INVARIANT ReportInPlace
INVARIANT EndsByDeadline
INVARIANT TempsRemoved
CHECK_DEADLOCK FALSE
