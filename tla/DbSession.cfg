SPECIFICATION FairSpec
CONSTANTS
  sA = sA
  sB = sB
  primary = primary
  standby = standby
  item = item
  start = start
  NoAddress = NoAddress
  Servers <- TwoServers
  Roles <- TwoRoles
  Paths = {"tcp", "socket"}
  ItemOps <- OneItem
  BatchOps <- OneBatch
  NumQueries = 1
  MaxAttempts = 2
  FailFast = FALSE
INVARIANT OneEndpoint
INVARIANT NoSessionLeftOpen
INVARIANT TextsResolve
INVARIANT GivesUpOnlyExhausted
PROPERTY ImplementsTimeline
PROPERTY Termination
CHECK_DEADLOCK FALSE
