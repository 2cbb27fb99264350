SPECIFICATION CommandFairSpec
CONSTANTS
  Limit = 1
  MaxSent = 1
  Grace = 3
  Sleep = 1
  MaxDelay = 1
INVARIANT ResultWhole
INVARIANT NothingLeft
INVARIANT GroupKilled
PROPERTY CallReturns
CHECK_DEADLOCK FALSE
