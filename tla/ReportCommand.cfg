SPECIFICATION Spec
CONSTANTS
  Count = 2
  Definitions <- MCDefinitions
  Selections <- MCSelections
INVARIANT Served
INVARIANT EveryItemAnswered
INVARIANT ExitTells
INVARIANT ClosedAtExit
CHECK_DEADLOCK FALSE
