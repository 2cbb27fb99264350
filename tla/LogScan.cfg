SPECIFICATION Spec
CONSTANTS
  a1 = a1
  a2 = a2
  p = p
  x = x
  fpA = fpA
  fpP = fpP
  fpX = fpX
  Names = {1, 2}
  Kinds <- MCKinds
  Wanted <- MCWanted
  Preserved <- MCPreserved
  PrintOf <- MCPrintOf
  InitialRecords = 3
  MaxServer = 2
  From = 2
  CandidateCaps = {1, 2}
  ScanBudget = 3
  WireBudgets = {3, 5}
  Gap = 1
INVARIANT WindowTrue
INVARIANT CompleteMeansAll
INVARIANT ParserAgrees
CHECK_DEADLOCK FALSE
